------------------------ MODULE KVCacheManagerProofs ------------------------
(***************************************************************************)
(* Theorems about KVCacheManager, for any set of sequences, any number and *)
(* size of blocks and any demands: the blocks are partitioned at every     *)
(* step, no branch the code calls unreachable is taken, no table wastes a  *)
(* whole block between calls, and the loops of reserve() compute what      *)
(* KVCache says in one step.                                               *)
(*                                                                         *)
(* The heart of it is that the feasibility test of reserve() is exact:     *)
(* what reclaimable_blocks sums up over the tables is what choose_victim   *)
(* finds through the admission order, so the eviction loop never runs out  *)
(* of victims (EvictHasVictim) and the allocation loop never runs out of   *)
(* blocks (AllocateOneStep).  For the refinement, a reservation keeps the  *)
(* cache it began on: what it has evicted so far is the first of the       *)
(* policy's choices and lies in every sufficient set of them (Progress).   *)
(***************************************************************************)
EXTENDS KVCacheManager, FilteringProofs

-----------------------------------------------------------------------------
(* The inductive invariant.                                                *)

\* An op in progress; before is a snapshot that only the refinement reads.
Operations ==
    [phase : {"idle", "evict", "allocate"}, seq : Seqs \cup {NoSeq}, n : Nat, needed : Nat,
     evicted : SUBSET Seqs, before : {op.before}]

TypeOK ==
    /\ policy \in {"newest", "largest"}
    /\ free \in Seq(Blocks)
    /\ refs \in [Blocks -> Nat]
    /\ known \in SUBSET Seqs
    /\ blocks \in [Seqs -> Seq(Blocks)]
    /\ tokens \in [Seqs -> Nat]
    /\ order \in Seq(Seqs)
    /\ op \in Operations

\* The admission order lists the tables, each once, and a sequence without a table holds
\* nothing: what choose_victim scans is what reclaimable_blocks sums up.
OrderListsTables ==
    /\ Distinct(order)
    /\ \A s \in Seqs : s \in known <=> Has(order, s)
    /\ \A s \in Seqs \ known : blocks[s] = <<>> /\ tokens[s] = 0

\* The last block of a table is not empty.
Tight(s) == tokens[s] <= Capacity(s) /\ Capacity(s) < tokens[s] + BlockSize

\* A reservation in progress has a table, asks for as many blocks as its tokens need,
\* and was found feasible: in the eviction loop what it wants and holds fits in the
\* cache, in the allocation loop the free list covers what is left of it.
Reserving ==
    op.phase # "idle" =>
        /\ op.seq \in known /\ op.n > 0
        /\ tokens[op.seq] + op.n <= (Len(blocks[op.seq]) + op.needed) * BlockSize
        /\ (Len(blocks[op.seq]) + op.needed) * BlockSize < tokens[op.seq] + op.n + BlockSize
        /\ op.phase = "evict" => /\ Len(blocks[op.seq]) + op.needed <= TotalBlocks
                                 /\ Len(free) < op.needed
        /\ op.phase = "allocate" => op.needed <= Len(free)

OthersTight == \A s \in Seqs : op.phase = "idle" \/ s # op.seq => Tight(s)

IInv ==
    /\ TypeOK
    /\ BlocksPartitioned
    /\ OrderListsTables
    /\ Reserving
    /\ OthersTight
    /\ NoFault

-----------------------------------------------------------------------------
(* Arithmetic of blocks.                                                   *)

\* Rounding up to whole blocks covers the tokens and wastes less than one block.
LEMMA RoundingUp ==
    ASSUME NEW a \in Nat, NEW d \in Nat \ {0}
    PROVE  LET q == (a + d - 1) \div d
           IN  q \in Nat /\ a <= q * d /\ q * d < a + d
OBVIOUS

\* Capacity is additive in the number of blocks.
LEMMA Distribution ==
    ASSUME NEW a \in Nat, NEW b \in Nat, NEW d \in Nat
    PROVE  (a + b) * d = a * d + b * d
OBVIOUS

\* additional_blocks_for: with the blocks it asks for the table covers its tokens and the
\* new ones, and its last block is not empty.
LEMMA NeededBlocks ==
    ASSUME TypeOK, NEW s \in Seqs, NEW n \in Nat \ {0}, Tight(s)
    PROVE  LET m == AdditionalBlocksFor(s, n)
           IN  /\ m \in Nat
               /\ tokens[s] + n <= (Len(blocks[s]) + m) * BlockSize
               /\ (Len(blocks[s]) + m) * BlockSize < tokens[s] + n + BlockSize
<1> DEFINE m == AdditionalBlocksFor(s, n)
           c == Capacity(s)
           w == tokens[s] + n
           p == (Len(blocks[s]) + m) * BlockSize
<1>1. /\ BlockSize \in Nat \ {0} /\ Len(blocks[s]) \in Nat /\ tokens[s] \in Nat
  BY ManagerAssumption DEF TypeOK
<1>2. c \in Nat /\ c = Len(blocks[s]) * BlockSize
  BY <1>1 DEF Capacity
<1>3. tokens[s] <= c /\ c < tokens[s] + BlockSize
  BY DEF Tight
<1>4. CASE w <= c
  <2>1. m = 0
    BY <1>4 DEF AdditionalBlocksFor
  <2>2. p = c
    BY <1>1, <1>2, <2>1
  <2>3. c < w + BlockSize
    BY <1>1, <1>2, <1>3
  <2> HIDE DEF m, c, w, p
  <2>4. m \in Nat /\ w <= p /\ p < w + BlockSize
    BY <1>4, <2>1, <2>2, <2>3
  <2> QED BY <2>4 DEF m, p, w
<1>5. CASE ~(w <= c)
  <2>1. m = ((w - c) + BlockSize - 1) \div BlockSize
    BY <1>5 DEF AdditionalBlocksFor
  <2>2. w - c \in Nat
    BY <1>1, <1>2, <1>5
  <2>3. m \in Nat /\ w - c <= m * BlockSize /\ m * BlockSize < (w - c) + BlockSize
    <3> HIDE DEF c, w, m
    <3> QED BY <1>1, <2>1, <2>2, RoundingUp
  <2> HIDE DEF m
  <2>4. p = c + m * BlockSize
    <3> DEFINE k == Len(blocks[s])
    <3>1. k \in Nat /\ BlockSize \in Nat /\ m \in Nat
      BY <1>1, <2>3
    <3>2. p = (k + m) * BlockSize /\ c = k * BlockSize
      BY <1>2
    <3> HIDE DEF k, c, p
    <3> QED BY <3>1, <3>2, Distribution
  <2> DEFINE x == m * BlockSize
  <2>6. x \in Nat /\ w \in Nat
    BY <1>1, <2>3
  <2> HIDE DEF c, w, p, x
  <2>7. w - c <= x /\ x < (w - c) + BlockSize /\ p = c + x
    BY <2>3, <2>4 DEF x
  <2>5. w <= p /\ p < w + BlockSize
    <3>1. c \in Nat /\ BlockSize \in Nat
      BY <1>1, <1>2
    <3>2. w <= p
      BY <2>6, <2>7, <3>1
    <3> QED BY <2>6, <2>7, <3>1, <3>2
  <2> QED BY <2>3, <2>5 DEF m, p, w
<1> QED BY <1>4, <1>5

-----------------------------------------------------------------------------
(* Counting blocks.                                                        *)

\* There are block_count blocks.
LEMMA BlocksSize == IsFiniteSet(Blocks) /\ Cardinality(Blocks) = TotalBlocks
BY ManagerAssumption, FS_Interval DEF Blocks

\* No block is twice in the free list, so its length counts the free blocks.
LEMMA FreeSize ==
    ASSUME TypeOK, BlocksPartitioned
    PROVE  IsFiniteSet(RangeOf(free)) /\ Cardinality(RangeOf(free)) = Len(free)
<1>1. Distinct(free) /\ free \in Seq(Blocks)
  BY DEF TypeOK, BlocksPartitioned, Distinct
<1> QED BY <1>1, RangeSize DEF RangeOf, Listed

\* No block is twice in a table, so its length counts the blocks it holds.
LEMMA TableSize ==
    ASSUME TypeOK, BlocksPartitioned, NEW s \in Seqs
    PROVE  /\ IsFiniteSet(RangeOf(blocks[s]))
           /\ Cardinality(RangeOf(blocks[s])) = Len(blocks[s])
<1>1. Distinct(blocks[s]) /\ blocks[s] \in Seq(Blocks)
  BY DEF TypeOK, BlocksPartitioned, Distinct
<1> QED BY <1>1, RangeSize DEF RangeOf, Listed

\* The blocks of every table but r's, as pairs of a table and an index.
ElsewhereHeld(r) ==
    {p \in (known \ {r}) \X (1..TotalBlocks) : p[2] <= Len(blocks[p[1]])}

\* reclaimable_blocks counts the blocks that are in the other tables: the pairs of a table
\* and a position in it are in bijection with the blocks there.
LEMMA ElsewhereSize ==
    ASSUME TypeOK, BlocksPartitioned, NEW r \in Seqs
    PROVE  LET image == {blocks[p[1]][p[2]] : p \in ElsewhereHeld(r)}
           IN  /\ image \subseteq Blocks
               /\ image \cap RangeOf(free) = {}
               /\ image \cap RangeOf(blocks[r]) = {}
               /\ ReclaimableBlocks(r) = Cardinality(image)
<1> DEFINE A == ElsewhereHeld(r)
           g == [p \in A |-> blocks[p[1]][p[2]]]
           image == {blocks[p[1]][p[2]] : p \in A}
<1>1. \A p \in A : /\ p[1] \in Seqs /\ p[1] # r /\ p[2] \in 1..Len(blocks[p[1]])
                   /\ p = <<p[1], p[2]>>
  BY DEF ElsewhereHeld, TypeOK
<1>2. \A p \in A : blocks[p[1]][p[2]] \in Blocks
  BY <1>1 DEF TypeOK
<1>3. \A p, t \in A : blocks[p[1]][p[2]] = blocks[t[1]][t[2]] => p = t
  BY <1>1 DEF BlocksPartitioned
<1>4. image \cap RangeOf(free) = {}
  <2> SUFFICES ASSUME NEW p \in A, blocks[p[1]][p[2]] \in RangeOf(free) PROVE FALSE
    OBVIOUS
  <2>1. blocks[p[1]][p[2]] \in RangeOf(blocks[p[1]])
    <3>1. PICK s \in Seqs, i \in Nat : s = p[1] /\ i = p[2] /\ i \in 1 .. Len(blocks[s])
      BY <1>1
    <3>2. blocks[s] \in Seq(Blocks)
      BY DEF TypeOK
    <3>3. blocks[s][i] \in RangeOf(blocks[s])
      BY <3>1, <3>2 DEF RangeOf
    <3> QED BY <3>1, <3>3
  <2> QED BY <1>1, <1>2, <2>1 DEF BlocksPartitioned
<1>5. image \cap RangeOf(blocks[r]) = {}
  <2> SUFFICES ASSUME NEW p \in A, NEW i \in 1 .. Len(blocks[r]),
                      blocks[p[1]][p[2]] = blocks[r][i]
               PROVE  FALSE
    <3>1. DOMAIN blocks[r] = 1 .. Len(blocks[r])
      BY DEF TypeOK
    <3> QED BY <3>1 DEF RangeOf
  <2> QED BY <1>1 DEF BlocksPartitioned
<1>6. g \in Bijection(A, image)
  <2> HIDE DEF A
  <2> QED BY <1>3 DEF Bijection, Injection, Surjection, IsInjective
<1>7. IsFiniteSet(image)
  BY <1>2, BlocksSize, FS_Subset
<1>8. ReclaimableBlocks(r) = Cardinality(image)
  <2>1. ExistsBijection(A, image)
    BY <1>6 DEF ExistsBijection
  <2>2. ExistsBijection(image, A)
    BY <2>1, Fun_ExistsBijSymmetric
  <2> HIDE DEF A, image
  <2>3. Cardinality(A) = Cardinality(image)
    BY <1>7, <2>2, FS_Bijection
  <2> QED BY <2>3 DEF A, ElsewhereHeld, ReclaimableBlocks
<1> QED BY <1>2, <1>4, <1>5, <1>8

\* reclaimable_blocks never counts more than there is.
LEMMA RoomBound ==
    ASSUME TypeOK, BlocksPartitioned, NEW r \in Seqs
    PROVE  /\ ReclaimableBlocks(r) \in Nat
           /\ Len(free) + ReclaimableBlocks(r) + Len(blocks[r]) <= TotalBlocks
<1> DEFINE image == {blocks[p[1]][p[2]] : p \in ElsewhereHeld(r)}
           F == RangeOf(free)
           R == RangeOf(blocks[r])
<1>1. /\ image \subseteq Blocks /\ image \cap F = {} /\ image \cap R = {}
      /\ ReclaimableBlocks(r) = Cardinality(image)
  BY ElsewhereSize
<1>2. F \subseteq Blocks /\ R \subseteq Blocks /\ F \cap R = {}
  <2>1. F \subseteq Blocks /\ R \subseteq Blocks
    BY DEF TypeOK, RangeOf
  <2> QED BY <2>1 DEF BlocksPartitioned
<1>3. IsFiniteSet(F) /\ Cardinality(F) = Len(free)
  BY FreeSize
<1>4. IsFiniteSet(R) /\ Cardinality(R) = Len(blocks[r])
  BY TableSize
<1> HIDE DEF image, F, R
<1>5. IsFiniteSet(image) /\ Cardinality(image) \in Nat
  BY <1>1, BlocksSize, FS_Subset, FS_CardinalityType
<1>6. IsFiniteSet(F \cup R) /\ Cardinality(F \cup R) = Cardinality(F) + Cardinality(R)
  BY <1>2, <1>3, <1>4, UnionSize
<1>7. image \cap (F \cup R) = {} /\ image \cup (F \cup R) \subseteq Blocks
  BY <1>1, <1>2
<1>8. Cardinality(image \cup (F \cup R)) = Cardinality(image) + Cardinality(F \cup R)
  BY <1>5, <1>6, <1>7, UnionSize
<1>9. Cardinality(image \cup (F \cup R)) <= TotalBlocks
  BY <1>7, BlocksSize, FS_Subset
<1>10. Cardinality(F) \in Nat /\ Cardinality(R) \in Nat
  BY <1>3, <1>4, FS_CardinalityType
<1> QED BY <1>1, <1>3, <1>4, <1>5, <1>6, <1>8, <1>9, <1>10

\* When nobody else holds a block, the rest of the cache is free.
LEMMA NobodyElseHolds ==
    ASSUME TypeOK, BlocksPartitioned, NEW r \in Seqs,
           \A s \in known : s # r => blocks[s] = <<>>
    PROVE  TotalBlocks <= Len(free) + Len(blocks[r])
<1> DEFINE F == RangeOf(free)
           R == RangeOf(blocks[r])
<1>1. Blocks \subseteq F \cup R
  <2> SUFFICES ASSUME NEW b \in Blocks, b \notin F PROVE b \in R
    OBVIOUS
  <2>1. PICK s \in known : b \in RangeOf(blocks[s])
    BY DEF BlocksPartitioned
  <2>2. blocks[s] # <<>>
    BY <2>1 DEF RangeOf
  <2> QED BY <2>1, <2>2
<1>2. IsFiniteSet(F) /\ Cardinality(F) = Len(free)
  BY FreeSize
<1>3. IsFiniteSet(R) /\ Cardinality(R) = Len(blocks[r])
  BY TableSize
<1> HIDE DEF F, R
<1>4. IsFiniteSet(F \cup R) /\ Cardinality(F \cup R) <= Cardinality(F) + Cardinality(R)
  BY <1>2, <1>3, UnionSize
<1>5. TotalBlocks <= Cardinality(F \cup R)
  BY <1>1, <1>4, BlocksSize, FS_Subset
<1>6. TotalBlocks \in Nat /\ Cardinality(F) \in Nat /\ Cardinality(R) \in Nat
      /\ Cardinality(F \cup R) \in Nat
  BY <1>2, <1>3, <1>4, FS_CardinalityType, ManagerAssumption
<1> QED BY <1>2, <1>3, <1>4, <1>5, <1>6

-----------------------------------------------------------------------------
(* choose_victim.                                                          *)

\* Whatever the policy, the scan of choose_victim has a maximum when a candidate exists.
LEMMA VictimExists ==
    ASSUME TypeOK, BlocksPartitioned, NEW r \in Seqs, Candidates(r) # {}
    PROVE  \E i \in Candidates(r) : \A j \in Candidates(r) :
              IF policy = "newest" THEN j <= i
              ELSE \/ Len(blocks[order[j]]) < Len(blocks[order[i]])
                   \/ Len(blocks[order[j]]) = Len(blocks[order[i]]) /\ i <= j
<1> DEFINE C == Candidates(r)
           L(i) == Len(blocks[order[i]])
<1>1. C \subseteq 1 .. Len(order) /\ Len(order) \in Nat
  <2>1. order \in Seq(Seqs)
    BY DEF TypeOK
  <2> QED BY <2>1, LenProperties DEF Candidates
<1>2. \A i \in C : order[i] \in Seqs
  BY <1>1 DEF TypeOK
<1>3. \A i \in C : L(i) \in Nat /\ L(i) <= TotalBlocks
  <2> SUFFICES ASSUME NEW i \in C PROVE L(i) \in Nat /\ L(i) <= TotalBlocks
    OBVIOUS
  <2>1. order[i] \in Seqs
    BY <1>2
  <2>2. Len(free) \in Nat /\ L(i) \in Nat /\ TotalBlocks \in Nat
    BY <2>1, ManagerAssumption DEF TypeOK
  <2>3. /\ ReclaimableBlocks(order[i]) \in Nat
        /\ Len(free) + ReclaimableBlocks(order[i]) + L(i) <= TotalBlocks
    BY <2>1, RoomBound
  <2> HIDE DEF L
  <2> QED BY <2>2, <2>3
<1>4. CASE policy = "newest"
  <2> HIDE DEF C
  <2>1. \E i \in C : \A j \in C : j <= i
    BY <1>1, GreatestNat DEF C
  <2> QED BY <1>4, <2>1 DEF C
<1>5. CASE policy # "newest"
  <2> DEFINE T == {L(i) : i \in C}
  <2>1. T \subseteq Nat /\ T # {} /\ \A t \in T : t <= TotalBlocks
    BY <1>3
  <2> HIDE DEF T
  <2>2. PICK x \in T : \A y \in T : y <= x
    BY <2>1, GreatestNat, ManagerAssumption
  <2> DEFINE D == {i \in C : L(i) = x}
  <2>3. D \subseteq Nat /\ D # {}
    BY <1>1, <2>2 DEF T
  <2> HIDE DEF D
  <2>4. PICK i \in D : \A j \in D : i <= j
    BY <2>3, LeastNat
  <2>5. \A j \in C : L(j) < L(i) \/ (L(j) = L(i) /\ i <= j)
    BY <1>3, <2>2, <2>4 DEF D, T
  <2>6. i \in C
    BY <2>4 DEF D
  <2> HIDE DEF C
  <2> QED BY <1>5, <2>5, <2>6 DEF C
<1> QED BY <1>4, <1>5

\* The victim is a known sequence other than the requester.
LEMMA VictimHoldsBlocks ==
    ASSUME TypeOK, BlocksPartitioned, NEW r \in Seqs, Candidates(r) # {}
    PROVE  LET v == ChooseVictim(r)
           IN  v \in Seqs /\ v # r /\ blocks[v] # <<>>
<1> DEFINE Best(i) == \A j \in Candidates(r) :
              IF policy = "newest" THEN j <= i
              ELSE \/ Len(blocks[order[j]]) < Len(blocks[order[i]])
                   \/ Len(blocks[order[j]]) = Len(blocks[order[i]]) /\ i <= j
           c == CHOOSE i \in Candidates(r) : Best(i)
<1>1. \E i \in Candidates(r) : Best(i)
  BY VictimExists
<1>2. c \in Candidates(r)
  <2> HIDE DEF Best
  <2> QED BY <1>1
<1>3. ChooseVictim(r) = order[c]
  BY DEF ChooseVictim
<1> HIDE DEF c
<1>4. order[c] \in Seqs /\ order[c] # r /\ blocks[order[c]] # <<>>
  BY <1>2 DEF Candidates, TypeOK
<1> QED BY <1>3, <1>4

-----------------------------------------------------------------------------
(* Giving a table's blocks back.                                           *)

\* allocator_.release() of a whole table, then the reset of the table: the blocks go back
\* once each, none is released twice, and the partition is kept.
LEMMA GivingBack ==
    ASSUME TypeOK, BlocksPartitioned, NEW s \in Seqs,
           ReleaseBlocks(s), ResetTable(s), known \ {s} \subseteq known'
    PROVE  /\ free' \in Seq(Blocks) /\ Len(free') = Len(free) + Len(blocks[s])
           /\ refs' \in [Blocks -> Nat]
           /\ fault' = fault
           /\ BlocksPartitioned'
<1> DEFINE q == blocks[s]
<1>1. q \in Seq(Blocks) /\ free \in Seq(Blocks) /\ DOMAIN q = 1 .. Len(q)
  BY DEF TypeOK
<1>2. RangeOf(q) \subseteq Blocks
  BY <1>1 DEF RangeOf
<1>3. \A b \in RangeOf(q) : refs[b] = 1 /\ b \notin RangeOf(free)
  BY <1>2 DEF BlocksPartitioned
<1>4. Keep(q, {b \in Blocks : refs[b] = 1}) = q
  <2>1. \A n \in 1 .. Len(q) : q[n] \in {b \in Blocks : refs[b] = 1}
    BY <1>1, <1>2, <1>3 DEF RangeOf
  <2> QED BY <1>1, <2>1, KeepAll
<1>5. free' = free \o q
  BY <1>4 DEF ReleaseBlocks
<1>6. refs' = [b \in Blocks |-> IF b \in RangeOf(q) THEN 0 ELSE refs[b]]
  <2>1. \A b \in Blocks : b \in RangeOf(q) => refs[b] - 1 = 0
    BY <1>3
  <2> QED BY <2>1 DEF ReleaseBlocks
<1>7. fault' = fault
  <2>1. ~(\E b \in RangeOf(q) : refs[b] = 0)
    BY <1>3
  <2> QED BY <2>1 DEF ReleaseBlocks
<1>8. /\ free' \in Seq(Blocks) /\ Len(free') = Len(free) + Len(q)
      /\ \A i \in 1 .. Len(free) : free'[i] = free[i]
      /\ \A i \in 1 .. Len(q) : free'[Len(free) + i] = q[i]
      /\ Len(free) \in Nat /\ Len(q) \in Nat
  BY <1>1, <1>5
<1>9. \A i \in 1 .. Len(free') :
         \/ i \in 1 .. Len(free) /\ free'[i] = free[i]
         \/ i - Len(free) \in 1 .. Len(q) /\ free'[i] = q[i - Len(free)]
  <2> SUFFICES ASSUME NEW i \in 1 .. Len(free'), i \notin 1 .. Len(free)
               PROVE  i - Len(free) \in 1 .. Len(q) /\ free'[i] = q[i - Len(free)]
    BY <1>8
  <2>1. i - Len(free) \in 1 .. Len(q) /\ Len(free) + (i - Len(free)) = i
    BY <1>8
  <2> QED BY <1>8, <2>1
<1>10. RangeOf(free') = RangeOf(free) \cup RangeOf(q)
  <2>1. DOMAIN free' = 1 .. Len(free') /\ DOMAIN free = 1 .. Len(free)
    BY <1>1, <1>8
  <2>2. ASSUME NEW b \in RangeOf(free') PROVE b \in RangeOf(free) \cup RangeOf(q)
    BY <1>1, <1>9, <2>1 DEF RangeOf
  <2>3. ASSUME NEW b \in RangeOf(free) PROVE b \in RangeOf(free')
    BY <1>8, <2>1 DEF RangeOf
  <2>4. ASSUME NEW b \in RangeOf(q) PROVE b \in RangeOf(free')
    <3>1. PICK i \in 1 .. Len(q) : b = q[i]
      BY <1>1 DEF RangeOf
    <3>2. Len(free) + i \in DOMAIN free' /\ free'[Len(free) + i] = b
      BY <1>8, <2>1, <3>1
    <3> QED BY <3>2 DEF RangeOf
  <2> QED BY <2>2, <2>3, <2>4
<1>11. \A u \in Seqs : blocks'[u] = IF u = s THEN <<>> ELSE blocks[u]
  BY DEF ResetTable, TypeOK
<1>12. \A i, j \in 1 .. Len(free') : free'[i] = free'[j] => i = j
  <2> SUFFICES ASSUME NEW i \in 1 .. Len(free'), NEW j \in 1 .. Len(free'), free'[i] = free'[j]
               PROVE  i = j
    OBVIOUS
  <2>1. \A m \in 1 .. Len(free), n \in 1 .. Len(q) : free[m] # q[n]
    <3>1. \A m \in 1 .. Len(free) : free[m] \in RangeOf(free)
      BY <1>1 DEF RangeOf
    <3>2. \A n \in 1 .. Len(q) : q[n] \in RangeOf(q)
      BY <1>1 DEF RangeOf
    <3> QED BY <1>3, <3>1, <3>2
  <2>2. CASE i \in 1 .. Len(free) /\ j \in 1 .. Len(free)
    BY <1>8, <2>2 DEF BlocksPartitioned
  <2>3. CASE i \notin 1 .. Len(free) /\ j \notin 1 .. Len(free)
    <3>1. q[i - Len(free)] = q[j - Len(free)] /\ i - Len(free) \in 1 .. Len(q)
          /\ j - Len(free) \in 1 .. Len(q)
      BY <1>9, <2>3
    <3>2. i - Len(free) = j - Len(free)
      <4>1. \A m, n \in 1 .. Len(q) : q[m] = q[n] => m = n
        BY DEF BlocksPartitioned
      <4> QED BY <3>1, <4>1
    <3> QED BY <1>8, <3>2
  <2>4. CASE i \in 1 .. Len(free) /\ j \notin 1 .. Len(free)
    BY <1>8, <1>9, <2>1, <2>4
  <2>5. CASE i \notin 1 .. Len(free) /\ j \in 1 .. Len(free)
    BY <1>8, <1>9, <2>1, <2>5
  <2> QED BY <2>2, <2>3, <2>4, <2>5
<1>13. \A t, u \in Seqs : \A i \in 1..Len(blocks'[t]), j \in 1..Len(blocks'[u]) :
          blocks'[t][i] = blocks'[u][j] => t = u /\ i = j
  BY <1>11 DEF BlocksPartitioned
<1>14. \A b \in Blocks :
          IF b \in RangeOf(free')
            THEN refs'[b] = 0 /\ \A u \in Seqs : b \notin RangeOf(blocks'[u])
            ELSE refs'[b] = 1 /\ \E u \in known' : b \in RangeOf(blocks'[u])
  <2> SUFFICES ASSUME NEW b \in Blocks
               PROVE  IF b \in RangeOf(free')
                        THEN refs'[b] = 0 /\ \A u \in Seqs : b \notin RangeOf(blocks'[u])
                        ELSE refs'[b] = 1 /\ \E u \in known' : b \in RangeOf(blocks'[u])
    OBVIOUS
  <2>0. RangeOf(<<>>) = {} /\ known \in SUBSET Seqs
    BY DEF RangeOf, TypeOK
  <2>1. CASE b \in RangeOf(free)
    BY <1>3, <1>6, <1>10, <1>11, <2>0, <2>1 DEF BlocksPartitioned
  <2>2. CASE b \in RangeOf(q)
    <3>1. \A u \in Seqs : b \in RangeOf(blocks[u]) => u = s
      <4> SUFFICES ASSUME NEW u \in Seqs, b \in RangeOf(blocks[u]) PROVE u = s
        OBVIOUS
      <4>1. DOMAIN blocks[u] = 1 .. Len(blocks[u])
        BY DEF TypeOK
      <4>2. PICK i \in 1 .. Len(blocks[u]) : blocks[u][i] = b
        BY <4>1 DEF RangeOf
      <4>3. PICK j \in 1 .. Len(q) : q[j] = b
        BY <1>1, <2>2 DEF RangeOf
      <4> QED BY <4>2, <4>3 DEF BlocksPartitioned
    <3> QED BY <1>6, <1>10, <1>11, <2>0, <2>2, <3>1
  <2>3. CASE b \notin RangeOf(free) /\ b \notin RangeOf(q)
    <3>1. PICK u \in known : b \in RangeOf(blocks[u])
      BY <2>3 DEF BlocksPartitioned
    <3>2. u # s /\ u \in known' /\ u \in Seqs
      BY <2>0, <2>3, <3>1
    <3> QED BY <1>6, <1>10, <1>11, <2>3, <3>1, <3>2 DEF BlocksPartitioned
  <2> QED BY <2>1, <2>2, <2>3
<1>15. BlocksPartitioned'
  BY <1>12, <1>13, <1>14 DEF BlocksPartitioned
<1>16. refs' \in [Blocks -> Nat]
  BY <1>6 DEF TypeOK
<1> QED BY <1>7, <1>8, <1>15, <1>16

-----------------------------------------------------------------------------
(* Tight tables.                                                           *)

\* A table that is left alone stays tight.
LEMMA TightKept ==
    ASSUME NEW u \in Seqs, Tight(u), blocks'[u] = blocks[u], tokens'[u] = tokens[u]
    PROVE  Tight(u)'
BY DEF Tight, Capacity

\* A table that was reset is tight.
LEMMA TightReset ==
    ASSUME NEW u \in Seqs, blocks'[u] = <<>>, tokens'[u] = 0
    PROVE  Tight(u)'
<1>1. Capacity(u)' = 0
  BY ManagerAssumption DEF Capacity
<1> QED BY <1>1, ManagerAssumption DEF Tight

-----------------------------------------------------------------------------
(* The steps.                                                              *)

\* A new manager satisfies the inductive invariant.
LEMMA InitIInv == Init => IInv
<1> SUFFICES ASSUME Init PROVE IInv
  OBVIOUS
<1> USE ManagerAssumption
<1>1. free \in Seq(Blocks) /\ Len(free) = TotalBlocks /\ DOMAIN free = 1 .. TotalBlocks
      /\ \A i \in 1 .. TotalBlocks : free[i] = TotalBlocks - i
  BY DEF Init, Blocks
<1>2. TypeOK
  BY <1>1 DEF Init, TypeOK, Operations, Idle
<1>3. BlocksPartitioned
  <2>1. \A i, j \in 1 .. Len(free) : free[i] = free[j] => i = j
    BY <1>1
  <2>2. \A t \in Seqs : blocks[t] = <<>> /\ RangeOf(blocks[t]) = {}
    BY DEF Init, RangeOf
  <2>3. \A b \in Blocks : b \in RangeOf(free)
    <3> SUFFICES ASSUME NEW b \in Blocks PROVE b \in RangeOf(free)
      OBVIOUS
    <3>1. TotalBlocks - b \in DOMAIN free /\ free[TotalBlocks - b] = b
      BY <1>1 DEF Blocks
    <3> QED BY <3>1 DEF RangeOf
  <2> QED BY <2>1, <2>2, <2>3 DEF BlocksPartitioned, Init
<1>4. OrderListsTables
  BY DEF Init, OrderListsTables, Distinct, Has
<1>5. Reserving
  BY DEF Init, Reserving, Idle
<1>6. OthersTight
  <2> SUFFICES ASSUME NEW u \in Seqs PROVE Tight(u)
    BY DEF OthersTight
  <2>1. Capacity(u) = 0
    BY DEF Capacity, Init
  <2> QED BY <2>1 DEF Tight, Init
<1> QED BY <1>2, <1>3, <1>4, <1>5, <1>6 DEF IInv, NoFault, Init

\* reserve() up to its loops.
LEMMA Entering ==
    ASSUME IInv, Unlocked, NEW s \in Seqs, NEW n \in Nat \ {0}, Enter(s, n),
           s \in known', known \subseteq known', known' \in SUBSET Seqs,
           order' \in Seq(Seqs), OrderListsTables'
    PROVE  IInv'
<1> DEFINE m == AdditionalBlocksFor(s, n)
<1>1. /\ TypeOK /\ BlocksPartitioned /\ Reserving /\ OthersTight /\ NoFault
      /\ op.phase = "idle" /\ \A u \in Seqs : Tight(u)
  BY DEF IInv, Unlocked, OthersTight
<1>2. UNCHANGED <<policy, free, refs, blocks, tokens, fault>>
  BY DEF Enter, pool
<1>3. /\ m \in Nat
      /\ tokens[s] + n <= (Len(blocks[s]) + m) * BlockSize
      /\ (Len(blocks[s]) + m) * BlockSize < tokens[s] + n + BlockSize
  BY <1>1, NeededBlocks
<1>4. ReclaimableBlocks(s) \in Nat /\ Len(free) + ReclaimableBlocks(s) + Len(blocks[s]) <= TotalBlocks
  BY <1>1, RoomBound
<1> HIDE DEF m
<1>5. \/ op' = Idle
      \/ /\ op' = [phase |-> PhaseFor(s, m), seq |-> s, n |-> n, needed |-> m,
                   evicted |-> {}, before |-> View]
         /\ PhaseFor(s, m) # "refuse"
  BY DEF Enter, Finish, m
<1>6. \/ op' = Idle
      \/ /\ op' = [phase |-> PhaseFor(s, m), seq |-> s, n |-> n, needed |-> m,
                   evicted |-> {}, before |-> View]
         /\ \/ PhaseFor(s, m) = "allocate" /\ m <= Len(free)
            \/ /\ PhaseFor(s, m) = "evict" /\ Len(free) < m
               /\ m <= Len(free) + ReclaimableBlocks(s)
  <2>1. Len(free) \in Nat /\ TotalBlocks \in Nat
    BY <1>1, ManagerAssumption DEF TypeOK
  <2> QED BY <1>3, <1>4, <1>5, <2>1 DEF PhaseFor
<1>7. TypeOK'
  <2>1. op' \in Operations'
    BY <1>3, <1>6 DEF Operations, Idle
  <2> QED BY <1>1, <1>2, <2>1 DEF TypeOK
<1>8. BlocksPartitioned'
  <2>1. \A b : b \in known => b \in known'
    OBVIOUS
  <2> QED BY <1>1, <1>2, <2>1 DEF BlocksPartitioned
<1>9. Reserving'
  <2>1. CASE op' = Idle
    BY <2>1 DEF Reserving, Idle
  <2>2. CASE op'.phase = "allocate" /\ op'.seq = s /\ op'.n = n /\ op'.needed = m /\ m <= Len(free)
    BY <1>2, <1>3, <2>2 DEF Reserving
  <2>3. CASE /\ op'.phase = "evict" /\ op'.seq = s /\ op'.n = n /\ op'.needed = m
             /\ Len(free) < m /\ m <= Len(free) + ReclaimableBlocks(s)
    <3>1. Len(blocks[s]) + m <= TotalBlocks
      <4>1. Len(blocks[s]) \in Nat /\ Len(free) \in Nat /\ TotalBlocks \in Nat
        BY <1>1, ManagerAssumption DEF TypeOK
      <4> QED BY <1>3, <1>4, <2>3, <4>1
    <3> QED BY <1>2, <1>3, <2>3, <3>1 DEF Reserving
  <2> QED BY <1>6, <2>1, <2>2, <2>3
<1>10. OthersTight'
  BY <1>1, <1>2, TightKept DEF OthersTight
<1> QED BY <1>1, <1>2, <1>7, <1>8, <1>9, <1>10 DEF IInv, NoFault

\* admit of a new sequence creates a table at the end of the admission order.
LEMMA AdmitNewStep ==
    ASSUME IInv, NEW s \in Seqs, NEW n \in Demands, AdmitNew(s, n)
    PROVE  IInv'
<1>1. /\ Unlocked /\ n \in Nat \ {0} /\ Enter(s, n) /\ s \notin known
      /\ known' = known \cup {s} /\ order' = Append(order, s)
  BY ManagerAssumption DEF AdmitNew
<1>2. known \in SUBSET Seqs /\ order \in Seq(Seqs) /\ OrderListsTables
  BY DEF IInv, TypeOK
<1>3. order' \in Seq(Seqs) /\ Distinct(order')
  BY <1>1, <1>2, AppendProperties, DistinctAppend DEF OrderListsTables
<1>4. \A u \in Seqs : Has(order', u) <=> Has(order, u) \/ u = s
  BY <1>1, <1>2, HasAppend
<1>5. UNCHANGED <<blocks, tokens>>
  BY <1>1 DEF Enter
<1>6. OrderListsTables'
  BY <1>1, <1>2, <1>3, <1>4, <1>5 DEF OrderListsTables
<1> QED BY <1>1, <1>2, <1>3, <1>6, Entering

\* admit of a known sequence, and extend, keep tables and order.
LEMMA ReserveKnownStep ==
    ASSUME IInv, NEW s \in Seqs, NEW n \in Demands, ReserveKnown(s, n)
    PROVE  IInv'
<1>1. /\ Unlocked /\ n \in Nat \ {0} /\ Enter(s, n) /\ s \in known
      /\ UNCHANGED <<known, order, blocks, tokens>>
  BY ManagerAssumption DEF ReserveKnown, Enter
<1>2. known \in SUBSET Seqs /\ order \in Seq(Seqs) /\ OrderListsTables
  BY DEF IInv, TypeOK
<1>3. OrderListsTables'
  BY <1>1, <1>2 DEF OrderListsTables
<1> QED BY <1>1, <1>2, <1>3, Entering

\* A call that returns without touching pool or tables.
LEMMA NothingStep ==
    ASSUME IInv, Unlocked, op' = Idle, UNCHANGED <<policy, pool, tables, fault>>
    PROVE  IInv'
<1>1. /\ TypeOK /\ BlocksPartitioned /\ OrderListsTables /\ OthersTight /\ NoFault
      /\ op.phase = "idle"
  BY DEF IInv, Unlocked
<1>2. UNCHANGED <<policy, free, refs, known, blocks, tokens, order, fault>>
  BY DEF pool, tables
<1>3. TypeOK'
  BY <1>1, <1>2 DEF TypeOK, Operations, Idle
<1>4. BlocksPartitioned' /\ OrderListsTables' /\ NoFault'
  BY <1>1, <1>2 DEF BlocksPartitioned, OrderListsTables, NoFault
<1>5. Reserving'
  BY DEF Reserving, Idle
<1>6. OthersTight'
  BY <1>1, <1>2, TightKept DEF OthersTight
<1> QED BY <1>3, <1>4, <1>5, <1>6 DEF IInv

\* One table gives its blocks back between calls: preempt and release.
LEMMA GivingBackStep ==
    ASSUME IInv, Unlocked, NEW s \in Seqs, ReleaseBlocks(s), ResetTable(s), op' = Idle,
           policy' = policy, known \ {s} \subseteq known', known' \in SUBSET Seqs,
           order' \in Seq(Seqs), OrderListsTables'
    PROVE  IInv'
<1>1. /\ TypeOK /\ BlocksPartitioned /\ OthersTight /\ NoFault /\ op.phase = "idle"
  BY DEF IInv, Unlocked
<1>2. /\ free' \in Seq(Blocks) /\ refs' \in [Blocks -> Nat]
      /\ fault' = fault /\ BlocksPartitioned'
  BY <1>1, GivingBack
<1>3. /\ blocks' = [blocks EXCEPT ![s] = <<>>] /\ tokens' = [tokens EXCEPT ![s] = 0]
      /\ blocks \in [Seqs -> Seq(Blocks)] /\ tokens \in [Seqs -> Nat]
  BY <1>1 DEF ResetTable, TypeOK
<1>4. blocks' \in [Seqs -> Seq(Blocks)] /\ tokens' \in [Seqs -> Nat]
  BY <1>3
<1>5. TypeOK'
  BY <1>1, <1>2, <1>4 DEF TypeOK, Operations, Idle
<1>6. Reserving'
  BY DEF Reserving, Idle
<1>7. OthersTight'
  <2> SUFFICES ASSUME NEW u \in Seqs PROVE Tight(u)'
    BY DEF OthersTight
  <2>1. CASE u = s
    BY <1>3, <2>1, TightReset
  <2>2. CASE u # s
    BY <1>1, <1>3, <2>2, TightKept DEF OthersTight
  <2> QED BY <2>1, <2>2
<1> QED BY <1>1, <1>2, <1>5, <1>6, <1>7 DEF IInv, NoFault

\* preempt gives the blocks back and keeps the table.
LEMMA PreemptStep ==
    ASSUME IInv, NEW s \in Seqs, Preempt(s)
    PROVE  IInv'
<1>1. /\ Unlocked /\ ReleaseBlocks(s) /\ ResetTable(s) /\ op' = Idle
      /\ UNCHANGED <<policy, known, order>>
  BY DEF Preempt, Finish
<1>2. TypeOK /\ OrderListsTables
  BY DEF IInv
<1>3. OrderListsTables'
  BY <1>1, <1>2 DEF OrderListsTables, ResetTable, TypeOK
<1> QED BY <1>1, <1>2, <1>3, GivingBackStep DEF TypeOK

\* release removes the sequence from the tables and from the admission order.
LEMMA ReleaseStep ==
    ASSUME IInv, NEW s \in Seqs, Release(s)
    PROVE  IInv'
<1>1. /\ Unlocked /\ ReleaseBlocks(s) /\ ResetTable(s) /\ op' = Idle /\ policy' = policy
      /\ known' = known \ {s} /\ order' = Keep(order, Seqs \ {s})
  BY DEF Release, Finish
<1>2. TypeOK /\ OrderListsTables /\ known \in SUBSET Seqs /\ order \in Seq(Seqs)
  BY DEF IInv, TypeOK
<1>3. order' \in Seq(Seqs) /\ Distinct(order')
  BY <1>1, <1>2, KeepType, KeepDistinct DEF OrderListsTables
<1>4. \A u \in Seqs : Has(order', u) <=> u # s /\ Has(order, u)
  <2>1. \A u : Has(order', u) <=> u \in Seqs \ {s} /\ Has(order, u)
    BY <1>1, <1>2, KeepMembers
  <2> QED BY <2>1
<1>5. \A u \in Seqs : /\ u = s => blocks'[u] = <<>> /\ tokens'[u] = 0
                      /\ u # s => blocks'[u] = blocks[u] /\ tokens'[u] = tokens[u]
  BY <1>1, <1>2 DEF ResetTable, TypeOK
<1>6. OrderListsTables'
  BY <1>1, <1>2, <1>3, <1>4, <1>5 DEF OrderListsTables
<1> QED BY <1>1, <1>2, <1>3, <1>6, GivingBackStep

\* The eviction loop always finds a victim: otherwise the requester alone would hold blocks, and
\* its demand would be free.
LEMMA EvictHasVictim ==
    ASSUME IInv, op.phase = "evict"
    PROVE  Candidates(op.seq) # {}
<1> DEFINE r == op.seq
<1>1. TypeOK /\ BlocksPartitioned /\ OrderListsTables
  BY DEF IInv
<1>2. /\ r \in known /\ r \in Seqs /\ Len(blocks[r]) + op.needed <= TotalBlocks
      /\ Len(free) < op.needed
  BY <1>1 DEF IInv, Reserving, TypeOK
<1>3. /\ op.needed \in Nat /\ Len(free) \in Nat /\ Len(blocks[r]) \in Nat /\ TotalBlocks \in Nat
  BY <1>1, <1>2, ManagerAssumption DEF TypeOK, Operations
<1> SUFFICES ASSUME Candidates(r) = {} PROVE FALSE
  OBVIOUS
<1>4. \A s \in known : s # r => blocks[s] = <<>>
  <2> SUFFICES ASSUME NEW s \in known, s # r, blocks[s] # <<>> PROVE FALSE
    OBVIOUS
  <2>1. s \in Seqs /\ Has(order, s)
    BY <1>1 DEF OrderListsTables, TypeOK
  <2>2. PICK i \in 1 .. Len(order) : order[i] = s
    BY <2>1 DEF Has
  <2>3. i \in Candidates(r)
    BY <1>1, <2>2 DEF Candidates, TypeOK
  <2> QED BY <2>3
<1>5. TotalBlocks <= Len(free) + Len(blocks[r])
  BY <1>1, <1>2, <1>4, NobodyElseHolds
<1> QED BY <1>2, <1>3, <1>5

\* The scan finds a victim, and the eviction brings the reservation nearer.
LEMMA EvictOneStep ==
    ASSUME IInv, EvictOne
    PROVE  IInv'
<1> DEFINE r == op.seq
           v == ChooseVictim(r)
<1>1. /\ TypeOK /\ BlocksPartitioned /\ OrderListsTables /\ OthersTight /\ NoFault
      /\ op.phase = "evict" /\ UNCHANGED <<policy, known, order>>
  BY DEF IInv, EvictOne
<1>2. /\ r \in known /\ r \in Seqs /\ op.n > 0
      /\ tokens[r] + op.n <= (Len(blocks[r]) + op.needed) * BlockSize
      /\ (Len(blocks[r]) + op.needed) * BlockSize < tokens[r] + op.n + BlockSize
      /\ Len(blocks[r]) + op.needed <= TotalBlocks
      /\ Len(free) < op.needed
  BY <1>1 DEF IInv, Reserving, TypeOK
<1>3. /\ op.n \in Nat /\ op.needed \in Nat /\ Len(free) \in Nat /\ Len(blocks[r]) \in Nat
      /\ TotalBlocks \in Nat /\ op.evicted \in SUBSET Seqs
  BY <1>1, <1>2, ManagerAssumption DEF TypeOK, Operations
<1>4. Candidates(r) # {}
  BY <1>1, EvictHasVictim
<1>5. v \in Seqs /\ v # r
  BY <1>1, <1>2, <1>4, VictimHoldsBlocks
<1> HIDE DEF v
<1>6. /\ ReleaseBlocks(v) /\ ResetTable(v)
      /\ op' = [op EXCEPT !.evicted = @ \cup {v},
                          !.phase = IF Len(free') < op.needed THEN "evict" ELSE "allocate"]
  BY <1>4 DEF EvictOne, v
<1>7. /\ free' \in Seq(Blocks) /\ Len(free') = Len(free) + Len(blocks[v])
      /\ refs' \in [Blocks -> Nat] /\ fault' = fault /\ BlocksPartitioned'
  BY <1>1, <1>5, <1>6, GivingBack
<1>8. /\ op'.seq = r /\ op'.n = op.n /\ op'.needed = op.needed
      /\ op'.phase = IF Len(free') < op.needed THEN "evict" ELSE "allocate"
      /\ op' \in Operations'
  BY <1>1, <1>3, <1>5, <1>6 DEF TypeOK, Operations
<1>9. /\ blocks' = [blocks EXCEPT ![v] = <<>>] /\ tokens' = [tokens EXCEPT ![v] = 0]
      /\ blocks \in [Seqs -> Seq(Blocks)] /\ tokens \in [Seqs -> Nat]
  BY <1>1, <1>6 DEF ResetTable, TypeOK
<1>10. blocks' \in [Seqs -> Seq(Blocks)] /\ tokens' \in [Seqs -> Nat]
  BY <1>5, <1>9
<1>11. \A u \in Seqs : u = v => (blocks'[u] = <<>> /\ tokens'[u] = 0)
  BY <1>9
<1>12. \A u \in Seqs : u # v => (blocks'[u] = blocks[u] /\ tokens'[u] = tokens[u])
  BY <1>9
<1>13. TypeOK'
  BY <1>1, <1>7, <1>8, <1>10 DEF TypeOK
<1>14. OrderListsTables'
  BY <1>1, <1>11, <1>12 DEF OrderListsTables
<1>15. Reserving'
  <2>1. blocks'[r] = blocks[r] /\ tokens'[r] = tokens[r]
    BY <1>2, <1>5, <1>12
  <2>2. Len(free') \in Nat
    BY <1>7
  <2>3. CASE Len(free') < op.needed
    BY <1>1, <1>2, <1>8, <2>1, <2>3 DEF Reserving
  <2>4. CASE ~(Len(free') < op.needed)
    <3>1. op.needed <= Len(free')
      BY <1>3, <2>2, <2>4
    <3> QED BY <1>1, <1>2, <1>8, <2>1, <2>4, <3>1 DEF Reserving
  <2> QED BY <2>3, <2>4
<1>16. OthersTight'
  <2> SUFFICES ASSUME NEW u \in Seqs, op'.phase = "idle" \/ u # op'.seq PROVE Tight(u)'
    BY DEF OthersTight
  <2>1. u # r
    BY <1>8
  <2>2. CASE u = v
    BY <1>11, <2>2, TightReset
  <2>3. CASE u # v
    BY <1>1, <1>12, <2>1, <2>3, TightKept DEF OthersTight
  <2> QED BY <2>2, <2>3
<1> QED BY <1>1, <1>7, <1>13, <1>14, <1>15, <1>16 DEF IInv, NoFault

\* One block from the end of the free list to the end of the requester's table.
LEMMA MovingOneBlock ==
    ASSUME TypeOK, BlocksPartitioned, NEW r \in known, free # <<>>, UNCHANGED known,
           NEW b, b = free[Len(free)],
           free' = SubSeq(free, 1, Len(free) - 1),
           refs' = [refs EXCEPT ![b] = 1],
           blocks' = [blocks EXCEPT ![r] = Append(@, b)]
    PROVE  /\ free' \in Seq(Blocks) /\ Len(free') = Len(free) - 1
           /\ refs' \in [Blocks -> Nat]
           /\ blocks' \in [Seqs -> Seq(Blocks)]
           /\ Len(blocks'[r]) = Len(blocks[r]) + 1
           /\ \A u \in Seqs : u # r => blocks'[u] = blocks[u]
           /\ BlocksPartitioned'
<1>1. /\ free \in Seq(Blocks) /\ Len(free) \in Nat \ {0} /\ r \in Seqs
      /\ blocks[r] \in Seq(Blocks) /\ refs \in [Blocks -> Nat]
      /\ blocks \in [Seqs -> Seq(Blocks)]
  <2>1. free \in Seq(Blocks) /\ r \in Seqs /\ refs \in [Blocks -> Nat]
        /\ blocks \in [Seqs -> Seq(Blocks)]
    BY DEF TypeOK
  <2>2. Len(free) # 0
    BY <2>1, EmptySeq
  <2> QED BY <2>1, <2>2
<1>2. b \in Blocks /\ b \in RangeOf(free)
  BY <1>1 DEF RangeOf
<1>3. refs[b] = 0 /\ \A u \in Seqs : b \notin RangeOf(blocks[u])
  BY <1>2 DEF BlocksPartitioned
<1>4. /\ free' \in Seq(Blocks) /\ Len(free') = Len(free) - 1
      /\ \A i \in 1 .. (Len(free) - 1) : free'[i] = free[i]
  <2> DEFINE n == Len(free) - 1
  <2>1. n \in Nat /\ n \in 1 - 1 .. Len(free) /\ 1 \in 1 .. Len(free) + 1 /\ 1 + n - 1 = n
    BY <1>1
  <2> HIDE DEF n
  <2>2. \A i \in 1 .. n : free[i] \in Blocks
    <3>1. \A i \in 1 .. n : i \in 1 .. Len(free)
      BY <1>1 DEF n
    <3> QED BY <1>1, <3>1
  <2>3. free' = [i \in 1 .. n |-> free[i]]
    <3>1. free' = SubSeq(free, 1, n)
      BY DEF n
    <3>2. \A i \in 1 .. n : i + 1 - 1 = i
      BY <2>1
    <3>3. /\ SubSeq(free, 1, n) = [i \in 1 .. n |-> free[i]]
      BY <1>1, <2>1
    <3> QED BY <3>1, <3>3
  <2>4. free' \in [1 .. n -> Blocks] /\ \A i \in 1 .. n : free'[i] = free[i]
    BY <2>2, <2>3
  <2>5. free' \in Seq(Blocks) /\ Len(free') = n
    <3>1. free' \in Seq(Blocks)
      BY <2>1, <2>4, SeqDef
    <3>2. DOMAIN free' = 1 .. Len(free') /\ Len(free') \in Nat /\ DOMAIN free' = 1 .. n
      BY <2>4, <3>1, LenProperties
    <3> QED BY <2>1, <3>1, <3>2
  <2> QED BY <2>4, <2>5 DEF n
<1>5. blocks' \in [Seqs -> Seq(Blocks)]
  BY <1>1, <1>2
<1>6. /\ blocks'[r] = Append(blocks[r], b)
      /\ \A u \in Seqs : u # r => blocks'[u] = blocks[u]
  BY <1>1
<1>7. /\ Len(blocks'[r]) = Len(blocks[r]) + 1 /\ blocks'[r][Len(blocks[r]) + 1] = b
      /\ \A i \in 1 .. Len(blocks[r]) : blocks'[r][i] = blocks[r][i]
      /\ Len(blocks[r]) \in Nat
  BY <1>1, <1>2, <1>6, AppendProperties
<1>8. RangeOf(free') = RangeOf(free) \ {b}
  <2>1. DOMAIN free' = 1 .. (Len(free) - 1) /\ DOMAIN free = 1 .. Len(free)
    BY <1>1, <1>4
  <2>2. \A i \in 1 .. (Len(free) - 1) : free[i] # b
    <3>1. \A i \in 1 .. (Len(free) - 1) :
             i \in 1 .. Len(free) /\ Len(free) \in 1 .. Len(free) /\ i # Len(free)
      BY <1>1
    <3> QED BY <3>1 DEF BlocksPartitioned
  <2>3. \A i \in 1 .. Len(free) : i = Len(free) \/ i \in 1 .. (Len(free) - 1)
    BY <1>1
  <2>4. ASSUME NEW c \in RangeOf(free') PROVE c \in RangeOf(free) \ {b}
    <3>1. PICK i \in 1 .. (Len(free) - 1) : c = free[i]
      BY <1>4, <2>1 DEF RangeOf
    <3>2. i \in DOMAIN free
      BY <1>1, <2>1
    <3> QED BY <2>2, <3>1, <3>2 DEF RangeOf
  <2>5. ASSUME NEW c \in RangeOf(free) \ {b} PROVE c \in RangeOf(free')
    <3>1. PICK i \in 1 .. Len(free) : c = free[i]
      BY <2>1 DEF RangeOf
    <3>2. i \in 1 .. (Len(free) - 1)
      BY <2>3, <3>1
    <3> QED BY <1>4, <2>1, <3>1, <3>2 DEF RangeOf
  <2> QED BY <2>4, <2>5
<1>9. RangeOf(blocks'[r]) = RangeOf(blocks[r]) \cup {b}
  <2>1. DOMAIN blocks'[r] = 1 .. (Len(blocks[r]) + 1) /\ DOMAIN blocks[r] = 1 .. Len(blocks[r])
    BY <1>1, <1>5, <1>7
  <2>2. ASSUME NEW c \in RangeOf(blocks'[r]) PROVE c \in RangeOf(blocks[r]) \cup {b}
    <3>1. PICK i \in 1 .. (Len(blocks[r]) + 1) : c = blocks'[r][i]
      BY <2>1 DEF RangeOf
    <3>2. CASE i = Len(blocks[r]) + 1
      BY <1>7, <3>1, <3>2
    <3>3. CASE i \in 1 .. Len(blocks[r])
      BY <1>7, <2>1, <3>1, <3>3 DEF RangeOf
    <3> QED BY <1>7, <3>2, <3>3
  <2>3. b \in RangeOf(blocks'[r])
    <3>1. Len(blocks[r]) + 1 \in DOMAIN blocks'[r] /\ blocks'[r][Len(blocks[r]) + 1] = b
      BY <1>7, <2>1
    <3> QED BY <3>1 DEF RangeOf
  <2>4. ASSUME NEW c \in RangeOf(blocks[r]) PROVE c \in RangeOf(blocks'[r])
    <3>1. PICK i \in 1 .. Len(blocks[r]) : c = blocks[r][i]
      BY <2>1 DEF RangeOf
    <3>2. i \in DOMAIN blocks'[r] /\ blocks'[r][i] = c
      BY <1>7, <2>1, <3>1
    <3> QED BY <3>2 DEF RangeOf
  <2> QED BY <2>2, <2>3, <2>4
<1>10. \A i, j \in 1 .. Len(free') : free'[i] = free'[j] => i = j
  <2>1. \A i \in 1 .. Len(free') : i \in 1 .. Len(free) /\ free'[i] = free[i]
    BY <1>1, <1>4
  <2> QED BY <2>1 DEF BlocksPartitioned
<1>11. \A t, u \in Seqs : \A i \in 1..Len(blocks'[t]), j \in 1..Len(blocks'[u]) :
          blocks'[t][i] = blocks'[u][j] => t = u /\ i = j
  <2> SUFFICES ASSUME NEW t \in Seqs, NEW u \in Seqs,
                      NEW i \in 1..Len(blocks'[t]), NEW j \in 1..Len(blocks'[u]),
                      blocks'[t][i] = blocks'[u][j]
               PROVE  t = u /\ i = j
    OBVIOUS
  <2>1. \A x \in Seqs : \A k \in 1 .. Len(blocks'[x]) :
           \/ k \in 1 .. Len(blocks[x]) /\ blocks'[x][k] = blocks[x][k]
           \/ x = r /\ k = Len(blocks[r]) + 1 /\ blocks'[x][k] = b
    BY <1>6, <1>7
  <2>2. \A x \in Seqs : \A k \in 1 .. Len(blocks[x]) : blocks[x][k] # b
    <3> SUFFICES ASSUME NEW x \in Seqs, NEW k \in 1 .. Len(blocks[x]), blocks[x][k] = b
                 PROVE  FALSE
      OBVIOUS
    <3>1. k \in DOMAIN blocks[x]
      BY <1>1
    <3> QED BY <1>3, <3>1 DEF RangeOf
  <2>3. CASE blocks'[t][i] = b
    BY <2>1, <2>2, <2>3
  <2>4. CASE blocks'[t][i] # b
    BY <2>1, <2>4 DEF BlocksPartitioned
  <2> QED BY <2>3, <2>4
<1>12. \A c \in Blocks :
          IF c \in RangeOf(free')
            THEN refs'[c] = 0 /\ \A u \in Seqs : c \notin RangeOf(blocks'[u])
            ELSE refs'[c] = 1 /\ \E u \in known' : c \in RangeOf(blocks'[u])
  <2> SUFFICES ASSUME NEW c \in Blocks
               PROVE  IF c \in RangeOf(free')
                        THEN refs'[c] = 0 /\ \A u \in Seqs : c \notin RangeOf(blocks'[u])
                        ELSE refs'[c] = 1 /\ \E u \in known' : c \in RangeOf(blocks'[u])
    OBVIOUS
  <2>1. refs'[c] = IF c = b THEN 1 ELSE refs[c]
    BY <1>1
  <2>2. \A u \in Seqs : c \in RangeOf(blocks'[u]) <=> c \in RangeOf(blocks[u]) \/ (u = r /\ c = b)
    BY <1>6, <1>9
  <2>3. CASE c = b
    BY <1>1, <1>8, <2>1, <2>2, <2>3
  <2>4. CASE c # b
    <3>1. known \in SUBSET Seqs
      BY DEF TypeOK
    <3> QED BY <1>8, <2>1, <2>2, <2>4, <3>1 DEF BlocksPartitioned
  <2> QED BY <2>3, <2>4
<1>13. BlocksPartitioned'
  BY <1>10, <1>11, <1>12 DEF BlocksPartitioned
<1>14. refs' \in [Blocks -> Nat]
  BY <1>1
<1> QED BY <1>4, <1>5, <1>6, <1>7, <1>13, <1>14

\* The free list covers what the reservation still needs, so allocate() succeeds.
LEMMA AllocateOneStep ==
    ASSUME IInv, AllocateOne
    PROVE  IInv'
<1> DEFINE r == op.seq
           b == free[Len(free)]
<1>1. /\ TypeOK /\ BlocksPartitioned /\ OrderListsTables /\ OthersTight /\ NoFault
      /\ op.phase = "allocate" /\ op.needed > 0 /\ UNCHANGED <<policy, known, tokens, order>>
  BY DEF IInv, AllocateOne
<1>2. /\ r \in known /\ r \in Seqs /\ op.n > 0
      /\ tokens[r] + op.n <= (Len(blocks[r]) + op.needed) * BlockSize
      /\ (Len(blocks[r]) + op.needed) * BlockSize < tokens[r] + op.n + BlockSize
      /\ op.needed <= Len(free)
  BY <1>1 DEF IInv, Reserving, TypeOK
<1>3. /\ op.n \in Nat /\ op.needed \in Nat /\ Len(free) \in Nat /\ Len(blocks[r]) \in Nat
      /\ op.evicted \in SUBSET Seqs
  BY <1>1, <1>2 DEF TypeOK, Operations
<1>4. free # <<>>
  BY <1>1, <1>2, <1>3
<1>5. /\ free' = SubSeq(free, 1, Len(free) - 1)
      /\ refs' = [refs EXCEPT ![b] = 1]
      /\ blocks' = [blocks EXCEPT ![r] = Append(@, b)]
      /\ op' = [op EXCEPT !.needed = @ - 1]
      /\ UNCHANGED fault
  BY <1>4 DEF AllocateOne
<1>6. /\ free' \in Seq(Blocks) /\ Len(free') = Len(free) - 1
      /\ refs' \in [Blocks -> Nat] /\ blocks' \in [Seqs -> Seq(Blocks)]
      /\ Len(blocks'[r]) = Len(blocks[r]) + 1
      /\ \A u \in Seqs : u # r => blocks'[u] = blocks[u]
      /\ BlocksPartitioned'
  <2> HIDE DEF b, r
  <2>1. b = free[Len(free)]
    BY DEF b
  <2> QED BY <1>1, <1>2, <1>4, <1>5, <2>1, MovingOneBlock
<1>7. /\ op'.seq = r /\ op'.n = op.n /\ op'.needed = op.needed - 1 /\ op'.phase = "allocate"
      /\ op' \in Operations'
  <2>1. op \in Operations /\ op.needed - 1 \in Nat
    BY <1>1, <1>3 DEF TypeOK
  <2>2. op'.seq = r /\ op'.n = op.n /\ op'.needed = op.needed - 1 /\ op'.phase = "allocate"
    BY <1>1, <1>5, <2>1 DEF Operations
  <2>3. op' \in Operations'
    BY <1>5, <2>1 DEF Operations
  <2> QED BY <2>2, <2>3
<1>8. TypeOK'
  BY <1>1, <1>6, <1>7 DEF TypeOK
<1>9. OrderListsTables'
  BY <1>1, <1>2, <1>6 DEF OrderListsTables
<1>10. Reserving'
  <2>1. Len(blocks'[r]) + op'.needed = Len(blocks[r]) + op.needed
    <3>1. \A x, y \in Nat : (x + 1) + (y - 1) = x + y
      OBVIOUS
    <3>2. op'.needed = op.needed - 1 /\ Len(blocks'[r]) = Len(blocks[r]) + 1
      BY <1>6, <1>7
    <3> QED BY <1>3, <3>1, <3>2, Zenon
  <2>2. op'.needed <= Len(free')
    BY <1>2, <1>3, <1>6, <1>7
  <2> QED BY <1>1, <1>2, <1>7, <2>1, <2>2 DEF Reserving
<1>11. OthersTight'
  BY <1>1, <1>6, <1>7, TightKept DEF OthersTight
<1> QED BY <1>1, <1>5, <1>6, <1>8, <1>9, <1>10, <1>11 DEF IInv, NoFault

\* The table has the blocks its tokens need, so add_tokens does not overrun.
LEMMA AddTokensStep ==
    ASSUME IInv, AddTokens
    PROVE  IInv'
<1> DEFINE r == op.seq
<1>1. /\ TypeOK /\ BlocksPartitioned /\ OrderListsTables /\ OthersTight /\ NoFault
      /\ op.phase = "allocate" /\ op.needed = 0 /\ op' = Idle
      /\ UNCHANGED <<policy, free, refs, known, blocks, order>>
  BY DEF IInv, AddTokens, Finish, pool
<1>2. /\ r \in known /\ r \in Seqs /\ op.n > 0
      /\ tokens[r] + op.n <= (Len(blocks[r]) + 0) * BlockSize
      /\ (Len(blocks[r]) + 0) * BlockSize < tokens[r] + op.n + BlockSize
  BY <1>1 DEF IInv, Reserving, TypeOK
<1>3. op.n \in Nat /\ Len(blocks[r]) \in Nat /\ tokens[r] \in Nat
  BY <1>1, <1>2 DEF TypeOK, Operations
<1>4. tokens[r] + op.n <= Capacity(r) /\ Capacity(r) < (tokens[r] + op.n) + BlockSize
  <2>1. Len(blocks[r]) + 0 = Len(blocks[r])
    BY <1>3
  <2> QED BY <1>2, <2>1 DEF Capacity
<1>5. Capacity(r) \in Nat
  BY <1>3, ManagerAssumption DEF Capacity
<1>6. tokens' = [tokens EXCEPT ![r] = @ + op.n] /\ UNCHANGED fault
  <2>1. ~(tokens[r] + op.n > Capacity(r))
    BY <1>3, <1>4, <1>5
  <2> QED BY <2>1 DEF AddTokens
<1>7. /\ tokens' \in [Seqs -> Nat] /\ tokens'[r] = tokens[r] + op.n
      /\ \A u \in Seqs : u # r => tokens'[u] = tokens[u]
  BY <1>1, <1>2, <1>3, <1>6 DEF TypeOK
<1>8. TypeOK'
  BY <1>1, <1>7 DEF TypeOK, Operations, Idle
<1>9. BlocksPartitioned'
  BY <1>1 DEF BlocksPartitioned
<1>10. OrderListsTables'
  BY <1>1, <1>2, <1>7 DEF OrderListsTables
<1>11. Reserving'
  BY <1>1 DEF Reserving, Idle
<1>12. OthersTight'
  <2> SUFFICES ASSUME NEW u \in Seqs PROVE Tight(u)'
    BY DEF OthersTight
  <2>1. CASE u = r
    <3>1. Capacity(u)' = Capacity(u)
      BY <1>1 DEF Capacity
    <3>2. tokens'[u] = tokens[u] + op.n /\ Capacity(u) = Capacity(r) /\ tokens[u] = tokens[r]
      BY <1>7, <2>1
    <3> QED BY <1>4, <3>1, <3>2 DEF Tight
  <2>2. CASE u # r
    BY <1>1, <1>7, <2>2, TightKept DEF OthersTight
  <2> QED BY <2>1, <2>2
<1> QED BY <1>1, <1>6, <1>8, <1>9, <1>10, <1>11, <1>12 DEF IInv, NoFault

\* Every step keeps the inductive invariant.
LEMMA NextIInv == IInv /\ [Next]_vars => IInv'
<1> SUFFICES ASSUME IInv, [Next]_vars PROVE IInv'
  OBVIOUS
<1>1. ASSUME NEW s \in Seqs, NEW n \in Demands, AdmitNew(s, n) PROVE IInv'
  BY <1>1, AdmitNewStep
<1>2. ASSUME NEW s \in Seqs, NEW n \in Demands, ReserveKnown(s, n) PROVE IInv'
  BY <1>2, ReserveKnownStep
<1>3. ASSUME NEW s \in Seqs, NEW n \in Demands, ExtendUnknown(s, n) PROVE IInv'
  BY <1>3, NothingStep DEF ExtendUnknown, Finish
<1>4. ASSUME NEW s \in Seqs, ReserveNothing(s) PROVE IInv'
  BY <1>4, NothingStep DEF ReserveNothing, Finish
<1>5. ASSUME NEW s \in Seqs, Preempt(s) PROVE IInv'
  BY <1>5, PreemptStep
<1>6. ASSUME NEW s \in Seqs, Release(s) PROVE IInv'
  BY <1>6, ReleaseStep
<1>7. CASE EvictOne
  BY <1>7, EvictOneStep
<1>8. CASE AllocateOne
  BY <1>8, AllocateOneStep
<1>9. CASE AddTokens
  BY <1>9, AddTokensStep
<1>10. CASE UNCHANGED vars
  <2>1. UNCHANGED <<policy, free, refs, known, blocks, tokens, order, op, fault>>
    BY <1>10 DEF vars, pool, tables
  <2> QED BY <2>1 DEF IInv, TypeOK, Operations, BlocksPartitioned, OrderListsTables, Reserving,
                      OthersTight, Tight, Capacity, NoFault
<1> QED BY <1>1, <1>2, <1>3, <1>4, <1>5, <1>6, <1>7, <1>8, <1>9, <1>10 DEF Next

-----------------------------------------------------------------------------
(* The theorems.                                                           *)

\* Every reachable state, inside the loops of reserve() too, satisfies the inductive
\* invariant.
THEOREM Invariance == Spec => []IInv
BY InitIInv, NextIInv, PTL DEF Spec

\* Each block is at every step once in the free list with count zero or once in one table
\* with count one: no leak, no sharing, no double release in allocator_.release().
THEOREM PartitionTheorem == Spec => []BlocksPartitioned
<1>1. IInv => BlocksPartitioned
  BY DEF IInv
<1> QED BY <1>1, Invariance, PTL

\* "no victim", "allocation failed", "overrun" and "double release" are never met: reserve()
\* that passed its feasibility test completes.
THEOREM NoFaultTheorem == Spec => []NoFault
<1>1. IInv => NoFault
  BY DEF IInv
<1> QED BY <1>1, Invariance, PTL

\* Between calls every table covers its tokens and wastes less than one block.
THEOREM SlackTheorem == Spec => []SlackBounded
<1>1. IInv => SlackBounded
  BY DEF IInv, OthersTight, Tight, SlackBounded
<1> QED BY <1>1, Invariance, PTL

-----------------------------------------------------------------------------
(* Refinement: the invariant that ties a reservation to the cache it began *)
(* on.                                                                     *)

\* The caches of KVCacheOps: what a caller observes of the manager.
Caches ==
    [policy : {"newest", "largest"}, known : SUBSET Seqs, tokens : [Seqs -> Nat],
     held : [Seqs -> Nat], order : Seq(Seqs), free : Nat]

\* The cache once the requester has a table.
Registered(c, s) ==
    IF s \in c.known THEN c ELSE [c EXCEPT !.known = @ \cup {s}, !.order = Append(@, s)]

\* The candidates that any number of turns of the eviction loop can have taken.
Prefixes(c, r) ==
    {V \in SUBSET Atomic!Candidates(c, r) :
       \A v \in V, u \in Atomic!Candidates(c, r) : Atomic!ChosenBefore(c, u, v) => u \in V}

\* Evicting V frees m blocks.
Enough(c, V, m) == c.free + Atomic!BlocksOf(c, V) >= m

\* A reservation in progress, begun on cache c with a demand of m blocks, has evicted the first of
\* the policy's choices, none that a smaller number of them would have spared, and has taken
\* m - op.needed blocks.
Follows(c, m) ==
    /\ c \in Caches /\ c.policy = policy /\ c.known = known /\ c.order = order
    /\ m \in Nat /\ m <= TotalBlocks /\ op.needed <= m
    /\ op.phase = "evict" => op.needed = m
    /\ op.evicted \in Prefixes(c, op.seq)
    /\ \A V \in Prefixes(c, op.seq) : Enough(c, V, m) => op.evicted \subseteq V
    /\ Len(free) + (m - op.needed) = c.free + Atomic!BlocksOf(c, op.evicted)
    /\ \A s \in Seqs :
         /\ tokens[s] = IF s \in op.evicted THEN 0 ELSE c.tokens[s]
         /\ Len(blocks[s]) = IF s \in op.evicted THEN 0
                             ELSE IF s = op.seq THEN c.held[s] + (m - op.needed) ELSE c.held[s]

Progress ==
    op.phase # "idle" =>
        /\ op.n \in Demands
        /\ LET c == Registered(op.before, op.seq)
           IN  Follows(c, Atomic!AdditionalBlocksFor(c, op.seq, op.n))

-----------------------------------------------------------------------------
(* Blocks held by sets of sequences.                                       *)

\* BlocksOf of KVCache is the library's sum.
LEMMA HeldSum ==
    ASSUME NEW c, NEW S
    PROVE  Atomic!BlocksOf(c, S) = SumFunctionOnSet(c.held, S)
BY DEF Atomic!BlocksOf, Atomic!SumFunctionOnSet, Atomic!FoldFunctionOnSet, Atomic!MapThenFoldSet,
       SumFunctionOnSet, FoldFunctionOnSet, MapThenFoldSet

\* What a set holds is a number, and no more than a larger set holds.
LEMMA HeldByMore ==
    ASSUME NEW c \in Caches, NEW S \in SUBSET Seqs, NEW V \in SUBSET S
    PROVE  /\ Atomic!BlocksOf(c, S) \in Nat /\ Atomic!BlocksOf(c, V) \in Nat
           /\ Atomic!BlocksOf(c, V) <= Atomic!BlocksOf(c, S)
<1>1. IsFiniteSet(S) /\ Natural(c.held, S)
  BY ManagerAssumption, FS_Subset DEF Caches, Natural
<1>2. PICK m, n, k : /\ m = SumFunctionOnSet(c.held, S) /\ n = SumFunctionOnSet(c.held, V)
                     /\ k = SumFunctionOnSet(c.held, S \ V)
  OBVIOUS
<1>3. m = n + k /\ n \in Nat /\ k \in Nat
  BY <1>1, <1>2, SumSubset
<1>4. m \in Nat /\ n <= m
  BY <1>3
<1> QED BY <1>2, <1>3, <1>4, HeldSum

\* One more sequence.
LEMMA HeldByOneMore ==
    ASSUME NEW c \in Caches, NEW V \in SUBSET Seqs, NEW v \in Seqs, v \notin V
    PROVE  Atomic!BlocksOf(c, V \cup {v}) = Atomic!BlocksOf(c, V) + c.held[v]
<1>1. IsFiniteSet(V) /\ Natural(c.held, V \cup {v})
  BY ManagerAssumption, FS_Subset DEF Caches, Natural
<1>2. SumFunctionOnSet(c.held, V \cup {v}) = SumFunctionOnSet(c.held, V) + c.held[v]
  BY <1>1, SumInsert
<1> QED BY <1>2, HeldSum

\* Nobody holds nothing.
LEMMA HeldByNobody ==
    ASSUME NEW c
    PROVE  Atomic!BlocksOf(c, {}) = 0
BY HeldSum, SumEmpty

\* One sequence holds its blocks.
LEMMA HeldByOne ==
    ASSUME NEW c \in Caches, NEW v \in Seqs
    PROVE  Atomic!BlocksOf(c, {v}) = c.held[v]
<1>1. Atomic!BlocksOf(c, {} \cup {v}) = Atomic!BlocksOf(c, {}) + c.held[v]
  BY HeldByOneMore
<1>2. c.held[v] \in Nat
  BY DEF Caches
<1> QED BY <1>1, <1>2, HeldByNobody

\* The pairs of a table and a position in it are as many as the blocks of the tables.
LEMMA PairsCount ==
    ASSUME NEW h \in [Seqs -> 0 .. TotalBlocks], NEW S \in SUBSET Seqs
    PROVE  Cardinality({p \in S \X (1 .. TotalBlocks) : p[2] <= h[p[1]]}) = SumFunctionOnSet(h, S)
<1> DEFINE Pairs(T) == {p \in T \X (1 .. TotalBlocks) : p[2] <= h[p[1]]}
           P == {T \in SUBSET S : IsFiniteSet(Pairs(T)) /\ Cardinality(Pairs(T)) = SumFunctionOnSet(h, T)}
<1>0. IsFiniteSet(S) /\ Natural(h, S) /\ TotalBlocks \in Nat
  BY ManagerAssumption, FS_Subset DEF Natural
<1>1. \A T \in SUBSET S : (\A U \in SUBSET T : U # T => U \in P) => T \in P
  <2> SUFFICES ASSUME NEW T \in SUBSET S, \A U \in SUBSET T : U # T => U \in P
               PROVE  T \in P
    OBVIOUS
  <2>1. CASE T = {}
    <3>1. Pairs(T) = {}
      BY <2>1
    <3> QED BY <2>1, <3>1, FS_EmptySet, SumEmpty
  <2>2. CASE T # {}
    <3>1. PICK x \in T : TRUE
      BY <2>2
    <3>2. PICK U : U = T \ {x}
      OBVIOUS
    <3>3. U \in P /\ U \subseteq S /\ x \notin U /\ T = U \cup {x} /\ x \in Seqs
      BY <3>1, <3>2
    <3>4. PICK n : n = h[x]
      OBVIOUS
    <3>5. n \in 0 .. TotalBlocks
      BY <3>3, <3>4
    <3> DEFINE f == [i \in 1 .. n |-> <<x, i>>]
               one == {<<x, i>> : i \in 1 .. n}
    <3>6. f \in Bijection(1 .. n, one)
      BY DEF Bijection, Injection, Surjection, IsInjective
    <3>7. IsFiniteSet(1 .. n) /\ Cardinality(1 .. n) = n
      <4>1. n \in Nat /\ 1 \in Int /\ n \in Int
        BY <1>0, <3>5
      <4>2. /\ IsFiniteSet(1 .. n)
            /\ Cardinality(1 .. n) = IF 1 > n THEN 0 ELSE n - 1 + 1
        BY <4>1, FS_Interval
      <4> QED BY <4>1, <4>2
    <3>8. IsFiniteSet(one) /\ Cardinality(one) = n
      <4> HIDE DEF f, one
      <4>1. ExistsBijection(1 .. n, one)
        BY <3>6 DEF ExistsBijection
      <4> QED BY <3>7, <4>1, FS_Bijection
    <3>9. Pairs(T) = Pairs(U) \cup one /\ Pairs(U) \cap one = {}
      <4>1. ASSUME NEW p \in Pairs(T) PROVE p \in Pairs(U) \cup one
        <5>1. p[1] \in T /\ p[2] \in 1 .. TotalBlocks /\ p = <<p[1], p[2]>> /\ p[2] <= h[p[1]]
          OBVIOUS
        <5>2. CASE p[1] = x
          <6>1. p[2] \in 1 .. n
            BY <1>0, <3>4, <3>5, <5>1, <5>2
          <6> QED BY <5>1, <5>2, <6>1
        <5>3. CASE p[1] # x
          BY <3>3, <5>1, <5>3
        <5> QED BY <5>2, <5>3
      <4>2. ASSUME NEW p \in one PROVE p \in Pairs(T) /\ p \notin Pairs(U)
        <5>1. PICK i \in 1 .. n : p = <<x, i>>
          OBVIOUS
        <5>2. i \in 1 .. TotalBlocks /\ i <= h[x]
          BY <1>0, <3>4, <3>5
        <5> QED BY <3>3, <5>1, <5>2
      <4>3. Pairs(U) \subseteq Pairs(T)
        BY <3>3
      <4> QED BY <4>1, <4>2, <4>3
    <3> HIDE DEF one
    <3>10. IsFiniteSet(Pairs(U)) /\ Cardinality(Pairs(U)) = SumFunctionOnSet(h, U)
      BY <3>3
    <3> HIDE DEF Pairs
    <3>11. IsFiniteSet(Pairs(T)) /\ Cardinality(Pairs(T)) = Cardinality(Pairs(U)) + n
      <4>1. IsFiniteSet(Pairs(U) \cap one) /\ Cardinality(Pairs(U) \cap one) = 0
        BY <3>9, FS_EmptySet
      <4>2. /\ IsFiniteSet(Pairs(U) \cup one)
            /\ Cardinality(Pairs(U) \cup one)
                 = Cardinality(Pairs(U)) + Cardinality(one) - Cardinality(Pairs(U) \cap one)
        BY <3>8, <3>10, FS_Union
      <4>3. Cardinality(Pairs(U)) \in Nat /\ n \in Nat
        BY <3>5, <3>10, FS_CardinalityType
      <4> QED BY <3>8, <3>9, <4>1, <4>2, <4>3
    <3>12. SumFunctionOnSet(h, U \cup {x}) = SumFunctionOnSet(h, U) + h[x]
      <4>1. IsFiniteSet(U) /\ Natural(h, U \cup {x})
        BY <1>0, <3>3, FS_Subset DEF Natural
      <4> QED BY <3>3, <4>1, SumInsert
    <3> QED BY <3>3, <3>4, <3>10, <3>11, <3>12
  <2> QED BY <2>1, <2>2
<1> HIDE DEF P
<1>2. \A T \in SUBSET S : T \in P
  BY <1>0, <1>1, InductionOnSubsets
<1> QED BY <1>2 DEF P

-----------------------------------------------------------------------------
(* The manager's tests and choices are those of KVCache.                   *)

\* What is observed of the manager is a cache.
LEMMA ViewIsCache ==
    ASSUME TypeOK
    PROVE  View \in Caches
<1>1. \A s \in Seqs : Len(blocks[s]) \in Nat
  BY DEF TypeOK
<1>2. Len(free) \in Nat
  BY DEF TypeOK
<1> QED BY <1>1, <1>2 DEF TypeOK, View, Caches

\* With or without a new table for s it is a cache, with the same tokens and blocks.
LEMMA RegisteredCache ==
    ASSUME NEW c \in Caches, NEW s \in Seqs
    PROVE  /\ Registered(c, s) \in Caches /\ Registered(c, s).policy = c.policy
           /\ Registered(c, s).tokens = c.tokens /\ Registered(c, s).held = c.held
           /\ Registered(c, s).free = c.free /\ Registered(c, s).known = c.known \cup {s}
           /\ Registered(c, s).order = IF s \in c.known THEN c.order ELSE Append(c.order, s)
<1>1. PICK d : d = Registered(c, s)
  OBVIOUS
<1>2. CASE s \in c.known
  BY <1>2 DEF Registered, Caches
<1>3. CASE s \notin c.known
  <2>1. d = [c EXCEPT !.known = c.known \cup {s}, !.order = Append(c.order, s)]
    BY <1>1, <1>3 DEF Registered
  <2>2. /\ d.policy = c.policy /\ d.tokens = c.tokens /\ d.held = c.held /\ d.free = c.free
        /\ d.known = c.known \cup {s} /\ d.order = Append(c.order, s)
        /\ d = [policy |-> d.policy, known |-> d.known, tokens |-> d.tokens, held |-> d.held,
                order |-> d.order, free |-> d.free]
    BY <2>1 DEF Caches
  <2>3. Append(c.order, s) \in Seq(Seqs) /\ c.known \cup {s} \in SUBSET Seqs
    BY DEF Caches
  <2>4. d \in Caches
    BY <2>2, <2>3 DEF Caches
  <2> QED BY <1>1, <1>3, <2>2, <2>4
<1> QED BY <1>2, <1>3

\* A cache shows the manager's tables as they are.
Shows(c) ==
    /\ c \in Caches /\ c.policy = policy /\ c.free = Len(free)
    /\ \A s \in Seqs : c.tokens[s] = tokens[s] /\ c.held[s] = Len(blocks[s])

\* additional_blocks_for asks for what _additional_blocks_for does.
LEMMA SameDemand ==
    ASSUME NEW c, Shows(c), NEW s \in Seqs, NEW n
    PROVE  Atomic!AdditionalBlocksFor(c, s, n) = AdditionalBlocksFor(s, n)
BY DEF Shows, Atomic!AdditionalBlocksFor, Atomic!CeilDiv, AdditionalBlocksFor, Capacity

\* The sum over the tables is what the others hold.
LEMMA SameReclaimable ==
    ASSUME TypeOK, BlocksPartitioned, NEW c, Shows(c), NEW r \in Seqs, c.known \ {r} = known \ {r}
    PROVE  Atomic!ReclaimableBlocks(c, r) = ReclaimableBlocks(r)
<1>1. PICK h, S : h = c.held /\ S = known \ {r}
  OBVIOUS
<1>2. \A s \in Seqs : h[s] = Len(blocks[s]) /\ h[s] \in 0 .. TotalBlocks
  <2> SUFFICES ASSUME NEW s \in Seqs PROVE h[s] = Len(blocks[s]) /\ h[s] \in 0 .. TotalBlocks
    OBVIOUS
  <2>1. PICK f, k, b : f = Len(free) /\ k = ReclaimableBlocks(s) /\ b = Len(blocks[s])
    OBVIOUS
  <2>2. f \in Nat /\ b \in Nat /\ TotalBlocks \in Nat
    BY <2>1, ManagerAssumption DEF TypeOK
  <2>3. k \in Nat /\ f + k + b <= TotalBlocks
    BY <2>1, RoomBound
  <2>4. b \in 0 .. TotalBlocks
    BY <2>2, <2>3
  <2> QED BY <1>1, <2>1, <2>4 DEF Shows
<1>3. h \in [Seqs -> 0 .. TotalBlocks]
  BY <1>1, <1>2 DEF Shows, Caches
<1>4. S \in SUBSET Seqs
  BY <1>1 DEF TypeOK
<1>5. Cardinality({p \in S \X (1 .. TotalBlocks) : p[2] <= h[p[1]]}) = SumFunctionOnSet(h, S)
  BY <1>3, <1>4, PairsCount
<1>6. {p \in S \X (1 .. TotalBlocks) : p[2] <= h[p[1]]}
        = {p \in S \X (1 .. TotalBlocks) : p[2] <= Len(blocks[p[1]])}
  BY <1>2, <1>4
<1>7. ReclaimableBlocks(r) = SumFunctionOnSet(h, S)
  BY <1>1, <1>5, <1>6 DEF ReclaimableBlocks
<1>8. Atomic!ReclaimableBlocks(c, r) = SumFunctionOnSet(h, S)
  BY <1>1, HeldSum DEF Atomic!ReclaimableBlocks
<1> QED BY <1>7, <1>8

\* v is the candidate the policy chooses next when those in V are gone.
NextChoice(c, r, V, v) ==
    /\ v \in Atomic!Candidates(c, r) \ V
    /\ \A u \in Atomic!Candidates(c, r) \ V : u # v =>
         Atomic!ChosenBefore(c, v, u) /\ ~Atomic!ChosenBefore(c, u, v)

\* choose_victim makes the policy's next choice.
LEMMA VictimIsNext ==
    ASSUME TypeOK, BlocksPartitioned, OrderListsTables, NEW c, NEW m, Follows(c, m),
           NEW r \in Seqs, r = op.seq, Candidates(r) # {}
    PROVE  NextChoice(c, r, op.evicted, ChooseVictim(r))
<1> DEFINE Best(i) == \A j \in Candidates(r) :
              IF policy = "newest" THEN j <= i
              ELSE \/ Len(blocks[order[j]]) < Len(blocks[order[i]])
                   \/ Len(blocks[order[j]]) = Len(blocks[order[i]]) /\ i <= j
           chosen == CHOOSE i \in Candidates(r) : Best(i)
<1>1. \E i \in Candidates(r) : Best(i)
  BY VictimExists
<1>2. chosen \in Candidates(r) /\ Best(chosen)
  <2> HIDE DEF Best
  <2> QED BY <1>1
<1>3. PICK i \in Candidates(r) : Best(i) /\ ChooseVictim(r) = order[i]
  BY <1>2 DEF ChooseVictim
<1>4. PICK E, v : E = op.evicted /\ v = order[i]
  OBVIOUS
<1>5. /\ c \in Caches /\ c.policy = policy /\ c.known = known /\ c.order = order
      /\ E \subseteq Atomic!Candidates(c, r)
  BY <1>4 DEF Follows, Prefixes
<1>6. order \in Seq(Seqs) /\ Candidates(r) \subseteq 1 .. Len(order) /\ DOMAIN order = 1 .. Len(order)
  <2>1. order \in Seq(Seqs)
    BY DEF TypeOK
  <2> QED BY <2>1, LenProperties DEF Candidates
<1>7. \A j \in 1 .. Len(order) : Atomic!Position(c, order[j]) = j
  BY <1>5, <1>6 DEF OrderListsTables, Distinct, Atomic!Position
<1>8. \A j \in Candidates(r) : /\ order[j] \in Atomic!Candidates(c, r) \ E
                               /\ Len(blocks[order[j]]) = c.held[order[j]]
  <2> SUFFICES ASSUME NEW j \in Candidates(r)
               PROVE  /\ order[j] \in Atomic!Candidates(c, r) \ E
                      /\ Len(blocks[order[j]]) = c.held[order[j]]
    OBVIOUS
  <2>1. PICK u : u = order[j]
    OBVIOUS
  <2>2. u \in Seqs /\ u # r /\ blocks[u] # <<>> /\ u \in known
    BY <1>6, <2>1 DEF Candidates, OrderListsTables, Has
  <2>3. blocks[u] \in Seq(Blocks)
    BY <2>2 DEF TypeOK
  <2>4. Len(blocks[u]) \in Nat /\ Len(blocks[u]) # 0
    BY <2>2, <2>3, EmptySeq
  <2>5. u \notin E
    BY <1>4, <2>2, <2>4 DEF Follows
  <2>6. Len(blocks[u]) = c.held[u]
    BY <1>4, <2>2, <2>5 DEF Follows
  <2>7. c.held[u] > 0
    BY <2>4, <2>6
  <2> QED BY <1>5, <2>1, <2>2, <2>5, <2>6, <2>7 DEF Atomic!Candidates
<1>9. ASSUME NEW u \in Atomic!Candidates(c, r) \ E, u # v
      PROVE  Atomic!ChosenBefore(c, v, u) /\ ~Atomic!ChosenBefore(c, u, v)
  <2>1. u \in known /\ u # r /\ c.held[u] > 0 /\ u \in Seqs
    BY <1>5 DEF Atomic!Candidates, Caches
  <2>2. PICK j \in 1 .. Len(order) : order[j] = u
    BY <2>1 DEF OrderListsTables, Has
  <2>3. Len(blocks[u]) = c.held[u]
    BY <1>4, <2>1 DEF Follows
  <2>4. blocks[u] # <<>>
    <3>1. Len(<<>>) = 0
      OBVIOUS
    <3> QED BY <2>1, <2>3, <3>1
  <2>5. j \in Candidates(r)
    BY <1>6, <2>1, <2>2, <2>4 DEF Candidates
  <2>6. PICK a, b : a = c.held[v] /\ b = c.held[u]
    OBVIOUS
  <2>7. v \in Seqs /\ a \in Nat /\ b \in Nat
    BY <1>4, <1>5, <1>6, <2>1, <2>6 DEF Caches
  <2>8. i \in Int /\ j \in Int /\ i # j
    BY <1>4, <1>6, <1>9, <2>2
  <2>9. Atomic!Position(c, v) = i /\ Atomic!Position(c, u) = j
    BY <1>4, <1>6, <1>7, <2>2
  <2>10. IF policy = "newest" THEN j <= i ELSE b < a \/ (b = a /\ i <= j)
    BY <1>3, <1>4, <1>8, <2>2, <2>5, <2>6
  <2> QED BY <1>5, <2>6, <2>7, <2>8, <2>9, <2>10 DEF Atomic!ChosenBefore
<1> QED BY <1>3, <1>4, <1>8, <1>9 DEF NextChoice

\* The next choice extends the candidates that were taken.
LEMMA PrefixGrows ==
    ASSUME NEW c, NEW r, NEW V \in Prefixes(c, r), NEW v, NextChoice(c, r, V, v)
    PROVE  V \cup {v} \in Prefixes(c, r)
<1>1. V \cup {v} \in SUBSET Atomic!Candidates(c, r)
  BY DEF Prefixes, NextChoice
<1>2. ASSUME NEW w \in V \cup {v}, NEW u \in Atomic!Candidates(c, r), Atomic!ChosenBefore(c, u, w)
      PROVE  u \in V \cup {v}
  BY <1>2 DEF Prefixes, NextChoice
<1> QED BY <1>1, <1>2 DEF Prefixes

\* While what was taken is not enough the next choice is in every set that is.
LEMMA ShortestGrows ==
    ASSUME NEW c, NEW r, NEW V \in Prefixes(c, r), NEW v, NextChoice(c, r, V, v), NEW m,
           ~Enough(c, V, m), \A W \in Prefixes(c, r) : Enough(c, W, m) => V \subseteq W
    PROVE  \A W \in Prefixes(c, r) : Enough(c, W, m) => V \cup {v} \subseteq W
<1> SUFFICES ASSUME NEW W \in Prefixes(c, r), Enough(c, W, m) PROVE v \in W
  OBVIOUS
<1>1. V \subseteq W /\ W # V
  OBVIOUS
<1>2. PICK u \in W : u \notin V
  BY <1>1
<1>3. u \in Atomic!Candidates(c, r) \ V /\ v \in Atomic!Candidates(c, r)
  BY <1>2 DEF Prefixes, NextChoice
<1> QED BY <1>2, <1>3 DEF Prefixes, NextChoice

\* The shortest sufficient set is the one KVCache evicts.
LEMMA ShortestIsVictims ==
    ASSUME NEW c, NEW r, NEW V \in Prefixes(c, r), NEW m, Enough(c, V, m),
           \A W \in Prefixes(c, r) : Enough(c, W, m) => V \subseteq W
    PROVE  Atomic!Victims(c, r, m) = V
<1> DEFINE enough == {W \in Prefixes(c, r) : Enough(c, W, m)}
<1>1. Atomic!Victims(c, r, m) = CHOOSE W \in enough : \A X \in enough : W \subseteq X
  BY DEF Atomic!Victims, Prefixes, Enough
<1>2. V \in enough /\ \A X \in enough : V \subseteq X
  OBVIOUS
<1> HIDE DEF enough
<1>3. \A W \in enough : (\A X \in enough : W \subseteq X) => W = V
  BY <1>2
<1> QED BY <1>1, <1>2, <1>3

-----------------------------------------------------------------------------
(* The invariant of a reservation is kept.                                 *)

\* Nobody has been evicted at first.
LEMMA NobodyEvicted ==
    ASSUME NEW c, NEW r
    PROVE  {} \in Prefixes(c, r)
BY DEF Prefixes

\* A call that enters the loops starts from the cache it found.
LEMMA EnterProgress ==
    ASSUME IInv, Unlocked, NEW s \in Seqs, NEW n \in Demands, Enter(s, n),
           known' = known \cup {s}, order' = IF s \in known THEN order ELSE Append(order, s)
    PROVE  Progress'
<1> SUFFICES ASSUME op'.phase # "idle" PROVE Progress'
  BY DEF Progress
<1>1. PICK m, c : m = AdditionalBlocksFor(s, n) /\ c = Registered(View, s)
  OBVIOUS
<1>2. TypeOK /\ n \in Nat \ {0} /\ Tight(s)
  BY ManagerAssumption DEF IInv, OthersTight, Unlocked
<1>3. m \in Nat
  BY <1>1, <1>2, NeededBlocks
<1>4. /\ op' = [phase |-> PhaseFor(s, m), seq |-> s, n |-> n, needed |-> m, evicted |-> {},
                before |-> View]
      /\ PhaseFor(s, m) # "refuse"
      /\ UNCHANGED <<policy, free, blocks, tokens>>
  BY <1>1 DEF Enter, Finish, Idle, pool
<1>5. m <= TotalBlocks
  BY <1>3, <1>4, ManagerAssumption DEF PhaseFor
<1>6. View \in Caches
  BY <1>2, ViewIsCache
<1>7. /\ c \in Caches /\ c.policy = policy /\ c.tokens = tokens /\ c.free = Len(free)
      /\ c.held = [u \in Seqs |-> Len(blocks[u])] /\ c.known = known \cup {s}
      /\ c.order = IF s \in known THEN order ELSE Append(order, s)
  BY <1>1, <1>6, RegisteredCache DEF View
<1>8. \A u \in Seqs : c.tokens[u] = tokens[u] /\ c.held[u] = Len(blocks[u])
  BY <1>7
<1>9. Shows(c)
  BY <1>7, <1>8 DEF Shows
<1>10. Atomic!AdditionalBlocksFor(c, s, n) = m
  BY <1>1, <1>9, SameDemand
<1>11. /\ op'.seq = s /\ op'.n = n /\ op'.needed = m /\ op'.evicted = {} /\ op'.before = View
  BY <1>4
<1>12. Follows(c, m)'
  <2>1. /\ c.policy = policy' /\ c.known = known' /\ c.order = order'
    BY <1>4, <1>7
  <2>2. {} \in Prefixes(c, s)
    BY NobodyEvicted
  <2>3. Len(free') + (m - m) = c.free + Atomic!BlocksOf(c, {})
    <3>1. PICK f : f = Len(free)
      OBVIOUS
    <3>2. f \in Nat
      BY <1>2, <3>1 DEF TypeOK
    <3>3. f + (m - m) = f + 0
      BY <1>3, <3>2
    <3> QED BY <1>4, <1>7, <3>1, <3>3, HeldByNobody
  <2>4. ASSUME NEW u \in Seqs
        PROVE  /\ tokens'[u] = c.tokens[u]
               /\ Len(blocks'[u]) = IF u = s THEN c.held[u] + (m - m) ELSE c.held[u]
    <3>1. c.held[u] \in Nat
      BY <1>7 DEF Caches
    <3>2. c.held[u] + (m - m) = c.held[u]
      BY <1>3, <3>1
    <3> QED BY <1>4, <1>8, <3>2
  <2> QED BY <1>3, <1>5, <1>7, <1>11, <2>1, <2>2, <2>3, <2>4 DEF Follows
<1>13. Registered(op'.before, op'.seq) = c
  BY <1>1, <1>11
<1> QED BY <1>10, <1>11, <1>12, <1>13 DEF Progress

\* A turn of the eviction loop takes the policy's next choice.
LEMMA EvictProgress ==
    ASSUME IInv, Progress, EvictOne
    PROVE  Progress'
<1>1. PICK r, c, m, E, v : /\ r = op.seq /\ c = Registered(op.before, op.seq) /\ E = op.evicted
                           /\ m = Atomic!AdditionalBlocksFor(c, r, op.n) /\ v = ChooseVictim(op.seq)
  OBVIOUS
<1>2. op.phase = "evict" /\ TypeOK /\ BlocksPartitioned /\ OrderListsTables
  BY DEF IInv, EvictOne
<1>3. op.n \in Demands /\ Follows(c, m)
  BY <1>1, <1>2 DEF Progress
<1>4. r \in Seqs /\ Len(free) < op.needed /\ op.needed = m /\ m \in Nat /\ op \in Operations
  BY <1>1, <1>2, <1>3 DEF IInv, Reserving, TypeOK, Follows
<1>5. Candidates(r) # {}
  BY <1>1, <1>2, EvictHasVictim
<1>6. NextChoice(c, r, E, v)
  BY <1>1, <1>2, <1>3, <1>4, <1>5, VictimIsNext
<1>7. E \in Prefixes(c, r) /\ \A V \in Prefixes(c, r) : Enough(c, V, m) => E \subseteq V
  BY <1>1, <1>3 DEF Follows
<1>8. /\ v \in Seqs /\ v # r /\ v \notin E /\ E \subseteq Seqs /\ c \in Caches
  BY <1>3, <1>6, <1>7 DEF NextChoice, Prefixes, Atomic!Candidates, Follows, Caches
<1>9. /\ ReleaseBlocks(v) /\ ResetTable(v) /\ UNCHANGED <<policy, known, order>>
      /\ op' = [op EXCEPT !.evicted = @ \cup {v},
                          !.phase = IF Len(free') < op.needed THEN "evict" ELSE "allocate"]
  BY <1>1, <1>5 DEF EvictOne
<1>10. Len(free') = Len(free) + Len(blocks[v])
  BY <1>2, <1>8, <1>9, GivingBack
<1>11. /\ op'.seq = r /\ op'.n = op.n /\ op'.needed = m /\ op'.evicted = E \cup {v}
       /\ op'.before = op.before /\ op'.phase # "idle"
  BY <1>1, <1>4, <1>9 DEF Operations
<1>12. PICK f, b, h : f = Len(free) /\ b = Atomic!BlocksOf(c, E) /\ h = c.held[v]
  OBVIOUS
<1>13. f \in Nat /\ b \in Nat /\ h \in Nat /\ c.free \in Nat /\ f < m
  <2>1. E \in SUBSET Seqs /\ E \in SUBSET E
    BY <1>8
  <2>2. Atomic!BlocksOf(c, E) \in Nat
    BY <1>8, <2>1, HeldByMore
  <2>3. c.held \in [Seqs -> Nat] /\ c.free \in Nat
    BY <1>8 DEF Caches
  <2>4. f \in Nat
    BY <1>2, <1>12 DEF TypeOK
  <2> QED BY <1>4, <1>8, <1>12, <2>2, <2>3, <2>4
<1>14. f + (m - m) = c.free + b
  BY <1>1, <1>3, <1>4, <1>12 DEF Follows
<1>15. ~Enough(c, E, m)
  <2>1. c.free + b < m
    BY <1>4, <1>13, <1>14
  <2> QED BY <1>4, <1>12, <1>13, <2>1 DEF Enough
<1>16. Len(blocks[v]) = h
  BY <1>1, <1>3, <1>8, <1>12 DEF Follows
<1>17. Follows(c, m)'
  <2>1. c \in Caches /\ c.policy = policy' /\ c.known = known' /\ c.order = order'
    BY <1>3, <1>9 DEF Follows
  <2>2. m \in Nat /\ m <= TotalBlocks /\ op'.needed <= m
    BY <1>3, <1>4, <1>11 DEF Follows
  <2>3. op'.evicted \in Prefixes(c, op'.seq)
    BY <1>6, <1>7, <1>11, PrefixGrows
  <2>4. \A V \in Prefixes(c, r) : Enough(c, V, m) => E \cup {v} \subseteq V
    BY <1>6, <1>7, <1>15, ShortestGrows
  <2>5. Len(free') + (m - op'.needed) = c.free + Atomic!BlocksOf(c, op'.evicted)
    <3>1. Atomic!BlocksOf(c, E \cup {v}) = b + h
      BY <1>8, <1>12, HeldByOneMore
    <3>2. Len(free') = f + h
      BY <1>10, <1>12, <1>16
    <3>3. (f + h) + (m - m) = c.free + (b + h)
      <4>1. PICK d : d = c.free
        OBVIOUS
      <4>2. d \in Nat /\ f + (m - m) = d + b
        BY <1>13, <1>14, <4>1
      <4>3. (f + h) + (m - m) = d + (b + h)
        BY <1>4, <1>13, <4>2
      <4> QED BY <4>1, <4>3
    <3> QED BY <1>11, <3>1, <3>2, <3>3
  <2>6. ASSUME NEW s \in Seqs
        PROVE  /\ tokens'[s] = IF s \in E \cup {v} THEN 0 ELSE c.tokens[s]
               /\ Len(blocks'[s]) = IF s \in E \cup {v} THEN 0
                                    ELSE IF s = r THEN c.held[s] + (m - m) ELSE c.held[s]
    <3>1. /\ tokens[s] = IF s \in E THEN 0 ELSE c.tokens[s]
          /\ Len(blocks[s]) = IF s \in E THEN 0 ELSE IF s = r THEN c.held[s] + (m - m) ELSE c.held[s]
      BY <1>1, <1>3, <1>4 DEF Follows
    <3>2. /\ tokens'[s] = IF s = v THEN 0 ELSE tokens[s]
          /\ blocks'[s] = IF s = v THEN <<>> ELSE blocks[s]
      BY <1>2, <1>8, <1>9 DEF ResetTable, TypeOK
    <3>3. Len(<<>>) = 0
      OBVIOUS
    <3>4. CASE s = v
      BY <3>2, <3>3, <3>4
    <3>5. CASE s # v
      BY <3>1, <3>2, <3>5
    <3> QED BY <3>4, <3>5
  <2> QED BY <1>11, <2>1, <2>2, <2>3, <2>4, <2>5, <2>6 DEF Follows
<1> QED BY <1>1, <1>3, <1>11, <1>17 DEF Progress

\* A turn of the allocation loop takes one of the demanded blocks.
LEMMA AllocateProgress ==
    ASSUME IInv, Progress, AllocateOne
    PROVE  Progress'
<1>1. PICK r, c, m, E, k : /\ r = op.seq /\ c = Registered(op.before, op.seq) /\ E = op.evicted
                           /\ m = Atomic!AdditionalBlocksFor(c, r, op.n) /\ k = op.needed
  OBVIOUS
<1>2. /\ op.phase = "allocate" /\ k > 0 /\ TypeOK /\ BlocksPartitioned
      /\ UNCHANGED <<policy, known, tokens, order>>
  BY <1>1 DEF IInv, AllocateOne
<1>3. op.n \in Demands /\ Follows(c, m)
  BY <1>1, <1>2 DEF Progress
<1>4. r \in known /\ r \in Seqs /\ k <= Len(free) /\ k \in Nat /\ op \in Operations
  BY <1>1, <1>2 DEF IInv, Reserving, TypeOK, Operations
<1>5. PICK f : f = Len(free)
  OBVIOUS
<1>6. f \in Nat /\ free \in Seq(Blocks)
  BY <1>2, <1>5 DEF TypeOK
<1>7. free # <<>>
  <2>1. Len(<<>>) = 0
    OBVIOUS
  <2> QED BY <1>2, <1>4, <2>1
<1>8. PICK b : b = free[Len(free)]
  OBVIOUS
<1>9. /\ free' = SubSeq(free, 1, Len(free) - 1) /\ refs' = [refs EXCEPT ![b] = 1]
      /\ blocks' = [blocks EXCEPT ![r] = Append(@, b)] /\ op' = [op EXCEPT !.needed = @ - 1]
  BY <1>1, <1>7, <1>8 DEF AllocateOne
<1>10. Len(free') = Len(free) - 1
  BY <1>2, <1>4, <1>7, <1>8, <1>9, MovingOneBlock
<1>11. /\ op'.seq = r /\ op'.n = op.n /\ op'.needed = k - 1 /\ op'.evicted = E
       /\ op'.before = op.before /\ op'.phase = "allocate"
  BY <1>1, <1>2, <1>4, <1>9 DEF Operations
<1>12. E \in Prefixes(c, r) /\ r \notin E /\ E \subseteq Seqs /\ c \in Caches
  <2>1. E \in Prefixes(c, r) /\ c \in Caches
    BY <1>1, <1>3 DEF Follows
  <2> QED BY <2>1 DEF Prefixes, Atomic!Candidates, Caches
<1>13. m \in Nat /\ k <= m /\ f + (m - k) = c.free + Atomic!BlocksOf(c, E)
  BY <1>1, <1>3, <1>5 DEF Follows
<1>14. Follows(c, m)'
  <2>1. c \in Caches /\ c.policy = policy' /\ c.known = known' /\ c.order = order'
    BY <1>2, <1>3 DEF Follows
  <2>2. m \in Nat /\ m <= TotalBlocks /\ op'.needed <= m
    BY <1>3, <1>4, <1>11, <1>13 DEF Follows
  <2>3. \A V \in Prefixes(c, r) : Enough(c, V, m) => E \subseteq V
    BY <1>1, <1>3 DEF Follows
  <2>4. Len(free') + (m - op'.needed) = c.free + Atomic!BlocksOf(c, E)
    <3>1. (f - 1) + (m - (k - 1)) = f + (m - k)
      BY <1>4, <1>6, <1>13
    <3> QED BY <1>5, <1>10, <1>11, <1>13, <3>1
  <2>5. ASSUME NEW s \in Seqs
        PROVE  /\ tokens'[s] = IF s \in E THEN 0 ELSE c.tokens[s]
               /\ Len(blocks'[s]) = IF s \in E THEN 0
                                    ELSE IF s = r THEN c.held[s] + (m - (k - 1)) ELSE c.held[s]
    <3>1. /\ tokens[s] = IF s \in E THEN 0 ELSE c.tokens[s]
          /\ Len(blocks[s]) = IF s \in E THEN 0 ELSE IF s = r THEN c.held[s] + (m - k) ELSE c.held[s]
      BY <1>1, <1>3 DEF Follows
    <3>2. CASE s = r
      <4>1. PICK h : h = c.held[s]
        OBVIOUS
      <4>2. h \in Nat /\ blocks[s] \in Seq(Blocks) /\ b \in Blocks
        BY <1>2, <1>6, <1>7, <1>8, <1>12, <4>1, LenProperties, ElementOfSeq, EmptySeq DEF Caches, TypeOK
      <4>3. Len(blocks[s]) = h + (m - k)
        BY <1>12, <3>1, <3>2, <4>1
      <4>4. blocks'[s] = Append(blocks[s], b)
        BY <1>2, <1>9, <3>2 DEF TypeOK
      <4>5. Len(Append(blocks[s], b)) = Len(blocks[s]) + 1
        BY <4>2, AppendProperties
      <4>6. Len(blocks'[s]) = (h + (m - k)) + 1
        BY <4>3, <4>4, <4>5
      <4>7. (h + (m - k)) + 1 = h + (m - (k - 1))
        BY <1>4, <1>13, <4>2
      <4> QED BY <1>2, <1>12, <3>1, <3>2, <4>1, <4>6, <4>7
    <3>3. CASE s # r
      <4>1. blocks'[s] = blocks[s]
        BY <1>2, <1>9, <3>3 DEF TypeOK
      <4> QED BY <1>2, <3>1, <3>3, <4>1
    <3> QED BY <3>2, <3>3
  <2> QED BY <1>11, <1>12, <2>1, <2>2, <2>3, <2>4, <2>5 DEF Follows
<1> QED BY <1>1, <1>3, <1>11, <1>14 DEF Progress

\* Every step keeps it.
LEMMA NextProgress == IInv /\ Progress /\ [Next]_vars => Progress'
<1> SUFFICES ASSUME IInv, Progress, [Next]_vars PROVE Progress'
  OBVIOUS
<1>1. op' = Idle => Progress'
  BY DEF Progress, Idle
<1>2. ASSUME NEW s \in Seqs, NEW n \in Demands, AdmitNew(s, n) PROVE Progress'
  BY <1>2, EnterProgress DEF AdmitNew
<1>3. ASSUME NEW s \in Seqs, NEW n \in Demands, ReserveKnown(s, n) PROVE Progress'
  <2>1. known' = known \cup {s} /\ order' = IF s \in known THEN order ELSE Append(order, s)
    BY <1>3 DEF ReserveKnown
  <2> QED BY <1>3, <2>1, EnterProgress DEF ReserveKnown
<1>4. ASSUME NEW s \in Seqs, NEW n \in Demands, ExtendUnknown(s, n) PROVE Progress'
  BY <1>1, <1>4 DEF ExtendUnknown, Finish
<1>5. ASSUME NEW s \in Seqs, ReserveNothing(s) \/ Preempt(s) \/ Release(s) PROVE Progress'
  BY <1>1, <1>5 DEF ReserveNothing, Preempt, Release, Finish
<1>6. CASE EvictOne
  BY <1>6, EvictProgress
<1>7. CASE AllocateOne
  BY <1>7, AllocateProgress
<1>8. CASE AddTokens
  BY <1>1, <1>8 DEF AddTokens, Finish
<1>9. CASE UNCHANGED vars
  <2>1. UNCHANGED <<policy, free, known, blocks, tokens, order, op>>
    BY <1>9 DEF vars, pool, tables
  <2> QED BY <2>1 DEF Progress, Follows
<1> QED BY <1>2, <1>3, <1>4, <1>5, <1>6, <1>7, <1>8, <1>9 DEF Next

\* A reservation in progress is on its way to what KVCache answers in one step.
THEOREM ProgressTheorem == Spec => []Progress
<1>1. Init => Progress
  BY DEF Init, Idle, Progress
<1> QED BY <1>1, NextProgress, Invariance, PTL DEF Spec

-----------------------------------------------------------------------------
(* Every step of the manager is a step of KVCache or none.                 *)

\* What KVCache takes for its cache: during a call, the one the call found.
Observed == IF op.phase = "idle" THEN View ELSE op.before

\* A call that answers what KVCache's admit does is a step of it.
LEMMA AdmitAnswers ==
    ASSUME NEW s \in Seqs, NEW n \in Demands \cup {0}, NEW o, o = Atomic!Admitting(Observed, s, n),
           Observed' = o.cache, answer' = [result |-> o.result, preempted |-> o.preempted]
    PROVE  Atomic!CacheNext
<1>1. Atomic!Admit(s, n)
  BY DEF Atomic!Admit, Atomic!Answer, Observed
<1> QED BY <1>1 DEF Atomic!CacheNext

\* With tokens asked for, admit gives the sequence a table and reserves.
LEMMA AdmitReserves ==
    ASSUME NEW c, NEW s, NEW n \in Demands
    PROVE  Atomic!Admitting(c, s, n) = Atomic!ReserveKnown(Registered(c, s), s, n)
<1>1. n # 0
  BY ManagerAssumption
<1> QED BY <1>1 DEF Atomic!Admitting, Registered

\* The cache after an eviction.
LEMMA EvictedCache ==
    ASSUME NEW c \in Caches, NEW V \in SUBSET Seqs
    PROVE  /\ Atomic!Evict(c, V) \in Caches
           /\ Atomic!Evict(c, V) =
                [policy |-> c.policy, known |-> c.known, order |-> c.order,
                 tokens |-> [s \in Seqs |-> IF s \in V THEN 0 ELSE c.tokens[s]],
                 held |-> [s \in Seqs |-> IF s \in V THEN 0 ELSE c.held[s]],
                 free |-> c.free + Atomic!BlocksOf(c, V)]
<1>1. PICK d, t, h, f : /\ d = Atomic!Evict(c, V) /\ f = c.free + Atomic!BlocksOf(c, V)
                        /\ t = [s \in Seqs |-> IF s \in V THEN 0 ELSE c.tokens[s]]
                        /\ h = [s \in Seqs |-> IF s \in V THEN 0 ELSE c.held[s]]
  OBVIOUS
<1>2. d = [c EXCEPT !.tokens = t, !.held = h, !.free = f]
  BY <1>1 DEF Atomic!Evict, Caches
<1>3. d = [policy |-> c.policy, known |-> c.known, order |-> c.order, tokens |-> t, held |-> h,
           free |-> f]
  BY <1>2 DEF Caches
<1>4. f \in Nat
  <2>1. Atomic!BlocksOf(c, V) \in Nat /\ c.free \in Nat
    BY HeldByMore DEF Caches
  <2> QED BY <1>1, <2>1
<1>5. t \in [Seqs -> Nat] /\ h \in [Seqs -> Nat]
  BY <1>1 DEF Caches
<1>6. d \in Caches
  BY <1>3, <1>4, <1>5 DEF Caches
<1> QED BY <1>1, <1>3, <1>6

\* The cache after blocks were taken.
LEMMA TakenCache ==
    ASSUME NEW c \in Caches, NEW s \in Seqs, NEW n \in Nat, NEW m \in Nat
    PROVE  Atomic!Take(c, s, n, m) =
             [policy |-> c.policy, known |-> c.known, order |-> c.order,
              tokens |-> [u \in Seqs |-> IF u = s THEN c.tokens[u] + n ELSE c.tokens[u]],
              held |-> [u \in Seqs |-> IF u = s THEN c.held[u] + m ELSE c.held[u]],
              free |-> c.free - m]
<1>1. PICK d, t, h, f : /\ d = Atomic!Take(c, s, n, m) /\ f = c.free - m
                        /\ t = [c.tokens EXCEPT ![s] = c.tokens[s] + n]
                        /\ h = [c.held EXCEPT ![s] = c.held[s] + m]
  OBVIOUS
<1>2. d = [c EXCEPT !.tokens = t, !.held = h, !.free = f]
  BY <1>1 DEF Atomic!Take, Caches
<1>3. d = [policy |-> c.policy, known |-> c.known, order |-> c.order, tokens |-> t, held |-> h,
           free |-> f]
  BY <1>2 DEF Caches
<1>4. t = [u \in Seqs |-> IF u = s THEN c.tokens[u] + n ELSE c.tokens[u]]
  BY <1>1 DEF Caches
<1>5. h = [u \in Seqs |-> IF u = s THEN c.held[u] + m ELSE c.held[u]]
  BY <1>1 DEF Caches
<1> QED BY <1>1, <1>3, <1>4, <1>5

\* Nothing that callers observe has changed.
LEMMA ObservedStays ==
    ASSUME Observed' = Observed, answer' = answer
    PROVE  UNCHANGED Atomic!cacheVars
BY DEF Atomic!cacheVars, Observed

\* A call begins: it is refused, as KVCache refuses it, or callers see nothing of it yet.
LEMMA EnterImplements ==
    ASSUME IInv, Unlocked, NEW s \in Seqs, NEW n \in Demands, Enter(s, n),
           known' = known \cup {s}, order' = IF s \in known THEN order ELSE Append(order, s)
    PROVE  Atomic!CacheNext \/ UNCHANGED Atomic!cacheVars
<1>1. PICK m, c : m = AdditionalBlocksFor(s, n) /\ c = Registered(View, s)
  OBVIOUS
<1>2. TypeOK /\ BlocksPartitioned /\ n \in Nat \ {0} /\ Tight(s)
  BY ManagerAssumption DEF IInv, OthersTight, Unlocked
<1>3. m \in Nat
  BY <1>1, <1>2, NeededBlocks
<1>4. UNCHANGED <<policy, free, blocks, tokens>> /\ op.phase = "idle"
  BY DEF Enter, pool, Unlocked
<1>5. View \in Caches
  BY <1>2, ViewIsCache
<1>6. /\ c \in Caches /\ c.policy = policy /\ c.tokens = tokens /\ c.free = Len(free)
      /\ c.held = [u \in Seqs |-> Len(blocks[u])] /\ c.known = known \cup {s}
      /\ c.order = IF s \in known THEN order ELSE Append(order, s)
  BY <1>1, <1>5, RegisteredCache DEF View
<1>7. CASE PhaseFor(s, m) # "refuse"
  <2>1. op' = [phase |-> PhaseFor(s, m), seq |-> s, n |-> n, needed |-> m, evicted |-> {},
               before |-> View] /\ answer' = answer
    BY <1>1, <1>7 DEF Enter
  <2>2. op'.phase # "idle" /\ op'.before = View
    BY <1>7, <2>1 DEF PhaseFor
  <2>3. Observed' = Observed
    BY <1>4, <2>2 DEF Observed
  <2> QED BY <2>1, <2>3, ObservedStays
<1>8. CASE PhaseFor(s, m) = "refuse"
  <2>1. op' = Idle /\ answer' = [result |-> "insufficient_cache", preempted |-> {}]
    BY <1>1, <1>8 DEF Enter, Finish
  <2>2. \A u \in Seqs : c.tokens[u] = tokens[u] /\ c.held[u] = Len(blocks[u])
    BY <1>6
  <2>3. Shows(c)
    BY <1>6, <2>2 DEF Shows
  <2>4. Atomic!AdditionalBlocksFor(c, s, n) = m
    BY <1>1, <2>3, SameDemand
  <2>5. Atomic!ReclaimableBlocks(c, s) = ReclaimableBlocks(s)
    BY <1>2, <1>6, <2>3, SameReclaimable
  <2>6. PICK f, k, b : f = Len(free) /\ k = ReclaimableBlocks(s) /\ b = Len(blocks[s])
    OBVIOUS
  <2>7. f \in Nat /\ b \in Nat /\ TotalBlocks \in Nat
    BY <1>2, <2>6, ManagerAssumption DEF TypeOK
  <2>8. k \in Nat /\ f + k + b <= TotalBlocks
    BY <1>2, <2>6, RoomBound
  <2>9. m > TotalBlocks \/ (~(f >= m) /\ f + k < m)
    BY <1>8, <2>6 DEF PhaseFor
  <2>10. ~(f >= m) /\ (m > TotalBlocks \/ f + k < m)
    BY <1>3, <2>7, <2>8, <2>9
  <2>11. Atomic!ReserveKnown(c, s, n) = Atomic!Outcome(c, "insufficient_cache", {})
    BY <1>6, <2>4, <2>5, <2>6, <2>10 DEF Atomic!ReserveKnown
  <2>12. Observed = View
    BY <1>4 DEF Observed
  <2>13. PICK o : o = Atomic!Admitting(Observed, s, n)
    OBVIOUS
  <2>14. o = [cache |-> c, result |-> "insufficient_cache", preempted |-> {}]
    BY <1>1, <2>11, <2>12, <2>13, AdmitReserves DEF Atomic!Outcome
  <2>15. Observed' = c
    <3>1. Observed' = View'
      BY <2>1 DEF Observed, Idle
    <3>2. View' = [policy |-> policy, known |-> known', tokens |-> tokens,
                   held |-> [u \in Seqs |-> Len(blocks[u])], order |-> order', free |-> Len(free)]
      BY <1>4 DEF View
    <3>3. c = [policy |-> c.policy, known |-> c.known, tokens |-> c.tokens, held |-> c.held,
               order |-> c.order, free |-> c.free]
      BY <1>6 DEF Caches
    <3> QED BY <1>6, <3>1, <3>2, <3>3
  <2>16. Atomic!CacheNext
    <3>1. n \in Demands \cup {0}
      OBVIOUS
    <3>2. o.cache = c /\ o.result = "insufficient_cache" /\ o.preempted = {}
      BY <2>14
    <3>3. Observed' = o.cache /\ answer' = [result |-> o.result, preempted |-> o.preempted]
      BY <2>1, <2>15, <3>2
    <3> QED BY <2>13, <3>1, <3>3, AdmitAnswers
  <2> QED BY <2>16
<1> QED BY <1>7, <1>8

\* The cache a reservation leaves is the one KVCache answers with.
LEMMA ReservedCache ==
    ASSUME NEW c, NEW m, Follows(c, m), NEW r \in Seqs, r = op.seq, op.phase = "allocate",
           op.needed = 0, NEW n \in Nat, Len(free) \in Nat,
           m = Atomic!AdditionalBlocksFor(c, r, n)
    PROVE  Atomic!ReserveKnown(c, r, n) =
             [cache |-> [policy |-> policy, known |-> known, order |-> order,
                         tokens |-> [u \in Seqs |-> IF u = r THEN tokens[u] + n ELSE tokens[u]],
                         held |-> [u \in Seqs |-> Len(blocks[u])], free |-> Len(free)],
              result |-> IF op.evicted = {} THEN "admitted" ELSE "preempted_others",
              preempted |-> op.evicted]
<1>1. PICK E, f, b, d : E = op.evicted /\ f = Len(free) /\ b = Atomic!BlocksOf(c, E) /\ d = c.free
  OBVIOUS
<1>2. /\ c \in Caches /\ c.policy = policy /\ c.known = known /\ c.order = order
      /\ m \in Nat /\ m <= TotalBlocks /\ E \in Prefixes(c, r)
      /\ \A V \in Prefixes(c, r) : Enough(c, V, m) => E \subseteq V
  BY <1>1 DEF Follows
<1>3. E \subseteq Seqs /\ r \notin E /\ E \subseteq c.known \ {r} /\ c.known \ {r} \subseteq Seqs
  BY <1>2 DEF Prefixes, Atomic!Candidates, Caches
<1>4. f \in Nat /\ b \in Nat /\ d \in Nat
  <2>1. E \in SUBSET Seqs /\ E \in SUBSET E
    BY <1>3
  <2> QED BY <1>1, <1>2, <2>1, HeldByMore DEF Caches
<1>5. f + (m - 0) = d + b
  BY <1>1 DEF Follows
<1>6. Enough(c, E, m)
  <2>1. d + b >= m
    BY <1>2, <1>4, <1>5
  <2> QED BY <1>1, <2>1 DEF Enough
<1>7. \A u \in Seqs : /\ tokens[u] = IF u \in E THEN 0 ELSE c.tokens[u]
                      /\ Len(blocks[u]) = IF u \in E THEN 0
                                          ELSE IF u = r THEN c.held[u] + (m - 0) ELSE c.held[u]
  BY <1>1 DEF Follows
<1>8. m - 0 = m
  BY <1>2
<1>9. PICK t, h : /\ t = [u \in Seqs |-> IF u = r THEN tokens[u] + n ELSE tokens[u]]
                  /\ h = [u \in Seqs |-> Len(blocks[u])]
  OBVIOUS
<1>10. PICK after : after = [policy |-> policy, known |-> known, order |-> order, tokens |-> t,
                             held |-> h, free |-> f]
  OBVIOUS
<1>11. CASE E = {}
  <2>1. b = 0
    BY <1>1, <1>11, HeldByNobody
  <2>2. d >= m /\ d - m = f
    BY <1>2, <1>4, <1>5, <2>1
  <2>3. [u \in Seqs |-> IF u = r THEN c.tokens[u] + n ELSE c.tokens[u]] = t
    BY <1>7, <1>9, <1>11
  <2>4. [u \in Seqs |-> IF u = r THEN c.held[u] + m ELSE c.held[u]] = h
    BY <1>7, <1>8, <1>9, <1>11
  <2>5. Atomic!Take(c, r, n, m) = after
    <3>1. Atomic!Take(c, r, n, m) =
            [policy |-> c.policy, known |-> c.known, order |-> c.order,
             tokens |-> [u \in Seqs |-> IF u = r THEN c.tokens[u] + n ELSE c.tokens[u]],
             held |-> [u \in Seqs |-> IF u = r THEN c.held[u] + m ELSE c.held[u]],
             free |-> c.free - m]
      <4>1. c \in Caches /\ r \in Seqs /\ n \in Nat /\ m \in Nat
        BY <1>2
      <4> QED BY <4>1, TakenCache, ZenonT(60)
    <3> QED BY <1>1, <1>2, <1>10, <2>2, <2>3, <2>4, <3>1
  <2>6. Atomic!ReserveKnown(c, r, n) = Atomic!Outcome(after, "admitted", {})
    BY <1>1, <2>2, <2>5 DEF Atomic!ReserveKnown
  <2> QED BY <1>1, <1>9, <1>10, <1>11, <2>6 DEF Atomic!Outcome
<1>12. CASE E # {}
  <2>1. ~(d >= m)
    <3>1. {} \in Prefixes(c, r)
      BY NobodyEvicted
    <3>2. ~Enough(c, {}, m)
      BY <1>2, <1>12, <3>1
    <3>3. ~(d + 0 >= m)
      BY <1>1, <3>2, HeldByNobody DEF Enough
    <3> QED BY <1>4, <3>3
  <2>2. ~(m > TotalBlocks)
    BY <1>2, ManagerAssumption
  <2>3. ~(d + Atomic!ReclaimableBlocks(c, r) < m)
    <3>1. PICK k : k = Atomic!BlocksOf(c, c.known \ {r})
      OBVIOUS
    <3>2. c.known \ {r} \in SUBSET Seqs /\ E \in SUBSET (c.known \ {r})
      BY <1>3
    <3>3. k \in Nat /\ b <= k
      BY <1>1, <1>2, <3>1, <3>2, HeldByMore
    <3>4. ~(d + k < m)
      BY <1>2, <1>4, <1>5, <3>3
    <3> QED BY <3>1, <3>4 DEF Atomic!ReclaimableBlocks
  <2>4. Atomic!Victims(c, r, m) = E
    BY <1>2, <1>6, ShortestIsVictims
  <2>5. PICK e : e = Atomic!Evict(c, E)
    OBVIOUS
  <2>6. /\ e \in Caches /\ e.policy = policy /\ e.known = known /\ e.order = order
        /\ e.tokens = [u \in Seqs |-> IF u \in E THEN 0 ELSE c.tokens[u]]
        /\ e.held = [u \in Seqs |-> IF u \in E THEN 0 ELSE c.held[u]]
        /\ e.free = d + b
    BY <1>1, <1>2, <1>3, <2>5, EvictedCache
  <2>7. e.free - m = f
    BY <1>2, <1>4, <1>5, <2>6
  <2>8. [u \in Seqs |-> IF u = r THEN e.tokens[u] + n ELSE e.tokens[u]] = t
    BY <1>3, <1>7, <1>9, <2>6
  <2>9. [u \in Seqs |-> IF u = r THEN e.held[u] + m ELSE e.held[u]] = h
    BY <1>3, <1>7, <1>8, <1>9, <2>6
  <2>10. Atomic!Take(e, r, n, m) = after
    <3>1. Atomic!Take(e, r, n, m) =
            [policy |-> e.policy, known |-> e.known, order |-> e.order,
             tokens |-> [u \in Seqs |-> IF u = r THEN e.tokens[u] + n ELSE e.tokens[u]],
             held |-> [u \in Seqs |-> IF u = r THEN e.held[u] + m ELSE e.held[u]],
             free |-> e.free - m]
      <4>1. e \in Caches /\ r \in Seqs /\ n \in Nat /\ m \in Nat
        BY <1>2, <2>6
      <4> QED BY <4>1, TakenCache, ZenonT(60)
    <3> QED BY <1>10, <2>6, <2>7, <2>8, <2>9, <3>1
  <2>11. Atomic!ReserveKnown(c, r, n) = Atomic!Outcome(after, "preempted_others", E)
    BY <1>1, <2>1, <2>2, <2>3, <2>4, <2>5, <2>10 DEF Atomic!ReserveKnown
  <2> QED BY <1>1, <1>9, <1>10, <1>12, <2>11 DEF Atomic!Outcome
<1> QED BY <1>11, <1>12

\* The last step of a reservation answers what KVCache does in one.
LEMMA AddTokensImplements ==
    ASSUME IInv, Progress, AddTokens
    PROVE  Atomic!CacheNext
<1>1. PICK r, c, m, n : /\ r = op.seq /\ c = Registered(op.before, op.seq) /\ n = op.n
                        /\ m = Atomic!AdditionalBlocksFor(c, r, n)
  OBVIOUS
<1>2. /\ op.phase = "allocate" /\ op.needed = 0 /\ op' = Idle /\ TypeOK
      /\ answer' = [result |-> IF op.evicted = {} THEN "admitted" ELSE "preempted_others",
                    preempted |-> op.evicted]
      /\ UNCHANGED <<policy, free, known, blocks, order>>
  BY DEF AddTokens, Finish, IInv, pool
<1>3. n \in Demands /\ Follows(c, m)
  BY <1>1, <1>2 DEF Progress
<1>4. r \in Seqs /\ n \in Nat /\ Len(free) \in Nat
  BY <1>1, <1>2, <1>3, ManagerAssumption DEF IInv, Reserving, TypeOK
<1>5. tokens' = [u \in Seqs |-> IF u = r THEN tokens[u] + n ELSE tokens[u]]
  <2>1. tokens[r] + n <= Capacity(r)
    <3>1. PICK k : k = Len(blocks[r])
      OBVIOUS
    <3>2. k \in Nat
      BY <1>2, <1>4, <3>1 DEF TypeOK
    <3>3. tokens[r] + n <= (k + 0) * BlockSize
      BY <1>1, <1>2, <3>1 DEF IInv, Reserving
    <3>4. k + 0 = k
      BY <3>2
    <3> QED BY <3>1, <3>3, <3>4 DEF Capacity
  <2>2. tokens[r] \in Nat /\ tokens \in [Seqs -> Nat] /\ Capacity(r) \in Int
    BY <1>2, <1>4, ManagerAssumption DEF TypeOK, Capacity
  <2>3. ~(tokens[r] + n > Capacity(r))
    BY <1>4, <2>1, <2>2
  <2>4. tokens' = [tokens EXCEPT ![r] = @ + n]
    BY <1>1, <2>3 DEF AddTokens
  <2> QED BY <2>2, <2>4
<1>6. PICK o : o = Atomic!Admitting(op.before, r, n)
  OBVIOUS
<1>7. o = Atomic!ReserveKnown(c, r, n)
  BY <1>1, <1>3, <1>6, AdmitReserves
<1>8. Atomic!ReserveKnown(c, r, n) =
        [cache |-> [policy |-> policy, known |-> known, order |-> order,
                    tokens |-> [u \in Seqs |-> IF u = r THEN tokens[u] + n ELSE tokens[u]],
                    held |-> [u \in Seqs |-> Len(blocks[u])], free |-> Len(free)],
         result |-> IF op.evicted = {} THEN "admitted" ELSE "preempted_others",
         preempted |-> op.evicted]
  BY <1>1, <1>2, <1>3, <1>4, ReservedCache
<1>9. Observed = op.before /\ Observed' = View'
  BY <1>2 DEF Observed, Idle
<1>10. View' = [policy |-> policy, known |-> known, order |-> order, tokens |-> tokens',
                held |-> [u \in Seqs |-> Len(blocks[u])], free |-> Len(free)]
  BY <1>2 DEF View
<1>11. Observed' = o.cache /\ answer' = [result |-> o.result, preempted |-> o.preempted]
  BY <1>2, <1>5, <1>7, <1>8, <1>9, <1>10
<1>12. n \in Demands \cup {0}
  BY <1>3
<1> QED BY <1>4, <1>6, <1>9, <1>11, <1>12, AdmitAnswers

\* Asking for nothing is granted.
LEMMA NothingImplements ==
    ASSUME NEW s \in Seqs, ReserveNothing(s)
    PROVE  Atomic!CacheNext
<1>1. PICK o : o = Atomic!Admitting(Observed, s, 0)
  OBVIOUS
<1>2. o = [cache |-> Observed, result |-> "admitted", preempted |-> {}]
  BY <1>1 DEF Atomic!Admitting, Atomic!Outcome
<1>3. Observed' = Observed
  <2>1. op.phase = "idle" /\ op' = Idle /\ UNCHANGED <<policy, free, known, blocks, tokens, order>>
    BY DEF ReserveNothing, Finish, Unlocked, pool, tables
  <2> QED BY <2>1 DEF Observed, Idle, View
<1>4. answer' = [result |-> "admitted", preempted |-> {}]
  BY DEF ReserveNothing, Finish
<1>5. Observed' = o.cache /\ answer' = [result |-> o.result, preempted |-> o.preempted]
  BY <1>2, <1>3, <1>4
<1>6. 0 \in Demands \cup {0}
  OBVIOUS
<1> QED BY <1>1, <1>5, <1>6, AdmitAnswers

\* extend refuses an unknown sequence.
LEMMA ExtendImplements ==
    ASSUME NEW s \in Seqs, NEW n \in Demands, ExtendUnknown(s, n)
    PROVE  Atomic!CacheNext
<1>1. /\ op.phase = "idle" /\ op' = Idle /\ UNCHANGED <<policy, free, known, blocks, tokens, order>>
      /\ n > 0 /\ s \notin known /\ answer' = [result |-> "key_error", preempted |-> {}]
  BY DEF ExtendUnknown, Finish, Unlocked, pool, tables
<1>2. PICK o : o = Atomic!Extending(Observed, s, n)
  OBVIOUS
<1>3. Observed = View /\ Observed' = Observed
  BY <1>1 DEF Observed, Idle, View
<1>4. View.known = known
  BY DEF View
<1>5. n # 0
  BY ManagerAssumption
<1>6. o = [cache |-> Observed, result |-> "key_error", preempted |-> {}]
  BY <1>1, <1>2, <1>3, <1>4, <1>5 DEF Atomic!Extending, Atomic!Outcome
<1>7. Observed' = o.cache /\ answer' = [result |-> o.result, preempted |-> o.preempted]
  BY <1>1, <1>3, <1>6
<1>8. Atomic!Extend(s, n)
  BY <1>2, <1>7 DEF Atomic!Extend, Atomic!Answer, Observed
<1> QED BY <1>8 DEF Atomic!CacheNext

\* The blocks of a table go back to the pool, and callers see it empty.
LEMMA GivenBack ==
    ASSUME IInv, Unlocked, NEW s \in Seqs, ReleaseBlocks(s), ResetTable(s), op' = Idle,
           policy' = policy, known \ {s} \subseteq known'
    PROVE  Observed' = [policy |-> policy, known |-> known', order |-> order',
                        tokens |-> [u \in Seqs |-> IF u \in {s} THEN 0 ELSE View.tokens[u]],
                        held |-> [u \in Seqs |-> IF u \in {s} THEN 0 ELSE View.held[u]],
                        free |-> View.free + Atomic!BlocksOf(View, {s})]
<1>1. TypeOK /\ BlocksPartitioned
  BY DEF IInv
<1>2. Len(free') = Len(free) + Len(blocks[s])
  BY <1>1, GivingBack
<1>3. View \in Caches
  BY <1>1, ViewIsCache
<1>4. Atomic!BlocksOf(View, {s}) = Len(blocks[s])
  <2>1. Atomic!BlocksOf(View, {s}) = View.held[s]
    BY <1>3, HeldByOne
  <2> QED BY <2>1 DEF View
<1>5. /\ tokens' = [u \in Seqs |-> IF u \in {s} THEN 0 ELSE tokens[u]]
      /\ \A u \in Seqs : blocks'[u] = IF u \in {s} THEN <<>> ELSE blocks[u]
  BY <1>1 DEF ResetTable, TypeOK
<1>6. Len(<<>>) = 0
  OBVIOUS
<1>7. \A u \in Seqs : Len(blocks'[u]) = IF u \in {s} THEN 0 ELSE Len(blocks[u])
  BY <1>5, <1>6
<1>8. Observed' = [policy |-> policy', known |-> known', tokens |-> tokens',
                   held |-> [u \in Seqs |-> Len(blocks'[u])], order |-> order', free |-> Len(free')]
  BY DEF Observed, Idle, View
<1>9. /\ View.free = Len(free) /\ \A u \in Seqs : View.held[u] = Len(blocks[u])
      /\ \A u \in Seqs : View.tokens[u] = tokens[u]
  BY DEF View
<1>10. tokens' = [u \in Seqs |-> IF u \in {s} THEN 0 ELSE View.tokens[u]]
  BY <1>5, <1>9
<1>11. [u \in Seqs |-> Len(blocks'[u])] = [u \in Seqs |-> IF u \in {s} THEN 0 ELSE View.held[u]]
  BY <1>7, <1>9
<1> QED BY <1>2, <1>4, <1>8, <1>9, <1>10, <1>11

\* preempt().
LEMMA PreemptImplements ==
    ASSUME IInv, NEW s \in Seqs, Preempt(s)
    PROVE  Atomic!CacheNext
<1>1. /\ Unlocked /\ blocks[s] # <<>> /\ ReleaseBlocks(s) /\ ResetTable(s) /\ op' = Idle /\ TypeOK
      /\ UNCHANGED <<policy, known, order>> /\ answer' = [result |-> "none", preempted |-> {}]
  BY DEF Preempt, Finish, IInv
<1>2. View \in Caches /\ Observed = View
  BY <1>1, ViewIsCache DEF Observed, Unlocked
<1>3. View.held[s] > 0
  <2>1. blocks[s] \in Seq(Blocks)
    BY <1>1 DEF TypeOK
  <2>2. Len(blocks[s]) \in Nat /\ Len(blocks[s]) # 0
    BY <1>1, <2>1, EmptySeq
  <2> QED BY <2>2 DEF View
<1>4. Observed' = Atomic!Evict(View, {s})
  <2>1. Observed' = [policy |-> policy, known |-> known', order |-> order',
                     tokens |-> [u \in Seqs |-> IF u \in {s} THEN 0 ELSE View.tokens[u]],
                     held |-> [u \in Seqs |-> IF u \in {s} THEN 0 ELSE View.held[u]],
                     free |-> View.free + Atomic!BlocksOf(View, {s})]
    BY <1>1, GivenBack
  <2>2. {s} \in SUBSET Seqs
    OBVIOUS
  <2>3. Atomic!Evict(View, {s}) =
          [policy |-> View.policy, known |-> View.known, order |-> View.order,
           tokens |-> [u \in Seqs |-> IF u \in {s} THEN 0 ELSE View.tokens[u]],
           held |-> [u \in Seqs |-> IF u \in {s} THEN 0 ELSE View.held[u]],
           free |-> View.free + Atomic!BlocksOf(View, {s})]
    BY <1>2, <2>2, EvictedCache
  <2>4. View.policy = policy /\ View.known = known /\ View.order = order
    BY DEF View
  <2> QED BY <1>1, <2>1, <2>3, <2>4
<1>5. PICK o : o = Atomic!Outcome(Atomic!Preempting(Observed, s), "none", {})
  OBVIOUS
<1>6. o = [cache |-> Atomic!Evict(View, {s}), result |-> "none", preempted |-> {}]
  BY <1>2, <1>3, <1>5 DEF Atomic!Outcome, Atomic!Preempting
<1>7. Observed' = o.cache /\ answer' = [result |-> o.result, preempted |-> o.preempted]
  BY <1>1, <1>4, <1>6
<1>8. Atomic!Preempt(s)
  BY <1>5, <1>7 DEF Atomic!Preempt, Atomic!Answer, Observed
<1> QED BY <1>8 DEF Atomic!CacheNext

\* release().
LEMMA ReleaseImplements ==
    ASSUME IInv, NEW s \in Seqs, Release(s)
    PROVE  Atomic!CacheNext
<1>1. /\ Unlocked /\ ReleaseBlocks(s) /\ ResetTable(s) /\ op' = Idle /\ TypeOK
      /\ known' = known \ {s} /\ order' = Keep(order, Seqs \ {s}) /\ UNCHANGED policy
      /\ answer' = [result |-> "none", preempted |-> {}]
  BY DEF Release, Finish, IInv
<1>2. View \in Caches /\ Observed = View
  BY <1>1, ViewIsCache DEF Observed, Unlocked
<1>3. PICK t, h, f, k, q :
        /\ t = [u \in Seqs |-> IF u \in {s} THEN 0 ELSE View.tokens[u]]
        /\ h = [u \in Seqs |-> IF u \in {s} THEN 0 ELSE View.held[u]]
        /\ f = View.free + Atomic!BlocksOf(View, {s})
        /\ k = known \ {s} /\ q = Keep(order, Seqs \ {s})
  OBVIOUS
<1>4. Observed' = [policy |-> policy, known |-> k, order |-> q, tokens |-> t, held |-> h, free |-> f]
  BY <1>1, <1>3, GivenBack
<1>5. Atomic!Releasing(View, {s}) =
        [policy |-> policy, known |-> k, order |-> q, tokens |-> t, held |-> h, free |-> f]
  <2>1. Atomic!Keep(order, Seqs \ {s}) = q
    BY <1>3 DEF Atomic!Keep, Keep
  <2>2. View.known = known /\ View.order = order /\ View.policy = policy
    BY DEF View
  <2>3. Atomic!Releasing(View, {s}) =
          [View EXCEPT !.known = k, !.tokens = t, !.held = h, !.free = f, !.order = q]
    BY <1>2, <1>3, <2>1, <2>2 DEF Atomic!Releasing, Caches
  <2> QED BY <1>2, <2>2, <2>3 DEF Caches
<1>6. PICK o : o = Atomic!Outcome(Atomic!Releasing(Observed, {s}), "none", {})
  OBVIOUS
<1>7. o = [cache |-> Observed', result |-> "none", preempted |-> {}]
  BY <1>2, <1>4, <1>5, <1>6 DEF Atomic!Outcome
<1>8. Observed' = o.cache /\ answer' = [result |-> o.result, preempted |-> o.preempted]
  BY <1>1, <1>7
<1>9. Atomic!Release(s)
  BY <1>6, <1>8 DEF Atomic!Release, Atomic!Answer, Observed
<1> QED BY <1>9 DEF Atomic!CacheNext

\* The turns of the loops are not observed.
LEMMA TurnImplements ==
    ASSUME IInv, EvictOne \/ AllocateOne
    PROVE  UNCHANGED Atomic!cacheVars
<1>1. op \in Operations /\ TypeOK
  BY DEF IInv, TypeOK
<1>2. CASE EvictOne
  <2>1. Candidates(op.seq) # {} /\ op.phase = "evict"
    BY <1>2, EvictHasVictim DEF EvictOne
  <2>2. /\ op' = [op EXCEPT !.evicted = @ \cup {ChooseVictim(op.seq)},
                            !.phase = IF Len(free') < op.needed THEN "evict" ELSE "allocate"]
        /\ answer' = answer
    BY <1>2, <2>1 DEF EvictOne
  <2>3. op'.phase # "idle" /\ op'.before = op.before
    BY <1>1, <2>2 DEF Operations
  <2>4. Observed' = Observed
    BY <2>1, <2>3 DEF Observed
  <2> QED BY <2>2, <2>4, ObservedStays
<1>3. CASE AllocateOne
  <2>1. op.phase = "allocate" /\ op.needed > 0 /\ op.needed <= Len(free)
    BY <1>3 DEF AllocateOne, IInv, Reserving
  <2>2. free # <<>>
    <3>1. Len(<<>>) = 0 /\ op.needed \in Nat
      BY <1>1 DEF Operations
    <3> QED BY <2>1, <3>1
  <2>3. op' = [op EXCEPT !.needed = @ - 1] /\ answer' = answer
    BY <1>3, <2>2 DEF AllocateOne
  <2>4. op'.phase # "idle" /\ op'.before = op.before
    BY <1>1, <2>1, <2>3 DEF Operations
  <2>5. Observed' = Observed
    BY <2>1, <2>4 DEF Observed
  <2> QED BY <2>3, <2>5, ObservedStays
<1> QED BY <1>2, <1>3

\* Every step of the manager is a step of KVCache or leaves what it shows as it is.
LEMMA NextImplements == IInv /\ Progress /\ [Next]_vars => [Atomic!CacheNext]_(Atomic!cacheVars)
<1> SUFFICES ASSUME IInv, Progress, [Next]_vars
             PROVE  Atomic!CacheNext \/ UNCHANGED Atomic!cacheVars
  OBVIOUS
<1>1. ASSUME NEW s \in Seqs, NEW n \in Demands, AdmitNew(s, n)
      PROVE  Atomic!CacheNext \/ UNCHANGED Atomic!cacheVars
  BY <1>1, EnterImplements DEF AdmitNew
<1>2. ASSUME NEW s \in Seqs, NEW n \in Demands, ReserveKnown(s, n)
      PROVE  Atomic!CacheNext \/ UNCHANGED Atomic!cacheVars
  <2>1. known' = known \cup {s} /\ order' = IF s \in known THEN order ELSE Append(order, s)
    BY <1>2 DEF ReserveKnown
  <2> QED BY <1>2, <2>1, EnterImplements DEF ReserveKnown
<1>3. ASSUME NEW s \in Seqs, NEW n \in Demands, ExtendUnknown(s, n) PROVE Atomic!CacheNext
  BY <1>3, ExtendImplements
<1>4. ASSUME NEW s \in Seqs, ReserveNothing(s) PROVE Atomic!CacheNext
  BY <1>4, NothingImplements
<1>5. ASSUME NEW s \in Seqs, Preempt(s) PROVE Atomic!CacheNext
  BY <1>5, PreemptImplements
<1>6. ASSUME NEW s \in Seqs, Release(s) PROVE Atomic!CacheNext
  BY <1>6, ReleaseImplements
<1>7. CASE EvictOne \/ AllocateOne
  BY <1>7, TurnImplements
<1>8. CASE AddTokens
  BY <1>8, AddTokensImplements
<1>9. CASE UNCHANGED vars
  <2>1. UNCHANGED <<policy, free, known, blocks, tokens, order, op, answer>>
    BY <1>9 DEF vars, pool, tables
  <2>2. Observed' = Observed
    BY <2>1 DEF Observed, View
  <2> QED BY <2>1, <2>2, ObservedStays
<1> QED BY <1>1, <1>2, <1>3, <1>4, <1>5, <1>6, <1>7, <1>8, <1>9 DEF Next

\* The manager starts as an empty cache.
LEMMA InitImplements == Init => Atomic!CacheInit
<1> SUFFICES ASSUME Init PROVE Atomic!CacheInit
  OBVIOUS
<1>1. Len(free) = TotalBlocks
  BY ManagerAssumption DEF Init
<1>2. /\ op.phase = "idle" /\ policy \in {"newest", "largest"} /\ known = {} /\ order = <<>>
      /\ tokens = [s \in Seqs |-> 0] /\ \A s \in Seqs : blocks[s] = <<>>
      /\ answer = [result |-> "none", preempted |-> {}]
  BY DEF Init, Idle
<1>3. Len(<<>>) = 0
  OBVIOUS
<1>4. [s \in Seqs |-> Len(blocks[s])] = [s \in Seqs |-> 0]
  BY <1>2, <1>3
<1>5. View = Atomic!EmptyCache(policy)
  BY <1>1, <1>2, <1>4 DEF View, Atomic!EmptyCache
<1> QED BY <1>2, <1>5 DEF Atomic!CacheInit, Atomic!Policies

\* The loops of reserve() compute what KVCache says in one step, for any sequences, blocks, demands
\* and either policy: a refused reservation evicts nobody, a granted one evicts the shortest prefix
\* of the policy's order, and the requester is never among the victims.
THEOREM AtomicTheorem == Spec => ImplementsAtomic
BY InitImplements, NextImplements, Invariance, ProgressTheorem, PTL
   DEF Spec, ImplementsAtomic, Atomic!CacheSpec

=============================================================================

--------------------------- MODULE KVCacheManager ---------------------------
(***************************************************************************)
(* KVCacheManager, BlockAllocator and SequenceBlockTable in C++            *)
(* (cpp/src/kv_cache_manager.cpp, cpp/src/kv_cache.cpp): the free list,    *)
(* the reference counts and the block tables, with the loops of reserve()  *)
(* unrolled into one step per eviction and one per allocated block.  The   *)
(* manager's mutex is held from the first of these steps to the last, so   *)
(* no other call starts while op is not idle.  The statistics counters     *)
(* (preemptions_, recomputed_tokens_) steer nothing and are left out.      *)
(***************************************************************************)
EXTENDS Integers, Sequences, FiniteSets, Filtering

CONSTANTS
    Seqs,           \* sequence ids
    TotalBlocks,    \* block_count
    BlockSize,      \* block_size
    Demands         \* numbers of tokens asked for in one call

\* The constructors reject zero.
ASSUME ManagerAssumption ==
    /\ IsFiniteSet(Seqs)
    /\ TotalBlocks \in Nat \ {0}
    /\ BlockSize \in Nat \ {0}
    /\ Demands \subseteq Nat \ {0}

Blocks == 0..(TotalBlocks - 1)
NoSeq == "no sequence"

VARIABLES
    policy,       \* policy_
    free,         \* allocator_.free_list_, handed out from the end
    refs,         \* allocator_.reference_counts_
    known,        \* keys of tables_
    blocks,       \* blocks_ of each table, <<>> for an unknown sequence
    tokens,       \* tokens_ of each table
    order,        \* admission_order_
    op,           \* the reserve() in progress, if any
    answer,       \* result and preempted of the last call
    fault         \* an exception or "unreachable" branch that was met, if any

pool == <<free, refs>>
tables == <<known, blocks, tokens, order>>
vars == <<policy, pool, tables, op, answer, fault>>

Capacity(s) == Len(blocks[s]) * BlockSize
RangeOf(q) == {q[i] : i \in DOMAIN q}

\* The state as a caller of the manager can observe it.
View == [policy |-> policy, known |-> known, tokens |-> tokens,
         held |-> [s \in Seqs |-> Len(blocks[s])], order |-> order, free |-> Len(free)]

Idle == [phase |-> "idle", seq |-> NoSeq, n |-> 0, needed |-> 0, evicted |-> {},
         before |-> <<>>]

Init ==
    /\ policy \in {"newest", "largest"}
    /\ free = [i \in 1..TotalBlocks |-> TotalBlocks - i]
    /\ refs = [b \in Blocks |-> 0]
    /\ known = {}
    /\ blocks = [s \in Seqs |-> <<>>]
    /\ tokens = [s \in Seqs |-> 0]
    /\ order = <<>>
    /\ op = Idle
    /\ answer = [result |-> "none", preempted |-> {}]
    /\ fault = "none"

-----------------------------------------------------------------------------
(* Helpers.                                                                *)

\* Mutation: the tokens asked for are rounded up although the last block has room.
AdditionalBlocksIgnoringSlack(s, n) == (n + BlockSize - 1) \div BlockSize

\* Mutation: rounding down.
AdditionalBlocksRoundedDown(s, n) ==
    LET wanted == tokens[s] + n
    IN  IF wanted <= Capacity(s) THEN 0 ELSE (wanted - Capacity(s)) \div BlockSize

AdditionalBlocksFor(s, n) ==
    LET wanted == tokens[s] + n
    IN  IF wanted <= Capacity(s) THEN 0
        ELSE (wanted - Capacity(s) + BlockSize - 1) \div BlockSize

\* table.blocks().size() summed over every table but the requester's.
ReclaimableBlocks(r) ==
    Cardinality({p \in (known \ {r}) \X (1..TotalBlocks) : p[2] <= Len(blocks[p[1]])})

\* choose_victim: the sequences it passes over are the requester and those whose
\* table is empty.
Candidates(r) == {i \in DOMAIN order : order[i] # r /\ blocks[order[i]] # <<>>}

ChooseVictim(r) ==
    order[CHOOSE i \in Candidates(r) : \A j \in Candidates(r) :
            IF policy = "newest" THEN j <= i
            ELSE \/ Len(blocks[order[j]]) < Len(blocks[order[i]])
                 \/ Len(blocks[order[j]]) = Len(blocks[order[i]]) /\ i <= j]

\* allocator_.release(block) for every block of a table: blocks whose count reaches
\* zero go to the end of the free list; releasing a free block throws.
ReleaseBlocks(s) ==
    /\ refs' = [b \in Blocks |-> IF b \in RangeOf(blocks[s]) THEN refs[b] - 1 ELSE refs[b]]
    /\ free' = free \o Keep(blocks[s], {b \in Blocks : refs[b] = 1})
    /\ fault' = IF \E b \in RangeOf(blocks[s]) : refs[b] = 0 THEN "double release" ELSE fault

\* table = SequenceBlockTable(sequence, block_size_)
ResetTable(s) ==
    /\ blocks' = [blocks EXCEPT ![s] = <<>>]
    /\ tokens' = [tokens EXCEPT ![s] = 0]

Finish(result, preempted) ==
    /\ op' = Idle
    /\ answer' = [result |-> result, preempted |-> preempted]

\* The mutex is free.
Unlocked == op.phase = "idle"

-----------------------------------------------------------------------------
(* reserve(): admit creates a missing table, extend throws.                *)

\* Mutation: eviction starts without asking whether it can succeed.
PhaseWithoutFeasibility(s, needed) ==
    IF needed > TotalBlocks THEN "refuse"
    ELSE IF Len(free) < needed THEN "evict"
    ELSE "allocate"

\* How a reservation goes on once the demand is known.
PhaseFor(s, needed) ==
    IF needed > TotalBlocks THEN "refuse"
    ELSE IF Len(free) >= needed THEN "allocate"
    ELSE IF Len(free) + ReclaimableBlocks(s) < needed THEN "refuse"
    ELSE "evict"

\* The part of reserve() before its loops.
Enter(s, n) ==
    LET needed == AdditionalBlocksFor(s, n)
        phase == PhaseFor(s, needed)
    IN  /\ IF phase = "refuse"
             THEN Finish("insufficient_cache", {})
             ELSE /\ op' = [phase |-> phase, seq |-> s, n |-> n, needed |-> needed,
                            evicted |-> {}, before |-> View]
                  /\ UNCHANGED answer
        /\ UNCHANGED <<policy, pool, blocks, tokens, fault>>

ReserveNothing(s) ==
    /\ Unlocked
    /\ Finish("admitted", {})
    /\ UNCHANGED <<policy, pool, tables, fault>>

AdmitNew(s, n) ==
    /\ Unlocked /\ n > 0 /\ s \notin known
    /\ known' = known \cup {s}
    /\ order' = Append(order, s)
    /\ Enter(s, n)

\* admit of a known sequence, and extend.
ReserveKnown(s, n) ==
    /\ Unlocked /\ n > 0 /\ s \in known
    /\ Enter(s, n)
    /\ UNCHANGED <<known, order>>

ExtendUnknown(s, n) ==
    /\ Unlocked /\ n > 0 /\ s \notin known
    /\ Finish("key_error", {})
    /\ UNCHANGED <<policy, pool, tables, fault>>

\* One turn of the loop of evict_until.  Without a victim the loop gives up.
EvictOne ==
    /\ op.phase = "evict"
    /\ IF Candidates(op.seq) = {}
         THEN /\ fault' = "no victim"
              /\ Finish("insufficient_cache", op.evicted)
              /\ UNCHANGED <<pool, blocks, tokens>>
         ELSE LET v == ChooseVictim(op.seq)
              IN  /\ ReleaseBlocks(v)
                  /\ ResetTable(v)
                  /\ op' = [op EXCEPT !.evicted = @ \cup {v},
                                      !.phase = IF Len(free') < op.needed THEN "evict"
                                                ELSE "allocate"]
                  /\ UNCHANGED answer
    /\ UNCHANGED <<policy, known, order>>

\* One turn of the allocation loop: allocator_.allocate(), table.append_block().
AllocateOne ==
    /\ op.phase = "allocate" /\ op.needed > 0
    /\ IF free = <<>>
         THEN /\ fault' = "allocation failed"
              /\ Finish("runtime_error", op.evicted)
              /\ UNCHANGED <<pool, blocks>>
         ELSE LET b == free[Len(free)]
              IN  /\ free' = SubSeq(free, 1, Len(free) - 1)
                  /\ refs' = [refs EXCEPT ![b] = 1]
                  /\ blocks' = [blocks EXCEPT ![op.seq] = Append(@, b)]
                  /\ op' = [op EXCEPT !.needed = @ - 1]
                  /\ UNCHANGED <<answer, fault>>
    /\ UNCHANGED <<policy, known, tokens, order>>

\* table.add_tokens(tokens), then the outcome is returned.
AddTokens ==
    /\ op.phase = "allocate" /\ op.needed = 0
    /\ IF tokens[op.seq] + op.n > Capacity(op.seq)
         THEN /\ fault' = "overrun"
              /\ UNCHANGED tokens
         ELSE /\ tokens' = [tokens EXCEPT ![op.seq] = @ + op.n]
              /\ UNCHANGED fault
    /\ Finish(IF op.evicted = {} THEN "admitted" ELSE "preempted_others", op.evicted)
    /\ UNCHANGED <<policy, pool, known, blocks, order>>

-----------------------------------------------------------------------------
(* preempt() and release().                                                *)

\* Without blocks preempt() returns 0 and changes nothing.
Preempt(s) ==
    /\ Unlocked /\ blocks[s] # <<>>
    /\ ReleaseBlocks(s)
    /\ ResetTable(s)
    /\ Finish("none", {})
    /\ UNCHANGED <<policy, known, order>>

\* Mutation: the table is erased before its blocks are given back.
ReleaseLeaking(s) ==
    /\ Unlocked /\ s \in known
    /\ ResetTable(s)
    /\ known' = known \ {s}
    /\ order' = Keep(order, Seqs \ {s})
    /\ Finish("none", {})
    /\ UNCHANGED <<policy, pool, fault>>

Release(s) ==
    /\ Unlocked /\ s \in known
    /\ ReleaseBlocks(s)
    /\ ResetTable(s)
    /\ known' = known \ {s}
    /\ order' = Keep(order, Seqs \ {s})
    /\ Finish("none", {})
    /\ UNCHANGED <<policy>>

Next ==
    \/ \E s \in Seqs :
         \/ \E n \in Demands : AdmitNew(s, n) \/ ReserveKnown(s, n) \/ ExtendUnknown(s, n)
         \/ ReserveNothing(s) \/ Preempt(s) \/ Release(s)
    \/ EvictOne \/ AllocateOne \/ AddTokens

Spec == Init /\ [][Next]_vars

-----------------------------------------------------------------------------
(* Properties.                                                             *)

\* At every step, inside the loops too, each physical block is in exactly one place:
\* once in the free list with count zero, or once in one table with count one.
\* Nothing leaks and no two tables share a block.
BlocksPartitioned ==
    /\ \A i, j \in 1..Len(free) : free[i] = free[j] => i = j
    /\ \A s, u \in Seqs : \A i \in 1..Len(blocks[s]), j \in 1..Len(blocks[u]) :
         blocks[s][i] = blocks[u][j] => s = u /\ i = j
    /\ \A b \in Blocks :
         IF b \in RangeOf(free) THEN refs[b] = 0 /\ \A s \in Seqs : b \notin RangeOf(blocks[s])
         ELSE refs[b] = 1 /\ \E s \in known : b \in RangeOf(blocks[s])

\* The branches marked unreachable are, no block is released twice, and add_tokens
\* always fits.
NoFault == fault = "none"

\* Between calls a table holds exactly the blocks its tokens need: the waste is
\* less than one block per sequence, after any history of evictions.
SlackBounded ==
    op.phase = "idle" => \A s \in Seqs :
        tokens[s] <= Capacity(s) /\ Capacity(s) < tokens[s] + BlockSize

-----------------------------------------------------------------------------
(* Refinement.                                                             *)

Atomic == INSTANCE KVCache WITH
            cache <- IF op.phase = "idle" THEN View ELSE op.before

\* The loops compute what KVCache says in one step: a refused reservation evicts
\* nobody, a granted one evicts the shortest prefix of the policy's order, and the
\* requester is never among the victims.
ImplementsAtomic == Atomic!CacheSpec

=============================================================================

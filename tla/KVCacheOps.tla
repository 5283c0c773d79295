----------------------------- MODULE KVCacheOps -----------------------------
(***************************************************************************)
(* What the operations of the Python KVCacheManager do to the cache        *)
(* (python/cudaforge/kv_cache.py).  Which physical block a sequence holds  *)
(* is left out here, only how many: KVCacheManager.tla has the block lists.*)
(*                                                                         *)
(* The operations are functions from a cache to a cache, so that the       *)
(* continuous batcher, which calls them, can be composed with them.        *)
(***************************************************************************)
EXTENDS Integers, Sequences, FiniteSets, Functions, SequencesExt, Filtering

CONSTANTS
    Seqs,        \* sequence ids
    TotalBlocks, \* block_count
    BlockSize    \* block_size

\* BlockAllocator.__init__ rejects non-positive arguments.
ASSUME CacheAssumption ==
    /\ IsFiniteSet(Seqs)
    /\ TotalBlocks \in Nat \ {0}
    /\ BlockSize \in Nat \ {0}

Policies == {"newest", "largest"}

\* known: keys of _tables; tokens, held: token_count and len(blocks) of each table;
\* order: _admission_order; free: free blocks.  The statistics counters are left out.
EmptyCache(policy) ==
    [policy |-> policy, known |-> {}, tokens |-> [s \in Seqs |-> 0],
     held |-> [s \in Seqs |-> 0], order |-> <<>>, free |-> TotalBlocks]

\* Rounding up, as -(-a // b) does.
CeilDiv(a, b) == (a + b - 1) \div b

-----------------------------------------------------------------------------
(* Reservation.                                                            *)

\* _additional_blocks_for; an unknown sequence has tokens and blocks 0.
AdditionalBlocksFor(c, s, n) ==
    LET wanted == c.tokens[s] + n
        room == c.held[s] * BlockSize
    IN  IF wanted <= room THEN 0 ELSE CeilDiv(wanted - room, BlockSize)

\* What _choose_victim may pick: never the requester, nor an empty table.
Candidates(c, r) == {s \in c.known \ {r} : c.held[s] > 0}

Position(c, s) == CHOOSE i \in DOMAIN c.order : c.order[i] = s

\* _choose_victim returns u before it returns v.  Evicting one candidate changes
\* neither the size nor the place of another, so the order is fixed.
ChosenBefore(c, u, v) ==
    IF c.policy = "newest"
      THEN Position(c, u) > Position(c, v)
      ELSE \/ c.held[u] > c.held[v]
           \/ c.held[u] = c.held[v] /\ Position(c, u) < Position(c, v)

\* Blocks held by a set of sequences; _reclaimable_blocks is the whole rest.
BlocksOf(c, S) == SumFunctionOnSet(c.held, S)

\* Mutation: nothing can be reclaimed.
ReclaimableNone(c, r) == 0

ReclaimableBlocks(c, r) == BlocksOf(c, c.known \ {r})

\* The candidates the loop of _evict_until has evicted when it stops: a prefix of
\* the order of choice, and the shortest one that frees enough.
Victims(c, r, needed) ==
    LET prefixes == {V \in SUBSET Candidates(c, r) :
                       \A v \in V, u \in Candidates(c, r) : ChosenBefore(c, u, v) => u \in V}
        enough == {V \in prefixes : c.free + BlocksOf(c, V) >= needed}
    IN  CHOOSE V \in enough : \A W \in enough : V \subseteq W

\* Tables reset, blocks back in the pool, the sequences stay known.
Evict(c, V) ==
    [c EXCEPT !.tokens = [s \in Seqs |-> IF s \in V THEN 0 ELSE @[s]],
              !.held = [s \in Seqs |-> IF s \in V THEN 0 ELSE @[s]],
              !.free = @ + BlocksOf(c, V)]

Take(c, s, n, needed) ==
    [c EXCEPT !.tokens[s] = @ + n, !.held[s] = @ + needed, !.free = @ - needed]

Outcome(c, result, preempted) == [cache |-> c, result |-> result, preempted |-> preempted]

\* _reserve once the sequence has a table.
ReserveKnown(c, s, n) ==
    LET needed == AdditionalBlocksFor(c, s, n)
    IN  IF c.free >= needed
          THEN Outcome(Take(c, s, n, needed), "admitted", {})
        ELSE IF needed > TotalBlocks \/ c.free + ReclaimableBlocks(c, s) < needed
          THEN Outcome(c, "insufficient_cache", {})
        ELSE LET V == Victims(c, s, needed)
             IN  Outcome(Take(Evict(c, V), s, n, needed), "preempted_others", V)

\* admit: a sequence that is refused keeps the empty table it was given.
Admitting(c, s, n) ==
    IF n = 0 THEN Outcome(c, "admitted", {})
    ELSE ReserveKnown(IF s \in c.known THEN c
                      ELSE [c EXCEPT !.known = @ \cup {s}, !.order = Append(@, s)], s, n)

\* extend: KeyError for a sequence that was never admitted.
Extending(c, s, n) ==
    IF n = 0 THEN Outcome(c, "admitted", {})
    ELSE IF s \notin c.known THEN Outcome(c, "key_error", {})
    ELSE ReserveKnown(c, s, n)

-----------------------------------------------------------------------------
(* Giving blocks back.                                                     *)

Preempting(c, s) == IF c.held[s] > 0 THEN Evict(c, {s}) ELSE c

\* release of every sequence of S.
Releasing(c, S) ==
    [c EXCEPT !.known = @ \ S,
              !.tokens = [s \in Seqs |-> IF s \in S THEN 0 ELSE @[s]],
              !.held = [s \in Seqs |-> IF s \in S THEN 0 ELSE @[s]],
              !.free = @ + BlocksOf(c, S),
              !.order = Keep(@, Seqs \ S)]

=============================================================================

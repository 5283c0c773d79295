----------------------------- MODULE MemoryPool -----------------------------
(***************************************************************************)
(* MemoryPool over an allocator backend                                    *)
(* (cpp/include/cudaforge/memory_pool.hpp).  One mutex covers each call,   *)
(* so that a call is a step.  The backend has a limit, after which it      *)
(* answers null; it may hand out again an address that it got back.        *)
(***************************************************************************)
EXTENDS Integers, Sequences, SequencesExt, FiniteSets, Functions, FiniteSetsExt

CONSTANTS
    Addresses,      \* addresses the backend can hand out
    BackendBytes,   \* what it has
    MinBlock,       \* min_block_bytes
    AskedBytes,     \* numbers of bytes that callers ask for, of those a size_t can hold
    MaxAllocations  \* bound on the calls of allocate

ASSUME MemoryPoolAssumption ==
    /\ IsFiniteSet(Addresses) /\ BackendBytes \in Nat /\ MinBlock \in Nat \ {0}
    /\ AskedBytes \subseteq Nat \ {0} /\ IsFiniteSet(AskedBytes) /\ MaxAllocations \in Nat

VARIABLES
    freeLists,   \* free_lists_: the cached blocks of each size, the last one is reused first
    live,        \* live_blocks_: the size of each block that is handed out
    backend,     \* the backend's own record: the size of each address it gave out
    poolStats,   \* stats_
    destroyed    \* the destructor has run

memoryVars == <<freeLists, live, backend, poolStats, destroyed>>

NoBlocks == [a \in {} |-> 0]

\* std::bit_ceil: 1 doubled until it is not less than n, which n doublings are enough for.
BitCeil(n) ==
    LET up[k \in 0 .. n] == IF k = 0 THEN 1 ELSE IF up[k - 1] >= n THEN up[k - 1] ELSE 2 * up[k - 1]
    IN  up[n]

RoundUp(bytes) == Max({BitCeil(MinBlock), BitCeil(bytes)})

Classes == {RoundUp(b) : b \in AskedBytes}

BytesOf(blocks) == SumFunctionOnSet(blocks, DOMAIN blocks)
Forget(blocks, gone) == [a \in DOMAIN blocks \ gone |-> blocks[a]]
Put(blocks, a, size) == [x \in DOMAIN blocks \cup {a} |-> IF x = a THEN size ELSE blocks[x]]
Cached == UNION {ToSet(freeLists[c]) : c \in Classes}
CachedBytes == SumFunctionOnSet([c \in Classes |-> c * Len(freeLists[c])], Classes)
CachedBlocks == SumFunctionOnSet([c \in Classes |-> Len(freeLists[c])], Classes)

MemoryPoolInit ==
    /\ freeLists = [c \in Classes |-> <<>>] /\ live = NoBlocks /\ backend = NoBlocks
    /\ poolStats = [reserved |-> 0, inUse |-> 0, peak |-> 0, allocations |-> 0, backend |-> 0,
                reuse |-> 0, frees |-> 0, freeBlocks |-> 0]
    /\ destroyed = FALSE

-----------------------------------------------------------------------------
(* allocate.                                                               *)

\* note_checkout, and the count of the call.
CheckedOut(s, size) ==
    [s EXCEPT !.allocations = @ + 1, !.inUse = @ + size, !.peak = Max({@, s.inUse + size})]

Calling == ~destroyed /\ poolStats.allocations < MaxAllocations

AllocateCached(bytes) ==
    LET size == RoundUp(bytes)
    IN  /\ Calling /\ freeLists[size] # <<>>
        /\ live' = Put(live, Last(freeLists[size]), size)
        /\ freeLists' = [freeLists EXCEPT ![size] = Front(@)]
        /\ poolStats' = [CheckedOut(poolStats, size) EXCEPT !.reuse = @ + 1, !.freeBlocks = @ - 1]
        /\ UNCHANGED <<backend, destroyed>>

\* backend_.allocate(size) has an answer.
BackendHas(size) == BytesOf(backend) + size <= BackendBytes

AllocateNew(bytes) ==
    LET size == RoundUp(bytes)
    IN  /\ Calling /\ freeLists[size] = <<>> /\ BackendHas(size)
        /\ \E a \in Addresses \ DOMAIN backend :
             backend' = Put(backend, a, size) /\ live' = Put(live, a, size)
        /\ poolStats' = [CheckedOut(poolStats, size) EXCEPT !.backend = @ + 1, !.reserved = @ + size]
        /\ UNCHANGED <<freeLists, destroyed>>

\* bad_alloc, whatever is cached in other sizes; the call has been counted.
AllocateFails(bytes) ==
    LET size == RoundUp(bytes)
    IN  /\ Calling /\ freeLists[size] = <<>> /\ ~BackendHas(size)
        /\ poolStats' = [poolStats EXCEPT !.allocations = @ + 1]
        /\ UNCHANGED <<freeLists, live, backend, destroyed>>

-----------------------------------------------------------------------------
(* deallocate, trim and the destructor.  deallocate of an address that is  *)
(* not handed out throws and changes nothing.                              *)

\* Mutation: the block stays in live_blocks_, and may be given back once more.
DeallocateKeepingEntry(a) ==
    /\ ~destroyed /\ a \in DOMAIN live
    /\ freeLists' = [freeLists EXCEPT ![live[a]] = Append(@, a)]
    /\ poolStats' = [poolStats EXCEPT !.inUse = @ - live[a], !.frees = @ + 1, !.freeBlocks = @ + 1]
    /\ UNCHANGED <<live, backend, destroyed>>

Deallocate(a) ==
    /\ ~destroyed /\ a \in DOMAIN live
    /\ live' = Forget(live, {a})
    /\ freeLists' = [freeLists EXCEPT ![live[a]] = Append(@, a)]
    /\ poolStats' = [poolStats EXCEPT !.inUse = @ - live[a], !.frees = @ + 1, !.freeBlocks = @ + 1]
    /\ UNCHANGED <<backend, destroyed>>

Trim ==
    /\ ~destroyed /\ Cached # {}
    /\ backend' = Forget(backend, Cached)
    /\ freeLists' = [c \in Classes |-> <<>>]
    /\ poolStats' = [poolStats EXCEPT !.reserved = @ - CachedBytes, !.freeBlocks = 0]
    /\ UNCHANGED <<live, destroyed>>

\* release_all: the cached blocks, then those that callers still hold.
Destroy ==
    /\ ~destroyed
    /\ backend' = Forget(backend, Cached \cup DOMAIN live)
    /\ freeLists' = [c \in Classes |-> <<>>] /\ live' = NoBlocks
    /\ destroyed' = TRUE
    /\ UNCHANGED poolStats

MemoryPoolNext ==
    \/ \E b \in AskedBytes : AllocateCached(b) \/ AllocateNew(b) \/ AllocateFails(b)
    \/ \E a \in Addresses : Deallocate(a)
    \/ Trim \/ Destroy

MemoryPoolSpec == MemoryPoolInit /\ [][MemoryPoolNext]_memoryVars

-----------------------------------------------------------------------------
(* Properties.                                                             *)

\* Whatever is reused, given back, trimmed and handed out again under the same address: what
\* the pool has from the backend is either handed out or cached, once, under the size the
\* backend knows it by; the statistics say so; and in the end the backend has it all back.
PoolAccounts ==
    /\ DOMAIN backend = DOMAIN live \cup Cached /\ DOMAIN live \cap Cached = {}
    /\ \A a \in DOMAIN live : live[a] = backend[a]
    /\ \A c \in Classes : /\ IsInjective(freeLists[c])
                          /\ \A a \in ToSet(freeLists[c]) : backend[a] = c
    /\ destroyed => backend = NoBlocks
    /\ ~destroyed => /\ poolStats.inUse = BytesOf(live) /\ poolStats.peak >= poolStats.inUse
                     /\ poolStats.reserved = poolStats.inUse + CachedBytes
                     /\ poolStats.freeBlocks = CachedBlocks
                     /\ poolStats.backend + poolStats.reuse = poolStats.frees + Cardinality(DOMAIN live)

=============================================================================

------------------------------ MODULE KVCache ------------------------------
(***************************************************************************)
(* The cache manager as its callers see it: KVCacheManager does every      *)
(* operation under one lock, so each of KVCacheOps is one step here.       *)
(***************************************************************************)
EXTENDS KVCacheOps

CONSTANT Demands     \* numbers of tokens asked for in one call

VARIABLES
    cache,
    answer     \* what the last call returned: result and preempted

cacheVars == <<cache, answer>>

CacheInit ==
    /\ \E p \in Policies : cache = EmptyCache(p)
    /\ answer = [result |-> "none", preempted |-> {}]

Answer(o) == cache' = o.cache /\ answer' = [result |-> o.result, preempted |-> o.preempted]

Admit(s, n) == Answer(Admitting(cache, s, n))
Extend(s, n) == Answer(Extending(cache, s, n))
Preempt(s) == Answer(Outcome(Preempting(cache, s), "none", {}))
Release(s) == Answer(Outcome(Releasing(cache, {s}), "none", {}))

CacheNext ==
    \E s \in Seqs :
        \/ \E n \in Demands \cup {0} : Admit(s, n) \/ Extend(s, n)
        \/ Preempt(s) \/ Release(s)

CacheSpec == CacheInit /\ [][CacheNext]_cacheVars

=============================================================================

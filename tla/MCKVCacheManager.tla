-------------------------- MODULE MCKVCacheManager --------------------------
(* Three sequences compete for three blocks of two tokens, so that one       *)
(* admission can evict none, one or both of the others under either policy, *)
(* and a demand can exceed what is reclaimable or the whole cache.          *)
EXTENDS KVCacheManager, TLC
CONSTANTS s1, s2, s3
Symmetry == Permutations(Seqs)
=============================================================================

------------------------- MODULE MCContinuousEngine -------------------------
\* A small instance of ContinuousEngine for TLC.
EXTENDS ContinuousEngine

CONSTANTS r1, r2

Prompts(n) == (r1 :> 2) @@ (r2 :> n)
Setup(kind, policy, n) == [runner |-> kind, cache |-> policy, prompt |-> Prompts(n)]

MCEngineSetups == {Setup("transformers", "none", 3)}

\* With three blocks of two tokens: both requests fit until one of them grows, the larger
\* evicts the other in the same pass of admission, or it is larger than the cache.
MCSetups == {Setup("transformers", p, n) : p \in Policies, n \in {2, 5, 7}}
            \cup {Setup("echo", "newest", 2)} \cup MCEngineSetups
MCMaxNewTokens == (r1 :> 1) @@ (r2 :> 2)

=============================================================================

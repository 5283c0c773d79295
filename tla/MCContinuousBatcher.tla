------------------------ MODULE MCContinuousBatcher ------------------------
\* Small instances of ContinuousBatcher for TLC.
EXTENDS ContinuousBatcher

CONSTANTS r1, r2

Prompts(n) == (r1 :> 2) @@ (r2 :> n)
Setup(kind, policy, n) == [runner |-> kind, cache |-> policy, prompt |-> Prompts(n)]

MCSetups == {Setup("echo", p, n) : p \in Policies, n \in {2, 5}}
MCMaxNewTokens == (r1 :> 1) @@ (r2 :> 3)

=============================================================================

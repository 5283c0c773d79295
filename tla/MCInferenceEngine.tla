------------------------- MODULE MCInferenceEngine -------------------------
\* Small instances of InferenceEngine for TLC.
EXTENDS InferenceEngine

\* The requests are alike, and so are the threads that call shutdown.
Symmetry == Permutations(Requests) \cup Permutations(Stoppers)

=============================================================================

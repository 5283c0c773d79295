------------------------------ MODULE Sampling ------------------------------
(***************************************************************************)
(* How a token is drawn: _distribution and the acceptance rule of          *)
(* python/cudaforge/speculative.py, and the batched _sample of             *)
(* python/cudaforge/stepwise_transformers.py.                              *)
(*                                                                         *)
(* A row of logits is given by the weights its softmax is proportional to, *)
(* natural numbers; probabilities are compared by multiplying out.  Equal  *)
(* weights are sorted by token.                                            *)
(***************************************************************************)
EXTENDS Integers, Sequences, FiniteSets, Functions, FiniteSetsExt

CONSTANTS
    Vocabulary,  \* 1 .. n
    Weights,     \* weights a token may have
    TopKs,       \* choices of top_k; nothing keeps them within the vocabulary
    TopPs        \* choices of top_p, in percent

ASSUME SamplingAssumption ==
    /\ IsFiniteSet(Vocabulary) /\ Vocabulary = 1 .. Cardinality(Vocabulary) /\ Vocabulary # {}
    /\ Weights \subseteq Nat \ {0}
    /\ TopKs \subseteq Nat /\ TopPs \subseteq 1 .. 100

VARIABLE rows    \* a batch: rows of logits, each with its settings

SamplingRows == [w : [Vocabulary -> Weights], k : TopKs, p : TopPs, greedy : BOOLEAN]

Mass(w, S) == SumFunctionOnSet(w, S)

\* The values of topk, in order: the n-th largest weight.
Largest(w, n) ==
    CHOOSE v \in Range(w) : /\ Cardinality({x \in Vocabulary : w[x] > v}) < n
                            /\ Cardinality({x \in Vocabulary : w[x] >= v}) >= n

\* In descending order x comes before y.
Sooner(w, x, y) == w[x] > w[y] \/ (w[x] = w[y] /\ x < y)

\* top_p among the tokens in S: the tail beyond the mass is dropped, never the top token.
Nucleus(w, S, p) ==
    {x \in S : LET before == {y \in S : Sooner(w, y, x)}
               IN  before = {} \/ 100 * Mass(w, before) <= p * Mass(w, S)}

-----------------------------------------------------------------------------
(* speculative.py.                                                         *)

\* _distribution: top_k, clamped to the vocabulary, then top_p of what is left.
Support(row) ==
    LET limit == Min({row.k, Cardinality(Vocabulary)})
        kept == IF row.k = 0 THEN Vocabulary
                ELSE {x \in Vocabulary : row.w[x] >= Largest(row.w, limit)}
    IN  IF row.p < 100 THEN Nucleus(row.w, kept, row.p) ELSE kept

Distribution(row) == [x \in Vocabulary |-> IF x \in Support(row) THEN row.w[x] ELSE 0]

\* Both distributions over a common denominator.
Common(row, other) ==
    [x \in Vocabulary |-> Distribution(row)[x] * Mass(Distribution(other), Vocabulary)]

\* The mass with which a proposal is made and accepted: q(x) min(1, p(x) / q(x)).
Accepted(p, q) == [x \in Vocabulary |-> Min({p[x], q[x]})]

\* Mutation: the replacement is drawn from the target's distribution.
ResidualUncorrected(p, q) == p

\* What the target wanted and the draft under-proposed.
Residual(p, q) == [x \in Vocabulary |-> IF p[x] > q[x] THEN p[x] - q[x] ELSE 0]

-----------------------------------------------------------------------------
(* stepwise_transformers.py.                                               *)

\* Mutation: one threshold for the whole batch.
ThresholdOfBatch(w, k, limit) == Largest(w, limit)

\* The row's own entry among the values of topk(limit).
Threshold(w, k, limit) ==
    LET entry == Min({IF k < 1 THEN 1 ELSE k, limit}) IN Largest(w, entry)

\* topk(limit) is not clamped: asked for more values than there are tokens, it raises.
TopkRaises(limit) == limit > Cardinality(Vocabulary)

\* The tokens _sample may draw for one row of a batch, none when it raises; limit is the
\* largest top_k of the batch, that of a greedy row too, nucleus whether any row has top_p
\* below one.
SampleRow(row, batch) ==
    LET limit == Max({b.k : b \in batch})
        kept == IF limit = 0 \/ row.k = 0 THEN Vocabulary
                ELSE {x \in Vocabulary : row.w[x] >= Threshold(row.w, row.k, limit)}
        nucleus == IF \E b \in batch : b.p < 100 THEN Nucleus(row.w, kept, row.p) ELSE kept
    IN  IF TopkRaises(limit) THEN {}
        ELSE IF row.greedy
          THEN {CHOOSE x \in Vocabulary : \A y \in Vocabulary \ {x} : Sooner(row.w, x, y)}
          ELSE nucleus

-----------------------------------------------------------------------------
(* Properties: of every batch, chosen in the initial state.                *)

SamplingInit(batches) == rows \in batches

SamplingSpec == SamplingInit(Seq(SamplingRows)) /\ [][FALSE]_rows

\* Mass p is what the target's row wants, q what the draft's row proposes.
ExactFor(p, q) ==
    LET rejected == Mass(q, Vocabulary) - Mass(Accepted(p, q), Vocabulary)
        total == Mass(Residual(p, q), Vocabulary)
    IN  IF rejected = 0 THEN Accepted(p, q) = p
        ELSE /\ total > 0
             /\ \A x \in Vocabulary :
                  Accepted(p, q)[x] * total + rejected * Residual(p, q)[x] = p[x] * total

\* The token that follows is drawn with exactly the target's probability, whatever the
\* draft proposes and however the two are filtered: accepted mass plus the rejected mass
\* times the normalised residual is p; and a rejection implies a non-empty residual, as
\* the assertion in _verify says.
AcceptanceExact ==
    \A i, j \in DOMAIN rows : i < j =>
        \E p \in {Common(rows[i], rows[j])}, q \in {Common(rows[j], rows[i])} : ExactFor(p, q)

\* The rows of a batch can do one thing to each other: a top_k above the vocabulary, that of
\* a greedy row too, leaves no row of the batch a token, since _sample raises.  Otherwise
\* every row has one, and is sampled by its own settings: the company changes neither the
\* tokens that may be drawn nor, for a greedy row, the one that is, and the batched filter
\* keeps what the one of speculative.py keeps, which clamps top_k instead.
SampledByOwnSettings ==
    \A i \in DOMAIN rows :
        LET drawn == SampleRow(rows[i], Range(rows))
        IN  /\ drawn = {} <=> \E j \in DOMAIN rows : rows[j].k > Cardinality(Vocabulary)
            /\ drawn # {} => /\ drawn = SampleRow(rows[i], {rows[i]})
                             /\ ~rows[i].greedy => drawn = Support(rows[i])

=============================================================================

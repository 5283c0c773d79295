--------------------------- MODULE ProgramsProofs ---------------------------
(***************************************************************************)
(* Proofs about the sequential programs around the engines: the loop of    *)
(* speculative decoding produces what the target model alone would, for    *)
(* every vocabulary, prompt, budget and lookahead; the settings of a       *)
(* launch reach the engine unchanged; training puts every micro-batch into *)
(* one optimiser step; the histogram of the metrics keeps the latest       *)
(* values, sorted, while threads record, read and reset; a speculated      *)
(* token is drawn with exactly the target's probability; and a row is      *)
(* sampled by its own settings, whatever batch it shares.                  *)
(***************************************************************************)
EXTENDS Configuration, SpeculativeDecoder, Training, Metrics, Sampling, FilteringProofs

-----------------------------------------------------------------------------
(* Prefixes of sequences.                                                  *)

\* The elements of a concatenation.
LEMMA ConcatElements ==
    ASSUME NEW S, NEW u \in Seq(S), NEW v \in Seq(S)
    PROVE  /\ u \o v \in Seq(S)
           /\ Len(u \o v) = Len(u) + Len(v)
           /\ \A i \in 1 .. Len(u) : (u \o v)[i] = u[i]
           /\ \A i \in 1 .. Len(v) : (u \o v)[Len(u) + i] = v[i]
  BY ConcatProperties

\* The first m elements of a sequence.
LEMMA FirstElements ==
    ASSUME NEW S, NEW s \in Seq(S), NEW m \in 0 .. Len(s)
    PROVE  /\ SubSeq(s, 1, m) \in Seq(S)
           /\ Len(SubSeq(s, 1, m)) = m
           /\ \A i \in 1 .. m : SubSeq(s, 1, m)[i] = s[i]
<1>1. \A i \in 1 .. m : s[i] \in S
  BY ElementOfSeq
<1> QED BY <1>1, SubSeqProperties

\* A prefix agrees with the sequence on every element it has.
LEMMA PrefixElements ==
    ASSUME NEW S, NEW u \in Seq(S), NEW v \in Seq(S)
    PROVE  IsPrefix(u, v) <=> Len(u) <= Len(v) /\ \A i \in 1 .. Len(u) : u[i] = v[i]
<1> SUFFICES ASSUME Len(u) <= Len(v)
             PROVE  SubSeq(u, 1, Len(u)) = SubSeq(v, 1, Len(u)) <=> \A i \in 1 .. Len(u) : u[i] = v[i]
  BY DEF IsPrefix
<1>1. Len(u) \in 0 .. Len(u) /\ Len(u) \in 0 .. Len(v)
  BY LenProperties
<1>2. SubSeq(u, 1, Len(u)) = u
  BY SubSeqFull
<1> DEFINE w == SubSeq(v, 1, Len(u))
<1>3. w \in Seq(S) /\ Len(w) = Len(u) /\ \A i \in 1 .. Len(u) : w[i] = v[i]
  BY <1>1, FirstElements
<1> HIDE DEF w
<1>4. u = w <=> \A i \in 1 .. Len(u) : u[i] = w[i]
  BY <1>3, SeqEqual
<1> QED BY <1>2, <1>3, <1>4 DEF w

\* Two cuts of one length are equal when the sequences agree that far.
LEMMA EqualCuts ==
    ASSUME NEW S, NEW u \in Seq(S), NEW v \in Seq(S), NEW m \in Nat, m <= Len(u), m <= Len(v),
           \A i \in 1 .. m : u[i] = v[i]
    PROVE  SubSeq(u, 1, m) = SubSeq(v, 1, m)
<1>1. Len(u) \in Nat /\ Len(v) \in Nat
  BY LenProperties
<1>2. m \in 0 .. Len(u) /\ m \in 0 .. Len(v)
  BY <1>1
<1> QED BY <1>2, FirstElements, SeqEqual

\* A sequence is its first m elements and the rest.
LEMMA CutAndJoin ==
    ASSUME NEW S, NEW s \in Seq(S), NEW m \in 0 .. Len(s)
    PROVE  SubSeq(s, 1, m) \o SubSeq(s, m + 1, Len(s)) = s
<1>1. Len(s) \in Nat
  BY LenProperties
<1>2. 1 \in 1 .. Len(s) + 1 /\ m \in 1 - 1 .. Len(s) /\ Len(s) \in m .. Len(s)
  BY <1>1
<1> QED BY <1>2, ConcatAdjacentSubSeq, SubSeqFull

\* A cut of a prefix is a prefix.
LEMMA CutOfPrefix ==
    ASSUME NEW S, NEW u \in Seq(S), NEW v \in Seq(S), IsPrefix(u, v), NEW m \in 0 .. Len(u)
    PROVE  IsPrefix(SubSeq(u, 1, m), v)
<1>1. Len(u) \in Nat /\ Len(v) \in Nat /\ Len(u) <= Len(v)
  BY LenProperties, PrefixElements
<1>2. \A i \in 1 .. m : i \in 1 .. Len(u)
  BY <1>1
<1> DEFINE w == SubSeq(u, 1, m)
<1>3. w \in Seq(S) /\ Len(w) = m /\ \A i \in 1 .. m : w[i] = u[i]
  BY FirstElements
<1> HIDE DEF w
<1>4. \A i \in 1 .. Len(u) : u[i] = v[i]
  BY PrefixElements
<1>5. Len(w) <= Len(v) /\ \A i \in 1 .. Len(w) : w[i] = v[i]
  BY <1>1, <1>2, <1>3, <1>4
<1>6. IsPrefix(w, v)
  BY <1>3, <1>5, PrefixElements
<1> QED BY <1>6 DEF w

\* A strict prefix is shorter, and stays a prefix when it is extended by the next element.
LEMMA ExtendedPrefix ==
    ASSUME NEW S, NEW u \in Seq(S), NEW v \in Seq(S), IsPrefix(u, v), Len(u) < Len(v)
    PROVE  /\ IsStrictPrefix(u, v)
           /\ v[Len(u) + 1] \in S
           /\ IsPrefix(Append(u, v[Len(u) + 1]), v)
<1>1. Len(u) \in Nat /\ Len(v) \in Nat
  BY LenProperties
<1>2. v[Len(u) + 1] \in S
  BY <1>1, ElementOfSeq
<1> DEFINE w == Append(u, v[Len(u) + 1])
<1>3. /\ w \in Seq(S) /\ Len(w) = Len(u) + 1
      /\ \A i \in 1 .. Len(u) : w[i] = u[i]
      /\ w[Len(u) + 1] = v[Len(u) + 1]
  BY <1>2, AppendProperties
<1> HIDE DEF w
<1>4. \A i \in 1 .. Len(u) : u[i] = v[i]
  BY PrefixElements
<1>5. \A i \in 1 .. Len(w) : w[i] = v[i]
  BY <1>1, <1>3, <1>4
<1>6. IsPrefix(w, v)
  BY <1>1, <1>3, <1>5, PrefixElements
<1> QED BY <1>2, <1>6 DEF IsStrictPrefix, w

-----------------------------------------------------------------------------
(* One block, as sequences: c the context, p the proposals, t of which are *)
(* taken, and r the token after them.                                      *)

BlockOf(p, t, r) == Append(SubSeq(p, 1, t), r)

\* The elements of a block.
LEMMA BlockElements ==
    ASSUME NEW S, NEW p \in Seq(S), NEW t \in 0 .. Len(p), NEW r \in S
    PROVE  /\ BlockOf(p, t, r) \in Seq(S)
           /\ Len(BlockOf(p, t, r)) = t + 1
           /\ \A i \in 1 .. t : BlockOf(p, t, r)[i] = p[i]
           /\ BlockOf(p, t, r)[t + 1] = r
  BY FirstElements, AppendProperties DEF BlockOf

\* The first w tokens of the context followed by b.
Kept(c, b, w) == SubSeq(c \o b, 1, w)

\* Two sequences that go on alike after c agree in their first w elements.
LEMMA EqualJoins ==
    ASSUME NEW S, NEW c \in Seq(S), NEW q \in Seq(S), NEW b \in Seq(S), NEW w \in Nat,
           w <= Len(c) + Len(q), w <= Len(c) + Len(b),
           \A k \in Nat : k \in 1 .. Len(q) /\ k \in 1 .. Len(b) /\ Len(c) + k <= w => q[k] = b[k]
    PROVE  Kept(c, q, w) = Kept(c, b, w)
<1>1. /\ c \o q \in Seq(S) /\ Len(c \o q) = Len(c) + Len(q)
      /\ \A i \in 1 .. Len(c) : (c \o q)[i] = c[i]
      /\ \A i \in 1 .. Len(q) : (c \o q)[Len(c) + i] = q[i]
  BY ConcatElements
<1>2. /\ c \o b \in Seq(S) /\ Len(c \o b) = Len(c) + Len(b)
      /\ \A i \in 1 .. Len(c) : (c \o b)[i] = c[i]
      /\ \A i \in 1 .. Len(b) : (c \o b)[Len(c) + i] = b[i]
  BY ConcatElements
<1>3. Len(c) \in Nat /\ Len(q) \in Nat /\ Len(b) \in Nat
  BY LenProperties
<1>4. ASSUME NEW i \in 1 .. w PROVE (c \o q)[i] = (c \o b)[i]
  <2>1. CASE i <= Len(c)
    BY <2>1, <1>1, <1>2, <1>3
  <2>2. CASE i > Len(c)
    <3>0. i - Len(c) \in Nat
      BY <2>2, <1>3
    <3>1. PICK k \in Nat : k = i - Len(c)
      BY <3>0
    <3>2. k \in 1 .. Len(q) /\ k \in 1 .. Len(b) /\ i = Len(c) + k /\ Len(c) + k <= w
      BY <3>1, <2>2, <1>3
    <3>3. q[k] = b[k]
      BY <3>2
    <3> QED BY <3>2, <3>3, <1>1, <1>2
  <2>3. i <= Len(c) \/ i > Len(c)
    BY <1>3
  <2> QED BY <2>1, <2>2, <2>3
<1> QED BY <1>1, <1>2, <1>4, EqualCuts DEF Kept

\* Appending to a join is joining with what was appended.
LEMMA JoinAppend ==
    ASSUME NEW S, NEW c \in Seq(S), NEW q \in Seq(S), NEW r \in S
    PROVE  c \o Append(q, r) = Append(c \o q, r)
<1>1. <<r>> \in Seq(S)
  OBVIOUS
<1>2. Append(q, r) = q \o <<r>>
  BY AppendIsConcat
<1>3. c \o q \in Seq(S)
  BY ConcatProperties
<1>4. Append(c \o q, r) = (c \o q) \o <<r>>
  BY <1>3, AppendIsConcat
<1>5. (c \o q) \o <<r>> = c \o (q \o <<r>>)
  BY <1>1, ConcatAssociative
<1> QED BY <1>2, <1>4, <1>5

\* A join cut behind the first sequence.
LEMMA CutJoin ==
    ASSUME NEW S, NEW c \in Seq(S), NEW p \in Seq(S), NEW i \in 0 .. Len(p)
    PROVE  Kept(c, p, Len(c) + i) = c \o SubSeq(p, 1, i)
<1> DEFINE q == SubSeq(p, 1, i)
<1>1. q \in Seq(S) /\ Len(q) = i /\ \A k \in 1 .. i : q[k] = p[k]
  BY FirstElements
<1> HIDE DEF q
<1>2. Len(c) \in Nat /\ Len(p) \in Nat /\ i \in Nat /\ i <= Len(p)
  BY LenProperties
<1>3. PICK w \in Nat : w = Len(c) + i
  BY <1>2
<1>4. w <= Len(c) + Len(q) /\ w <= Len(c) + Len(p)
  BY <1>1, <1>2, <1>3
<1>5. ASSUME NEW k \in Nat, k \in 1 .. Len(p), k \in 1 .. Len(q), Len(c) + k <= w
      PROVE  p[k] = q[k]
  BY <1>1, <1>5
<1>6. q \in Seq(S)
  BY <1>1
<1>7. Kept(c, p, w) = Kept(c, q, w)
  BY <1>4, <1>5, <1>6, EqualJoins
<1>8. c \o q \in Seq(S) /\ Len(c \o q) = Len(c) + Len(q)
  BY <1>6, ConcatElements
<1>9. SubSeq(c \o q, 1, w) = c \o q
  BY <1>1, <1>3, <1>8, SubSeqFull
<1> QED BY <1>3, <1>7, <1>9 DEF q, Kept

\* One more element of a sequence.
LEMMA FirstAndNext ==
    ASSUME NEW S, NEW p \in Seq(S), NEW n \in Nat, n < Len(p)
    PROVE  /\ SubSeq(p, 1, n + 1) = Append(SubSeq(p, 1, n), p[n + 1])
           /\ SubSeq(p, 1, n) \in Seq(S) /\ Len(SubSeq(p, 1, n)) = n /\ p[n + 1] \in S
<1>1. Len(p) \in Nat
  BY LenProperties
<1>2. 1 \in 1 .. Len(p) /\ n + 1 \in 1 .. Len(p) /\ (n + 1) - 1 = n /\ n \in 0 .. Len(p)
  BY <1>1
<1>3. SubSeq(p, 1, n + 1) = SubSeq(p, 1, n) \o <<p[n + 1]>>
  BY <1>2, SubSeqRecursiveSecond
<1>4. SubSeq(p, 1, n) \in Seq(S) /\ Len(SubSeq(p, 1, n)) = n /\ p[n + 1] \in S
  BY <1>2, FirstElements, ElementOfSeq
<1> QED BY <1>3, <1>4, AppendIsConcat

\* What the target has seen when it judges the proposal after the first i.
History(c, p, i) == c \o SubSeq(p, 1, i)

\* The first t proposals are what the target says after the ones before.
Agreed(ideal, c, p, t) ==
    \A i \in 0 .. t - 1 : IsStrictPrefix(History(c, p, i), ideal) =>
        p[i + 1] = ideal[Len(History(c, p, i)) + 1]

\* Proposals that each agree with what the target says after the ones before keep the
\* history one that the target would have produced.
LEMMA AgreedIsIdeal ==
    ASSUME NEW S, NEW ideal \in Seq(S), NEW c \in Seq(S), NEW p \in Seq(S), IsPrefix(c, ideal),
           NEW t \in 0 .. Len(p), Len(c) + t < Len(ideal),
           Agreed(ideal, c, p, t)
    PROVE  \A i \in 0 .. t : /\ History(c, p, i) \in Seq(S)
                             /\ Len(History(c, p, i)) = Len(c) + i
                             /\ IsPrefix(History(c, p, i), ideal)
<1> DEFINE h(i) == History(c, p, i)
           H == {n \in Nat : n <= t => h(n) \in Seq(S) /\ Len(h(n)) = Len(c) + n /\ IsPrefix(h(n), ideal)}
<1>1. Len(c) \in Nat /\ Len(p) \in Nat /\ Len(ideal) \in Nat /\ t \in Nat
  BY LenProperties
<1>2. 0 \in H
  <2>1. SubSeq(p, 1, 0) = <<>>
    BY SubSeqEmpty
  <2>2. h(0) = c
    BY <2>1, ConcatEmptySeq DEF History
  <2>3. Len(c) = Len(c) + 0
    BY <1>1
  <2> HIDE DEF h
  <2>4. h(0) \in Seq(S) /\ Len(h(0)) = Len(c) + 0 /\ IsPrefix(h(0), ideal)
    BY <2>2, <2>3
  <2> QED BY <2>4
<1>3. ASSUME NEW n \in Nat, n \in H PROVE n + 1 \in H
  <2> SUFFICES ASSUME n + 1 <= t
               PROVE  h(n + 1) \in Seq(S) /\ Len(h(n + 1)) = Len(c) + (n + 1) /\ IsPrefix(h(n + 1), ideal)
    OBVIOUS
  <2>1. n < Len(p) /\ n <= t /\ n \in 0 .. t - 1 /\ Len(c) + n < Len(ideal)
    BY <1>1
  <2>2. h(n) \in Seq(S) /\ Len(h(n)) = Len(c) + n /\ IsPrefix(h(n), ideal)
    BY <1>3, <2>1
  <2>3. /\ SubSeq(p, 1, n + 1) = Append(SubSeq(p, 1, n), p[n + 1])
        /\ SubSeq(p, 1, n) \in Seq(S) /\ p[n + 1] \in S
    BY <2>1, FirstAndNext
  <2>4. h(n + 1) = Append(h(n), p[n + 1])
    BY <2>3, JoinAppend DEF History
  <2>9. IsStrictPrefix(h(n), ideal) => p[n + 1] = ideal[Len(h(n)) + 1]
    BY <2>1 DEF Agreed
  <2> HIDE DEF h, H
  <2>5. /\ IsStrictPrefix(h(n), ideal)
        /\ IsPrefix(Append(h(n), ideal[Len(h(n)) + 1]), ideal)
    BY <2>1, <2>2, ExtendedPrefix
  <2>6. IsPrefix(h(n + 1), ideal)
    BY <2>4, <2>5, <2>9
  <2>7. h(n + 1) \in Seq(S) /\ Len(h(n + 1)) = Len(h(n)) + 1
    <3>1. h(n) \in Seq(S) /\ p[n + 1] \in S
      BY <2>2, <2>3
    <3>2. PICK g \in Seq(S), x \in S : g = h(n) /\ x = p[n + 1]
      BY <3>1
    <3>3. Append(g, x) \in Seq(S) /\ Len(Append(g, x)) = Len(g) + 1
      BY AppendProperties
    <3> QED BY <3>2, <3>3, <2>4
  <2>8. Len(h(n)) + 1 = Len(c) + (n + 1)
    BY <2>2, <1>1
  <2> QED BY <2>6, <2>7, <2>8
<1> HIDE DEF H
<1>4. \A n \in Nat : n \in H
  BY <1>2, <1>3, InductionOnNat
<1> USE DEF H
<1>5. ASSUME NEW i \in 0 .. t
      PROVE  h(i) \in Seq(S) /\ Len(h(i)) = Len(c) + i /\ IsPrefix(h(i), ideal)
  <2>1. i \in Nat /\ i <= t
    BY <1>1
  <2> QED BY <2>1, <1>4
<1> QED BY <1>5

-----------------------------------------------------------------------------
(* The loop of generate.                                                   *)

\* While the loop goes on each model has ingested some of the context; the block that ends
\* it may leave the caches longer than the context, and nothing reads them again.
DecoderInv ==
    /\ job \in DecoderJobs
    /\ chain \in [1 .. job.budget + 1 -> Tokens]
    /\ context \in Seq(Tokens) /\ Len(Prompt) <= Len(context)
    /\ stats \in [target_calls : Nat, draft_calls : Nat, proposed : Nat, accepted : Nat, generated : Nat]
    /\ Generating => targetIngested \in 0 .. Len(context) /\ draftIngested \in 0 .. Len(context)
    /\ SpeculationIsLossless

\* The loop starts with the prompt and two empty caches.
LEMMA DecoderStarts ==
    ASSUME DecoderInit(DecoderJobs, Tokens)
    PROVE  DecoderInv
<1> USE DecoderAssumption DEF DecoderInit
<1>1. Len(Prompt) \in Nat /\ job.budget \in Nat
  BY LenProperties DEF DecoderJobs
<1>2. Generated = 0
  BY <1>1 DEF Generated
<1>3. SubSeq(Prompt, 1, 0) = <<>>
  BY SubSeqEmpty
<1>4. chain \in Seq(Tokens) /\ Len(chain) = job.budget + 1
  BY <1>1, IsASeq, LenProperties
<1>5. IsPrefix(Prompt, Prompt \o chain)
  <2> DEFINE i == Prompt \o chain
  <2>1. chain \in Seq(Tokens)
    BY <1>4
  <2>2. /\ i \in Seq(Tokens) /\ Len(i) = Len(Prompt) + Len(chain)
        /\ \A k \in 1 .. Len(Prompt) : i[k] = Prompt[k]
    BY <2>1, ConcatElements
  <2>3. Len(Prompt) <= Len(i)
    BY <2>2, <1>1, <1>4
  <2> HIDE DEF i
  <2>4. IsPrefix(Prompt, i)
    BY <2>2, <2>3, PrefixElements
  <2> QED BY <2>4 DEF i
<1>6. SpeculationIsLossless
  BY <1>1, <1>2, <1>3, <1>5 DEF SpeculationIsLossless, NoStats, Ideal
<1>7. stats \in [target_calls : Nat, draft_calls : Nat, proposed : Nat, accepted : Nat, generated : Nat]
  BY DEF NoStats
<1> QED BY <1>1, <1>6, <1>7 DEF DecoderInv

\* The tokens of the loop: before a block, within it and in its verdict.
BlockFacts(p, a, v) ==
    /\ p \in Seq(Tokens) /\ Len(p) \in Nat \ {0} /\ Len(p) <= ToGo
    /\ ToGo \in Nat /\ Len(context) + ToGo = Len(Prompt) + job.budget
    /\ Fed(p) = context \o p
    /\ Drafted(p) = context \o SubSeq(p, 1, Len(p) - 1)
    /\ v.taken \in 0 .. Len(p) /\ v.replacement \in Tokens
    /\ job.greedy => /\ v.replacement = TargetSays(History(context, p, v.taken), a)
                     /\ \A i \in 0 .. v.taken - 1 :
                          p[i + 1] = TargetSays(History(context, p, i), a)

\* The target alone would produce one token more than the budget.
LEMMA IdealIsSeq ==
    ASSUME DecoderInv
    PROVE  Ideal \in Seq(Tokens) /\ Len(Ideal) = Len(Prompt) + job.budget + 1
<1>1. Len(Prompt) \in Nat /\ job.budget \in Nat /\ Prompt \in Seq(Tokens)
  BY DecoderAssumption, LenProperties DEF DecoderInv, DecoderJobs
<1>4. chain \in [1 .. job.budget + 1 -> Tokens] /\ job.budget + 1 \in Nat
  BY <1>1 DEF DecoderInv
<1>2. chain \in Seq(Tokens) /\ Len(chain) = job.budget + 1
  BY <1>4, IsASeq, LenProperties
<1>3. Ideal \in Seq(Tokens) /\ Len(Ideal) = Len(Prompt) + Len(chain)
  BY <1>1, <1>2, ConcatElements DEF Ideal
<1> QED BY <1>1, <1>2, <1>3

\* Whatever the target is asked, it answers with a token.
LEMMA TargetSaysToken ==
    ASSUME DecoderInv, NEW h \in Seq(Tokens), NEW a \in Tokens
    PROVE  TargetSays(h, a) \in Tokens
<1> SUFFICES ASSUME IsStrictPrefix(h, Ideal) PROVE Ideal[Len(h) + 1] \in Tokens
  BY DEF TargetSays
<1>1. Ideal \in Seq(Tokens)
  BY IdealIsSeq
<1>2. PICK i \in Seq(Tokens) : i = Ideal
  BY <1>1
<1>3. IsPrefix(h, i) /\ h # i
  BY <1>2 DEF IsStrictPrefix
<1>4. Len(h) # Len(i)
  <2>1. SUFFICES ASSUME Len(h) = Len(i) PROVE FALSE
    OBVIOUS
  <2>2. \A k \in 1 .. Len(h) : h[k] = i[k]
    BY <1>3, PrefixElements
  <2> QED BY <1>3, <2>1, <2>2, SeqEqual
<1>5. Len(h) \in Nat /\ Len(i) \in Nat /\ Len(h) <= Len(i)
  BY <1>3, LenProperties, PrefixElements
<1>6. Len(h) + 1 \in 1 .. Len(i)
  BY <1>4, <1>5
<1> QED BY <1>2, <1>6, ElementOfSeq

\* What a block works on and what _verify may answer.
LEMMA BlockTokens ==
    ASSUME DecoderInv, Generating, NEW p \in [1 .. Span -> Tokens], NEW a \in Tokens,
           NEW v \in Verdicts(p, a)
    PROVE  BlockFacts(p, a, v)
<1> USE DecoderAssumption
<1>1. /\ Len(Prompt) \in Nat /\ Len(context) \in Nat /\ job.budget \in Nat
      /\ job.lookahead \in Nat \ {0} /\ job.greedy \in BOOLEAN
  BY LenProperties DEF DecoderInv, DecoderJobs
<1>2. ToGo \in Nat \ {0} /\ Len(context) + ToGo = Len(Prompt) + job.budget
  <2>1. PICK prompt \in Nat, len \in Nat, budget \in Nat :
          prompt = Len(Prompt) /\ len = Len(context) /\ budget = job.budget
    BY <1>1
  <2>2. ToGo = budget - (len - prompt) /\ len - prompt < budget
    BY <2>1 DEF ToGo, Generated, Generating
  <2>3. budget - (len - prompt) \in Nat \ {0} /\ len + (budget - (len - prompt)) = prompt + budget
    BY <2>2
  <2> QED BY <2>1, <2>2, <2>3
<1>3. Span \in Nat \ {0} /\ Span <= ToGo
  BY <1>1, <1>2 DEF Span
<1>4. p \in Seq(Tokens) /\ Len(p) = Span
  BY <1>3, IsASeq, LenProperties
<1>5. Fed(p) = context \o p
  <2>1. context \in Seq(Tokens) /\ targetIngested \in 0 .. Len(context) /\ targetCache = SubSeq(context, 1, targetIngested)
    BY DEF DecoderInv, SpeculationIsLossless
  <2>2. SubSeq(context, 1, targetIngested) \o SubSeq(context, targetIngested + 1, Len(context)) = context
    BY <2>1, CutAndJoin
  <2> QED BY <2>1, <2>2 DEF Fed
<1>6. Drafted(p) = context \o SubSeq(p, 1, Len(p) - 1)
  <2>1. context \in Seq(Tokens) /\ draftIngested \in 0 .. Len(context) /\ draftCache = SubSeq(context, 1, draftIngested)
    BY DEF DecoderInv, SpeculationIsLossless
  <2>2. SubSeq(p, 1, Len(p) - 1) \in Seq(Tokens)
    BY <1>3, <1>4, FirstElements
  <2>3. PICK q \in Seq(Tokens) : q = SubSeq(p, 1, Len(p) - 1)
    BY <2>2
  <2>4. SubSeq(context, 1, draftIngested) \o SubSeq(context, draftIngested + 1, Len(context)) = context
    BY <2>1, CutAndJoin
  <2> QED BY <2>1, <2>3, <2>4 DEF Drafted, Front
<1> DEFINE h(i) == History(context, p, i)
<1>7. ASSUME NEW i \in 0 .. Len(p)
      PROVE  h(i) \in Seq(Tokens) /\ Answer(p, i, a) = TargetSays(h(i), a)
  <2>1. context \in Seq(Tokens)
    BY DEF DecoderInv
  <2>2. Len(context \o p) = Len(context) + Len(p)
    BY <2>1, <1>4, ConcatElements
  <2>3. Len(context \o p) - Len(p) + i = Len(context) + i
    BY <2>2, <1>1, <1>3, <1>4
  <2>4. Kept(context, p, Len(context) + i) = h(i)
    BY <2>1, <1>4, CutJoin DEF History
  <2>5. SubSeq(p, 1, i) \in Seq(Tokens)
    BY <1>4, FirstElements
  <2>6. h(i) \in Seq(Tokens)
    BY <2>1, <2>5, ConcatElements DEF History
  <2> QED BY <2>3, <2>4, <2>6, <1>5 DEF Answer, Kept
<1> HIDE DEF h
<1>8. /\ v.taken \in 0 .. Len(p) /\ v.replacement \in Tokens
      /\ job.greedy => /\ v.replacement = TargetSays(h(v.taken), a)
                       /\ \A i \in 0 .. v.taken - 1 : p[i + 1] = TargetSays(h(i), a)
  <2>1. CASE ~job.greedy
    <3>1. v \in [taken : 0 .. Len(p), replacement : Tokens]
      BY <2>1 DEF Verdicts
    <3> QED BY <2>1, <3>1
  <2>2. CASE job.greedy
    <3> DEFINE Ends == {i \in 0 .. Len(p) : i = Len(p) \/ Answer(p, i, a) # p[i + 1]}
               first == Min(Ends)
    <3>1. v = [taken |-> first, replacement |-> Answer(p, first, a)]
      BY <2>2 DEF Verdicts
    <3>2. Ends \subseteq Nat /\ Len(p) \in Ends
      BY <1>3, <1>4
    <3>3. first \in Ends /\ \A y \in Ends : first <= y
      <4> HIDE DEF Ends
      <4>1. \E x \in Ends : \A y \in Ends : x <= y
        BY <3>2, LeastNat
      <4> QED BY <4>1 DEF Min
    <3>4. first \in 0 .. Len(p)
      BY <3>3
    <3> HIDE DEF first
    <3>5. ASSUME NEW i \in 0 .. first - 1 PROVE p[i + 1] = TargetSays(h(i), a)
      <4>1. i \in 0 .. Len(p) /\ ~(first <= i)
        BY <3>4, <1>3, <1>4
      <4>2. i \notin Ends
        BY <4>1, <3>3
      <4>3. Answer(p, i, a) = p[i + 1]
        BY <4>1, <4>2
      <4> QED BY <4>1, <4>3, <1>7
    <3>6. Answer(p, first, a) = TargetSays(h(first), a) /\ TargetSays(h(first), a) \in Tokens
      BY <3>4, <1>7, TargetSaysToken
    <3>7. v.taken = first /\ v.replacement = Answer(p, first, a)
      BY <3>1
    <3> HIDE DEF Ends
    <3> QED BY <3>4, <3>5, <3>6, <3>7
  <2> QED BY <2>1, <2>2
<1> QED BY <1>2, <1>3, <1>4, <1>5, <1>6, <1>8 DEF BlockFacts, h

\* The smaller of two numbers.
LEMMA MinOfTwo ==
    ASSUME NEW x \in Nat, NEW y \in Nat
    PROVE  Min({x, y}) = IF x <= y THEN x ELSE y
<1> DEFINE low == IF x <= y THEN x ELSE y
<1>1. low \in {x, y} /\ \A z \in {x, y} : low <= z
  OBVIOUS
<1>2. \A w \in {x, y} : (\A z \in {x, y} : w <= z) => w = low
  OBVIOUS
<1> QED BY <1>1, <1>2 DEF Min

\* Cutting back by a count leaves the first wanted tokens.
LEMMA CropCuts ==
    ASSUME NEW S, NEW q \in Seq(S), NEW w \in 0 .. Len(q)
    PROVE  Crop(q, Len(q), w) = SubSeq(q, 1, w)
<1>1. Len(q) \in Nat
  BY LenProperties
<1>2. CASE Len(q) > w
  <2>1. Len(q) - (Len(q) - w) = w
    BY <1>1
  <2> QED BY <1>2, <2>1 DEF Crop
<1>3. CASE ~(Len(q) > w)
  <2>1. w = Len(q)
    BY <1>1, <1>3
  <2> QED BY <1>3, <2>1, SubSeqFull DEF Crop
<1> QED BY <1>2, <1>3

\* A greedy block continues the context as the target would.
LEMMA BlockIsIdeal ==
    ASSUME DecoderInv, NEW p, NEW a \in Tokens, NEW v, BlockFacts(p, a, v), job.greedy
    PROVE  IsPrefix(context \o BlockOf(p, v.taken, v.replacement), Ideal)
<1>1. /\ context \in Seq(Tokens) /\ p \in Seq(Tokens) /\ v.taken \in 0 .. Len(p)
      /\ v.replacement \in Tokens
  BY DEF DecoderInv, BlockFacts
<1>2. PICK c \in Seq(Tokens), t \in 0 .. Len(p), r \in Tokens :
        c = context /\ t = v.taken /\ r = v.replacement
  BY <1>1
<1>3. PICK ideal \in Seq(Tokens) : ideal = Ideal
  BY IdealIsSeq
<1>4. IsPrefix(c, ideal)
  BY <1>2, <1>3 DEF DecoderInv, SpeculationIsLossless
<1>5. Len(c) + t < Len(ideal)
  <2>1. /\ Len(ideal) = Len(Prompt) + job.budget + 1
        /\ Len(c) + ToGo = Len(Prompt) + job.budget /\ Len(p) <= ToGo /\ ToGo \in Nat
    BY <1>2, <1>3, IdealIsSeq DEF BlockFacts
  <2>2. Len(c) \in Nat /\ Len(p) \in Nat /\ Len(ideal) \in Nat /\ Len(Prompt) \in Nat /\ job.budget \in Nat
    BY <1>1, LenProperties, DecoderAssumption DEF DecoderInv, DecoderJobs
  <2> QED BY <2>1, <2>2
<1>6. /\ r = TargetSays(History(c, p, t), a)
      /\ \A i \in 0 .. t - 1 : p[i + 1] = TargetSays(History(c, p, i), a)
  BY <1>2 DEF BlockFacts
<1>7. Agreed(ideal, c, p, t)
  BY <1>3, <1>6 DEF TargetSays, Agreed
<1>8. PICK h \in Seq(Tokens) :
        h = History(c, p, t) /\ Len(h) = Len(c) + t /\ IsPrefix(h, ideal)
  <2>1. t \in 0 .. t
    BY <1>1, LenProperties
  <2>2. p \in Seq(Tokens)
    BY <1>1
  <2>3. \A i \in 0 .. t : /\ History(c, p, i) \in Seq(Tokens)
                         /\ Len(History(c, p, i)) = Len(c) + i
                         /\ IsPrefix(History(c, p, i), ideal)
    BY <1>4, <1>5, <1>7, <2>2, AgreedIsIdeal
  <2> QED BY <2>1, <2>3
<1>9. /\ IsStrictPrefix(h, ideal)
      /\ IsPrefix(Append(h, ideal[Len(h) + 1]), ideal)
  BY <1>5, <1>8, ExtendedPrefix
<1>10. r = ideal[Len(h) + 1]
  BY <1>3, <1>6, <1>8, <1>9 DEF TargetSays
<1>11. Append(h, r) = c \o Append(SubSeq(p, 1, t), r)
  <2>1. PICK q \in Seq(Tokens) : q = SubSeq(p, 1, t)
    BY <1>1, FirstElements
  <2>2. c \o Append(q, r) = Append(c \o q, r)
    BY JoinAppend
  <2> QED BY <1>8, <2>1, <2>2 DEF History
<1> QED BY <1>2, <1>3, <1>9, <1>10, <1>11 DEF BlockOf

\* A cache of the context and n proposals cut back to w tokens.
CutBack(c, p, n, w) == Crop(c \o SubSeq(p, 1, n), Len(c) + n, w)

\* A cache cut back to the accepted proposals, or further, holds what the settled context
\* begins with.
LEMMA CachesCutBack ==
    ASSUME NEW S, NEW c \in Seq(S), NEW p \in Seq(S), NEW t \in 0 .. Len(p), NEW r \in S,
           NEW n \in 0 .. Len(p), NEW w \in Nat, w <= Len(c) + t, w <= Len(c) + n
    PROVE  CutBack(c, p, n, w) = Kept(c, BlockOf(p, t, r), w)
<1> DEFINE q == SubSeq(p, 1, n)
           b == BlockOf(p, t, r)
<1>1. q \in Seq(S) /\ Len(q) = n /\ \A i \in 1 .. n : q[i] = p[i]
  BY FirstElements
<1>2. b \in Seq(S) /\ Len(b) = t + 1 /\ \A i \in 1 .. t : b[i] = p[i]
  BY BlockElements
<1> HIDE DEF q, b
<1>3. Len(c) \in Nat /\ Len(p) \in Nat /\ t \in Nat /\ n \in Nat
  BY LenProperties
<1>4. w <= Len(c) + Len(q) /\ w <= Len(c) + Len(b)
  BY <1>1, <1>2, <1>3
<1>5. ASSUME NEW k \in Nat, k \in 1 .. Len(q), k \in 1 .. Len(b), Len(c) + k <= w
      PROVE  q[k] = b[k]
  <2>1. k \in 1 .. n /\ k \in 1 .. t
    BY <1>5, <1>1, <1>2, <1>3
  <2> QED BY <2>1, <1>1, <1>2
<1>6. q \in Seq(S) /\ b \in Seq(S)
  BY <1>1, <1>2
<1>7. Kept(c, q, w) = Kept(c, b, w)
  BY <1>4, <1>5, <1>6, EqualJoins
<1>8. c \o q \in Seq(S) /\ Len(c \o q) = Len(c) + Len(q)
  BY <1>6, ConcatElements
<1>9. w \in 0 .. Len(c \o q)
  BY <1>1, <1>3, <1>8
<1>10. Crop(c \o q, Len(c \o q), w) = SubSeq(c \o q, 1, w)
  BY <1>8, <1>9, CropCuts
<1> QED BY <1>1, <1>7, <1>8, <1>10 DEF q, b, CutBack, Kept

\* Settling a block keeps the invariant.
LEMMA SettleKeeps ==
    ASSUME DecoderInv, NEW p, NEW a \in Tokens, NEW v, BlockFacts(p, a, v), Settle(p, v),
           UNCHANGED <<job, chain>>
    PROVE  DecoderInv'
<1>2. Settle(p, v)
  OBVIOUS
<1>3. BlockFacts(p, a, v)
  OBVIOUS
<1>1. PICK c \in Seq(Tokens), t \in 0 .. Len(p), r \in Tokens :
        c = context /\ t = v.taken /\ r = v.replacement
  BY <1>3 DEF BlockFacts, DecoderInv
<1>4. PICK b : c = context /\ t = v.taken /\ r = v.replacement /\ b = BlockOf(p, t, r)
  BY <1>1
<1>5. PICK togo \in Nat, span \in Nat \ {0}, budget \in Nat, prompt \in Nat, len \in Nat :
        /\ togo = ToGo /\ span = Len(p) /\ budget = job.budget /\ prompt = Len(Prompt)
        /\ len = Len(c)
  BY <1>3, DecoderAssumption, LenProperties DEF BlockFacts, DecoderInv, DecoderJobs
<1>6. len + togo = prompt + budget /\ span <= togo /\ t \in 0 .. span /\ p \in Seq(Tokens)
  BY <1>3, <1>4, <1>5 DEF BlockFacts
<1>7. b \in Seq(Tokens) /\ Len(b) = t + 1
  <2>1. p \in Seq(Tokens)
    BY <1>6
  <2>2. BlockOf(p, t, r) \in Seq(Tokens) /\ Len(BlockOf(p, t, r)) = t + 1
    BY <2>1, BlockElements
  <2> QED BY <2>2, <1>4
<1>8. PICK m \in Nat : m = Min({Len(b), ToGo}) /\ m = IF t + 1 <= togo THEN t + 1 ELSE togo
  <2>1. t + 1 \in Nat
    OBVIOUS
  <2>2. Min({t + 1, togo}) = IF t + 1 <= togo THEN t + 1 ELSE togo
    BY <2>1, MinOfTwo
  <2> QED BY <2>1, <2>2, <1>5, <1>7
<1>9. m \in 0 .. Len(b) /\ m <= togo /\ m >= 1
  BY <1>5, <1>6, <1>7, <1>8
<1>10. PICK s \in Seq(Tokens) : s = SubSeq(b, 1, m) /\ Len(s) = m
  BY <1>7, <1>9, FirstElements
<1>11. context' = c \o s
  BY <1>2, <1>4, <1>8, <1>10 DEF Settle, BlockOf
<1>12. context' \in Seq(Tokens) /\ Len(context') = len + m
  BY <1>5, <1>10, <1>11, ConcatElements
<1>13. UNCHANGED <<job, chain>>
  OBVIOUS
<1>14. Generated = len - prompt /\ Generated' = len + m - prompt /\ Len(Prompt) <= len
  BY <1>4, <1>5, <1>12, <1>13 DEF Generated, DecoderInv
<1> DEFINE w == DraftPosition(len + span - 1, len + t)
<1>15. w \in Nat /\ w <= len + t /\ w <= len + (span - 1) /\ len + t \in Nat
  <2>1. t \in Nat /\ len + span - 1 = len + (span - 1) /\ len + (span - 1) \in Nat /\ len + t \in Nat
    BY <1>6
  <2> QED BY <2>1 DEF DraftPosition
<1> HIDE DEF w
<1>16. /\ targetIngested' = len + t
       /\ targetCache' = Crop(c \o p, len + span, len + t)
       /\ draftIngested' = w
       /\ draftCache' = Crop(c \o SubSeq(p, 1, span - 1), len + span - 1, w)
  BY <1>2, <1>3, <1>4, <1>5 DEF Settle, BlockFacts, w
<1>17. job.greedy => IsPrefix(context', Ideal')
  <2> SUFFICES ASSUME job.greedy PROVE IsPrefix(context', Ideal)
    BY <1>13 DEF Ideal
  <2>1. IsPrefix(c \o b, Ideal)
    BY <1>3, <1>4, BlockIsIdeal
  <2>2. context' = SubSeq(c \o b, 1, len + m)
    <3>1. b \in Seq(Tokens) /\ m \in 0 .. Len(b)
      BY <1>7, <1>9
    <3>2. Kept(c, b, Len(c) + m) = c \o SubSeq(b, 1, m)
      BY <3>1, CutJoin
    <3> QED BY <3>2, <1>5, <1>10, <1>11 DEF Kept
  <2>3. c \o b \in Seq(Tokens) /\ Len(c \o b) = len + Len(b)
    BY <1>5, <1>7, ConcatElements
  <2>4. PICK u \in Seq(Tokens), i \in Seq(Tokens) : u = c \o b /\ i = Ideal
    BY <2>3, IdealIsSeq
  <2>5. len + m \in 0 .. Len(u)
    BY <2>3, <2>4, <1>5, <1>7, <1>9
  <2>6. IsPrefix(SubSeq(u, 1, len + m), i)
    BY <2>1, <2>4, <2>5, CutOfPrefix
  <2> QED BY <2>2, <2>4, <2>6
<1>18. ASSUME Generating'
       PROVE  /\ targetIngested' \in 0 .. Len(context') /\ draftIngested' \in 0 .. Len(context')
              /\ targetCache' = SubSeq(context', 1, targetIngested')
              /\ draftCache' = SubSeq(context', 1, draftIngested')
  <2>1. len + m - prompt < budget
    BY <1>18, <1>5, <1>13, <1>14 DEF Generating
  <2>2. m = t + 1
    <3>1. m < togo
      BY <2>1, <1>6
    <3>2. t \in Nat
      OBVIOUS
    <3> QED BY <3>1, <3>2, <1>8
  <2>3. context' = c \o b
    BY <2>2, <1>7, <1>10, <1>11, SubSeqFull
  <2>4. targetIngested' \in 0 .. Len(context') /\ draftIngested' \in 0 .. Len(context')
    BY <2>2, <1>5, <1>6, <1>12, <1>15, <1>16
  <2>5. targetCache' = SubSeq(context', 1, len + t)
    <3>0. span \in 0 .. Len(p)
      BY <1>5
    <3>1. PICK n \in 0 .. Len(p), k \in Nat : n = span /\ k = len + t
      BY <3>0, <1>15
    <3>2. k <= Len(c) + t /\ k <= Len(c) + n
      BY <3>1, <1>5, <1>6
    <3>3. p \in Seq(Tokens)
      BY <1>6
    <3>4. CutBack(c, p, n, k) = Kept(c, BlockOf(p, t, r), k)
      BY <3>2, <3>3, CachesCutBack
    <3>5. SubSeq(p, 1, n) = p
      BY <3>1, <3>3, <1>5, SubSeqFull
    <3> QED BY <3>1, <3>4, <3>5, <2>3, <1>4, <1>5, <1>16 DEF CutBack, Kept
  <2>6. draftCache' = SubSeq(context', 1, w)
    <3>0. span - 1 \in 0 .. Len(p)
      BY <1>5
    <3>1. PICK n \in 0 .. Len(p), k \in Nat : n = span - 1 /\ k = w
      BY <3>0, <1>15
    <3>2. k <= Len(c) + t /\ k <= Len(c) + n
      BY <3>1, <1>5, <1>15
    <3>3. p \in Seq(Tokens)
      BY <1>6
    <3>4. CutBack(c, p, n, k) = Kept(c, BlockOf(p, t, r), k)
      BY <3>2, <3>3, CachesCutBack
    <3>5. Len(c) + n = len + span - 1
      BY <3>1, <1>5
    <3> QED BY <3>1, <3>4, <3>5, <2>3, <1>4, <1>16 DEF CutBack, Kept
  <2> QED BY <2>4, <2>5, <2>6, <1>16
<1>19. /\ stats' \in [target_calls : Nat, draft_calls : Nat, proposed : Nat, accepted : Nat, generated : Nat]
       /\ stats'.generated = stats.generated + m
       /\ stats'.target_calls = stats.target_calls + 1
       /\ stats'.accepted = stats.accepted + t
       /\ stats'.proposed = stats.proposed + span
  <2>1. stats' = [target_calls |-> stats.target_calls + 1, draft_calls |-> stats.draft_calls + span,
                  proposed |-> stats.proposed + span, accepted |-> stats.accepted + t,
                  generated |-> stats.generated + m]
    BY <1>2, <1>4, <1>5, <1>8, <1>10 DEF Settle, BlockOf
  <2>2. t \in Nat
    OBVIOUS
  <2>3. /\ stats.target_calls \in Nat /\ stats.draft_calls \in Nat /\ stats.proposed \in Nat
        /\ stats.accepted \in Nat /\ stats.generated \in Nat
    BY DEF DecoderInv
  <2>4. /\ stats.target_calls + 1 \in Nat /\ stats.draft_calls + span \in Nat
        /\ stats.proposed + span \in Nat /\ stats.accepted + t \in Nat /\ stats.generated + m \in Nat
    <3>1. \A x, y \in Nat : x + y \in Nat
      OBVIOUS
    <3> QED BY <2>2, <2>3, <3>1
  <2> QED BY <2>1, <2>4
<1>20. /\ Generated' <= job.budget /\ stats'.generated = Generated'
       /\ stats'.target_calls <= Generated' /\ stats'.accepted <= stats'.proposed
  <2>1. /\ stats.generated = Generated /\ stats.target_calls <= Generated
        /\ stats.accepted <= stats.proposed
    BY DEF DecoderInv, SpeculationIsLossless
  <2>2. /\ stats.target_calls \in Nat /\ stats.proposed \in Nat
        /\ stats.accepted \in Nat /\ stats.generated \in Nat
    BY DEF DecoderInv
  <2>3. PICK calls \in Nat, proposed \in Nat, accepted \in Nat, before \in Nat, after \in Int :
          /\ calls = stats.target_calls /\ proposed = stats.proposed /\ accepted = stats.accepted
          /\ before = Generated /\ after = Generated'
    BY <2>1, <2>2, <1>14
  <2>4. before = len - prompt /\ after = len + m - prompt
    BY <2>3, <1>14
  <2>5. /\ calls <= before /\ accepted <= proposed
        /\ after = before + m /\ after <= budget
    BY <2>1, <2>3, <2>4, <1>6, <1>9
  <2>6. calls + 1 <= after /\ accepted + t <= proposed + span
    BY <2>5, <1>6, <1>9
  <2> QED BY <2>1, <2>3, <2>5, <2>6, <1>5, <1>19
<1>21. SpeculationIsLossless'
  BY <1>13, <1>17, <1>18, <1>20 DEF SpeculationIsLossless
<1>22. Len(Prompt) <= Len(context')
  BY <1>5, <1>12, <1>14
<1> QED BY <1>12, <1>13, <1>18, <1>19, <1>21, <1>22 DEF DecoderInv

\* Every block of the loop keeps the invariant.
LEMMA BlockKeeps ==
    ASSUME DecoderInv, Block
    PROVE  DecoderInv'
<1>1. PICK p \in [1 .. Span -> Tokens], a \in Tokens : \E v \in Verdicts(p, a) : Settle(p, v)
  BY DEF Block
<1>2. PICK v \in Verdicts(p, a) : Settle(p, v)
  BY <1>1
<1>3. BlockFacts(p, a, v)
  BY <1>1, <1>2, BlockTokens DEF Block
<1>4. UNCHANGED <<job, chain>>
  BY DEF Block
<1> QED BY <1>2, <1>3, <1>4, SettleKeeps

\* Whatever the draft proposes and however the two models' caches are cut back, the loop of
\* generate with a greedy target yields what the target alone would.
THEOREM SpeculationTheorem == DecoderSpec => []SpeculationIsLossless
<1>1. DecoderInit(DecoderJobs, Tokens) => DecoderInv
  BY DecoderStarts
<1>2. DecoderInv /\ [Block]_decoderVars => DecoderInv'
  <2>1. ASSUME DecoderInv, UNCHANGED decoderVars PROVE DecoderInv'
    BY <2>1 DEF DecoderInv, decoderVars, SpeculationIsLossless, Generating, Generated, Ideal
  <2> QED BY <2>1, BlockKeeps
<1>3. DecoderInv => SpeculationIsLossless
  BY DEF DecoderInv
<1> QED BY <1>1, <1>2, <1>3, PTL DEF DecoderSpec

-----------------------------------------------------------------------------
(* The way of the settings.                                                *)

\* What _config_from resolved is a valid configuration, whose queue holds a batch: that is
\* why widening it again in the server changes nothing.  The environment is that configuration.
ConfigurationInv ==
    /\ launch \in Launches
    /\ stage \in {"flags", "resolved", "environment", "configured", "serving", "raised"}
    /\ stage = "flags" => resolved = None
    /\ stage \in {"resolved", "environment", "configured", "serving"} =>
         /\ resolved \in EngineConfigs /\ Valid(resolved)
         /\ resolved.floats # {} => launch.file # None /\ launch.file.floats # {}
    /\ stage \in {"environment", "configured", "serving"} => environ = Export
    /\ LaunchKeepsSettings

\* Widening is choosing between the batch and the capacity, and leaves the rest alone.
LEMMA WidenedFields ==
    ASSUME NEW chosen \in EngineConfigs
    PROVE  /\ Widened(chosen) \in EngineConfigs
           /\ Widened(chosen).model = chosen.model
           /\ Widened(chosen).batch = chosen.batch
           /\ Widened(chosen).capacity = IF chosen.batch > chosen.capacity THEN chosen.batch
                                         ELSE chosen.capacity
           /\ chosen.floats = {} => Widened(chosen).floats = {}
<1>1. PICK floats : floats = IF "batch" \in chosen.floats THEN {"batch", "capacity"} ELSE {}
  OBVIOUS
<1>2. floats \in SUBSET {"batch", "capacity"} /\ (chosen.floats = {} => floats = {})
  BY <1>1
<1>3. PICK wide : wide = [chosen EXCEPT !.capacity = chosen.batch, !.floats = floats]
  OBVIOUS
<1>4. /\ wide \in EngineConfigs /\ wide.model = chosen.model /\ wide.batch = chosen.batch
      /\ wide.capacity = chosen.batch /\ wide.floats = floats
  BY <1>2, <1>3 DEF EngineConfigs
<1>5. Widened(chosen) = IF chosen.batch > chosen.capacity THEN wide ELSE chosen
  BY <1>1, <1>3 DEF Widened
<1> QED BY <1>2, <1>4, <1>5

\* What flags and file are merged into is a configuration, and has floats from the file only.
LEMMA MergedIsConfig ==
    ASSUME NEW flags \in Flags
    PROVE  /\ FromFlags(flags) \in EngineConfigs /\ FromFlags(flags).floats = {}
           /\ \A file \in EngineConfigs :
                /\ Overridden(file, flags) \in EngineConfigs
                /\ Overridden(file, flags).floats \subseteq file.floats
<1>1. FromFlags(flags) \in EngineConfigs /\ FromFlags(flags).floats = {}
  BY ConfigurationAssumption DEF FromFlags, EngineConfigs, Flags
<1>2. ASSUME NEW file \in EngineConfigs
      PROVE  /\ Overridden(file, flags) \in EngineConfigs
             /\ Overridden(file, flags).floats \subseteq file.floats
  <2> DEFINE Chosen(f) == IF flags[f] # Defaults[f] THEN flags[f] ELSE file[f]
             floats == {f \in file.floats : flags[f] = Defaults[f]}
  <2>1. Chosen("model") \in Models /\ Chosen("batch") \in Sizes /\ Chosen("capacity") \in Sizes
    BY DEF EngineConfigs, Flags
  <2>2. floats \subseteq file.floats /\ floats \in SUBSET {"batch", "capacity"}
    BY DEF EngineConfigs
  <2> HIDE DEF Chosen, floats
  <2>3. PICK merged : merged = [file EXCEPT !.model = Chosen("model"), !.batch = Chosen("batch"),
                                            !.capacity = Chosen("capacity"), !.floats = floats]
    OBVIOUS
  <2>4. merged \in EngineConfigs /\ merged.floats = floats
    BY <2>1, <2>2, <2>3 DEF EngineConfigs
  <2>5. Overridden(file, flags) = merged
    BY <2>3 DEF Overridden, Chosen, floats
  <2> QED BY <2>2, <2>4, <2>5
<1> QED BY <1>1, <1>2

\* _config_from resolves a valid configuration or raises.
LEMMA ConfigFromKeeps ==
    ASSUME ConfigurationInv, ConfigFrom
    PROVE  ConfigurationInv'
<1>1. UNCHANGED <<launch, environ, settings, engine>> /\ stage = "flags" /\ resolved = None
  BY DEF ConfigFrom, ConfigurationInv
<1> DEFINE merged == IF launch.file = None THEN FromFlags(launch.flags)
                     ELSE Overridden(launch.file, launch.flags)
<1>2. /\ Widened(merged) \in EngineConfigs
      /\ Widened(merged).floats # {} => launch.file # None /\ launch.file.floats # {}
  <2>1. launch.flags \in Flags /\ (launch.file # None => launch.file \in EngineConfigs)
    BY DEF ConfigurationInv, Launches
  <2>2. /\ merged \in EngineConfigs
        /\ merged.floats # {} => launch.file # None /\ launch.file.floats # {}
    BY <2>1, MergedIsConfig
  <2> HIDE DEF merged
  <2> QED BY <2>2, WidenedFields
<1>3. \/ stage' = "raised" /\ resolved' = resolved
      \/ stage' = "resolved" /\ resolved' = Widened(merged) /\ Valid(Widened(merged))
  BY DEF ConfigFrom
<1> HIDE DEF merged
<1>4. \/ stage' = "raised" /\ resolved' = None
      \/ /\ stage' = "resolved" /\ resolved' \in EngineConfigs /\ Valid(resolved')
         /\ resolved'.floats # {} => launch.file # None /\ launch.file.floats # {}
  BY <1>1, <1>2, <1>3
<1>5. CASE stage' = "raised" /\ resolved' = None
  BY <1>1, <1>5 DEF ConfigurationInv, LaunchKeepsSettings
<1>6. CASE /\ stage' = "resolved" /\ resolved' \in EngineConfigs /\ Valid(resolved')
           /\ resolved'.floats # {} => launch.file # None /\ launch.file.floats # {}
  BY <1>1, <1>6 DEF ConfigurationInv, LaunchKeepsSettings, Valid
<1> QED BY <1>4, <1>5, <1>6

\* The second merge finds the same settings, and rejects only the inherited file and floats.
LEMMA FromEnvironmentKeeps ==
    ASSUME ConfigurationInv, ConfigFromEnvironment
    PROVE  ConfigurationInv'
<1>1. /\ UNCHANGED <<launch, resolved, environ, engine>> /\ stage = "environment"
      /\ resolved \in EngineConfigs /\ Valid(resolved) /\ environ = Export
  BY DEF ConfigFromEnvironment, ConfigurationInv
<1>2. /\ resolved.model \in Models /\ resolved.batch \in Int /\ resolved.capacity \in Int
      /\ resolved.batch \in Sizes /\ resolved.capacity \in Sizes
      /\ environ.model = resolved.model /\ environ.batch = resolved.batch
      /\ environ.capacity = resolved.capacity /\ environ.floats = resolved.floats
      /\ resolved.batch > 0 /\ resolved.capacity > 0 /\ resolved.capacity >= resolved.batch
  BY <1>1, ConfigurationAssumption DEF EngineConfigs, Export, Valid
<1> DEFINE base == IF launch.inherited = None THEN Defaults ELSE launch.inherited
           merged == [base EXCEPT !.model = environ.model, !.batch = environ.batch,
                                  !.capacity = environ.capacity, !.floats = {}]
           chosen == Widened(merged)
<1>3. base \in EngineConfigs
  BY ConfigurationAssumption DEF ConfigurationInv, Launches
<1> HIDE DEF base
<1>4. /\ merged \in EngineConfigs /\ merged.model = resolved.model /\ merged.batch = resolved.batch
      /\ merged.capacity = resolved.capacity
  BY <1>2, <1>3 DEF EngineConfigs
<1> HIDE DEF merged
<1>5. /\ chosen.model = resolved.model /\ chosen.batch = resolved.batch
      /\ chosen.capacity = IF resolved.batch > resolved.capacity THEN resolved.batch
                           ELSE resolved.capacity
  BY <1>4, WidenedFields
<1> HIDE DEF chosen
<1>6. chosen.capacity = resolved.capacity
  BY <1>2, <1>5
<1>7. Valid(chosen)
  BY <1>2, <1>5, <1>6 DEF Valid
<1>8. \/ stage' = "raised" /\ (~Loads(launch.inherited) \/ resolved.floats # {})
      \/ stage' = "configured" /\ settings' = chosen
  BY <1>2, <1>7 DEF ConfigFromEnvironment, chosen, merged, base
<1>9. environ' = Export'
  BY <1>1 DEF Export, Switched
<1>10. LaunchKeepsSettings'
  <2>1. CASE stage' = "raised" /\ (~Loads(launch.inherited) \/ resolved.floats # {})
    <3>1. ~Loads(launch.inherited) \/ (launch.file # None /\ launch.file.floats # {})
      BY <1>1, <2>1 DEF ConfigurationInv
    <3> QED BY <2>1, <3>1, <1>1 DEF LaunchKeepsSettings, Loads
  <2>2. CASE stage' = "configured" /\ settings' = chosen
    <3>1. \A f \in {"model", "batch", "capacity"} : chosen[f] = resolved[f]
      BY <1>5, <1>6
    <3>2. chosen.batch <= chosen.capacity
      BY <1>2, <1>5, <1>6
    <3> QED BY <2>2, <3>1, <3>2, <1>1 DEF LaunchKeepsSettings
  <2> QED BY <2>1, <2>2, <1>8
<1> QED BY <1>1, <1>8, <1>9, <1>10 DEF ConfigurationInv

\* For every pair of files, every flag, switch and default, what the command resolved is what
\* the engine runs with, and of what the command accepted the server rejects floats only.
THEOREM LaunchTheorem == ConfigurationSpec => []LaunchKeepsSettings
<1>1. ConfigurationInit(Launches) => ConfigurationInv
  BY DEF ConfigurationInit, ConfigurationInv, LaunchKeepsSettings
<1>2. ConfigurationInv /\ [ConfigurationNext]_configVars => ConfigurationInv'
  <2> SUFFICES ASSUME ConfigurationInv, [ConfigurationNext]_configVars PROVE ConfigurationInv'
    OBVIOUS
  <2>1. CASE ConfigFrom
    BY <2>1, ConfigFromKeeps
  <2>2. CASE Serve
    <3>1. /\ UNCHANGED <<launch, resolved, settings, engine>> /\ stage = "resolved"
          /\ stage' = "environment" /\ environ' = Export
      BY <2>2 DEF Serve
    <3>2. Export' = Export
      BY <3>1 DEF Export, Switched
    <3> QED BY <3>1, <3>2 DEF ConfigurationInv, LaunchKeepsSettings
  <2>3. CASE ConfigFromEnvironment
    BY <2>3, FromEnvironmentKeeps
  <2>4. CASE BuildEngine
    <3>1. /\ UNCHANGED <<launch, resolved, environ, settings>> /\ stage = "configured"
          /\ stage' = "serving"
      BY <2>4 DEF BuildEngine
    <3>2. Export' = Export /\ environ = Export
      BY <3>1 DEF Export, Switched, ConfigurationInv
    <3>3. /\ launch.flags.continuous => environ.continuous
          /\ launch.flags.echo => environ.echo
      BY <3>2 DEF Export, Switched
    <3>4. /\ launch.flags.continuous => engine'.class = "ContinuousEngine"
          /\ launch.flags.echo => engine'.runner = "echo"
      BY <2>4, <3>3 DEF BuildEngine
    <3> QED BY <3>1, <3>2, <3>4 DEF ConfigurationInv, LaunchKeepsSettings
  <2>5. CASE UNCHANGED configVars
    BY <2>5 DEF configVars, ConfigurationInv, LaunchKeepsSettings, Export, Switched, Loads, Valid
  <2> QED BY <2>1, <2>2, <2>3, <2>4, <2>5 DEF ConfigurationNext
<1>3. ConfigurationInv => LaunchKeepsSettings
  BY DEF ConfigurationInv
<1> QED BY <1>1, <1>2, <1>3, PTL DEF ConfigurationSpec

-----------------------------------------------------------------------------
(* Training: every micro-batch goes into one optimiser step.               *)

\* Whole divisions.
LEMMA Quotients ==
    ASSUME NEW a \in Nat, NEW b \in Nat \ {0}
    PROVE  a \div b \in Nat /\ (a >= b => a \div b # 0)
<1>1. PICK q, r : q = a \div b /\ r = a % b
  OBVIOUS
<1>2. q \in Int /\ r \in 0 .. b - 1 /\ a = b * q + r
  BY <1>1
<1>3. q >= 0
  <2>1. CASE q < 0
    <3>1. q + 1 <= 0 /\ b * (q + 1) <= 0
      BY <1>2, <2>1
    <3>2. b * (q + 1) = b * q + b
      BY <1>2
    <3> QED BY <1>2, <3>1, <3>2
  <2> QED BY <1>2, <2>1
<1>4. q = 0 => a < b
  BY <1>2
<1> QED BY <1>1, <1>2, <1>3, <1>4

\* A valid run over a corpus of a block or more has a micro-batch in every epoch.
LEMMA EpochLength ==
    ASSUME NEW c \in TrainConfigs, ValidTraining(c), Blocks(c) # 0
    PROVE  LoaderLength(c) \in Nat \ {0} /\ Blocks(c) \in Nat
<1>1. /\ c.docs \in Seq(Nat) /\ c.block \in Nat \ {0} /\ c.batch \in Nat \ {0}
  BY TrainingAssumption DEF ValidTraining
<1>2. PICK kept : kept = {i \in DOMAIN c.docs : c.docs[i] > 0}
  OBVIOUS
<1>3. PICK f : f = [i \in kept |-> c.docs[i] + 1]
  OBVIOUS
<1>4. IsFiniteSet(kept)
  <2>1. DOMAIN c.docs = 1 .. Len(c.docs) /\ Len(c.docs) \in Nat
    BY <1>1, LenProperties
  <2>2. IsFiniteSet(1 .. Len(c.docs))
    <3>1. 1 \in Int /\ Len(c.docs) \in Int
      BY <2>1
    <3> QED BY <3>1, FS_Interval
  <2> QED BY <1>2, <2>1, <2>2, FS_Subset
<1>5. Natural(f, kept)
  <2>1. \A i \in kept : c.docs[i] \in Nat
    BY <1>1, <1>2, ElementOfSeq, LenProperties
  <2> QED BY <1>3, <2>1 DEF Natural
<1>6. SumFunctionOnSet(f, kept) \in Nat
  BY <1>4, <1>5, SumNat
<1>7. StreamLength(c) = SumFunctionOnSet(f, kept)
  BY <1>2, <1>3 DEF StreamLength
<1>8. PICK n : n = Blocks(c)
  OBVIOUS
<1>9. n \in Nat /\ n # 0
  <2>1. StreamLength(c) \in Nat
    BY <1>6, <1>7
  <2>2. StreamLength(c) \div c.block \in Nat
    BY <1>1, <2>1, Quotients
  <2> QED BY <1>8, <2>2 DEF Blocks
<1>10. n + c.batch - 1 \in Nat /\ n + c.batch - 1 >= c.batch
  BY <1>1, <1>9
<1>11. (n + c.batch - 1) \div c.batch \in Nat \ {0}
  BY <1>1, <1>10, Quotients
<1> QED BY <1>8, <1>9, <1>11 DEF LoaderLength

Pairs == Int \X Int
TrainStates == [step : Nat, tokens_seen : Int]
OptimizerSteps == [gradient : Seq(Pairs), skipped : BOOLEAN]

TrainTypes ==
    /\ config \in TrainConfigs /\ state \in TrainStates
    /\ applied \in Seq(OptimizerSteps) /\ gradients \in Seq(Pairs)
    /\ epoch \in Nat /\ batch \in Nat

\* The steps in done are of a micro-batches each, and follow each other.
StepsExact(done, a, length) ==
    \A i \in 1 .. Len(done) : /\ Len(done[i].gradient) = a
                              /\ Consecutive(done[i].gradient, (i - 1) * a, length)

\* What was not applied yet comes after them; e and b are where the loops are.
Pending(done, sum, a, length) == Consecutive(sum, Len(done) * a, length)
Number(e, b, length) == e * length + b
LoopsExact(where, e, b, done, sum, a, length) ==
    /\ length \in Nat \ {0} /\ b < length
    /\ where = "train" => Number(e, b, length) = Len(done) * a + Len(sum) /\ Len(sum) < a
    /\ where = "step" => Number(e, b, length) + 1 = Len(done) * a + Len(sum) /\ Len(sum) = a

TrainInv ==
    /\ TrainTypes
    /\ StepsExact(applied, config.accum, LoaderLength(config))
    /\ trainer \in {"configure", "rejected"} => epoch = 0 /\ batch = 0 /\ gradients = <<>> /\ applied = <<>>
    /\ trainer # "crashed" => /\ Len(gradients) = accumulated /\ state.step = Len(applied)
                              /\ Pending(applied, gradients, config.accum, LoaderLength(config))
    /\ trainer \in {"train", "step"} =>
         /\ ValidTraining(config) /\ Blocks(config) # 0
         /\ LoopsExact(trainer, epoch, batch, applied, gradients, config.accum, LoaderLength(config))
    /\ trainer = "finished" => Checkpoint("final", state) \in saved

\* One more micro-batch is summed.
LEMMA OneMoreSummed ==
    ASSUME NEW sum \in Seq(Pairs), NEW m \in Pairs, NEW from \in Int, NEW length \in Nat,
           Consecutive(sum, from, length), IsNumber(m, from + Len(sum), length), NEW new, new = Append(sum, m)
    PROVE  Consecutive(new, from, length)
<1>1. PICK n : n = Len(sum)
  OBVIOUS
<1>2. n \in Nat /\ Len(new) = n + 1 /\ new[n + 1] = m /\ \A k \in 1 .. n : new[k] = sum[k]
  BY <1>1, AppendProperties, LenProperties
<1>3. SUFFICES ASSUME NEW k \in 1 .. n + 1 PROVE IsNumber(new[k], from + k - 1, length)
  BY <1>2 DEF Consecutive
<1>4. CASE k = n + 1
  <2>1. from + k - 1 = from + n
    BY <1>2, <1>4
  <2> QED BY <1>1, <1>2, <1>4, <2>1
<1>5. CASE k # n + 1
  <2>1. k \in 1 .. n
    BY <1>2, <1>5
  <2> QED BY <1>1, <1>2, <2>1 DEF Consecutive
<1> QED BY <1>4, <1>5

\* One more optimiser step is done.
LEMMA OneMoreStep ==
    ASSUME NEW done \in Seq(OptimizerSteps), NEW s \in OptimizerSteps, NEW a \in Int, NEW length \in Nat,
           StepsExact(done, a, length), Pending(done, s.gradient, a, length), Len(s.gradient) = a,
           NEW new, new = Append(done, s)
    PROVE  StepsExact(new, a, length)
<1>1. PICK n : n = Len(done)
  OBVIOUS
<1>2. n \in Nat /\ Len(new) = n + 1 /\ new[n + 1] = s /\ \A k \in 1 .. n : new[k] = done[k]
  BY <1>1, AppendProperties, LenProperties
<1>3. SUFFICES ASSUME NEW k \in 1 .. n + 1
               PROVE  Len(new[k].gradient) = a /\ Consecutive(new[k].gradient, (k - 1) * a, length)
  BY <1>2 DEF StepsExact
<1>4. CASE k = n + 1
  <2>1. (k - 1) * a = n * a
    BY <1>2, <1>4
  <2> QED BY <1>1, <1>2, <1>4, <2>1 DEF Pending
<1>5. CASE k # n + 1
  <2>1. k \in 1 .. n
    BY <1>2, <1>5
  <2> QED BY <1>1, <1>2, <2>1 DEF StepsExact
<1> QED BY <1>4, <1>5

\* The loops move to the next number, or end.
LEMMA NextNumber ==
    ASSUME NEW e \in Nat, NEW b \in Nat, NEW length \in Nat \ {0}, b < length
    PROVE  /\ b + 1 < length => Number(e, b + 1, length) = Number(e, b, length) + 1
           /\ ~(b + 1 < length) => Number(e + 1, 0, length) = Number(e, b, length) + 1
<1>1. Number(e, b + 1, length) = Number(e, b, length) + 1
  <2>1. PICK x : x = e * length
    OBVIOUS
  <2>2. x \in Nat
    BY <2>1
  <2> QED BY <2>1, <2>2 DEF Number
<1>2. ASSUME ~(b + 1 < length) PROVE Number(e + 1, 0, length) = Number(e, b, length) + 1
  <2>1. PICK x : x = e * length
    OBVIOUS
  <2>2. x \in Nat /\ (e + 1) * length = x + length /\ length = b + 1
    BY <1>2, <2>1
  <2> QED BY <2>1, <2>2 DEF Number
<1> QED BY <1>1, <1>2

\* The rows of a micro-batch are a number of rows.
LEMMA RowCount ==
    ASSUME NEW c \in TrainConfigs, ValidTraining(c), Blocks(c) # 0, NEW index \in Nat
    PROVE  RowsIn(c, index) * c.block \in Int
<1>1. PICK x, y : x = c.batch /\ y = Blocks(c) - index * c.batch
  OBVIOUS
<1>2. x \in Int /\ y \in Int /\ c.block \in Int
  <2>1. c.batch \in Int /\ c.block \in Int
    BY TrainingAssumption
  <2>2. Blocks(c) \in Int /\ index * c.batch \in Int
    BY <2>1, EpochLength
  <2> QED BY <1>1, <2>1, <2>2
<1>3. PICK m : m = Min({x, y})
  OBVIOUS
<1>4. \E z \in {x, y} : \A w \in {x, y} : z <= w
  BY <1>2
<1>5. m \in {x, y}
  BY <1>3, <1>4 DEF Min
<1>6. RowsIn(c, index) = m
  BY <1>1, <1>3 DEF RowsIn
<1> QED BY <1>2, <1>5, <1>6

\* The first state.
LEMMA InitTrain == TrainInit(TrainConfigs) => TrainInv
<1> SUFFICES ASSUME TrainInit(TrainConfigs) PROVE TrainInv
  OBVIOUS
<1>1. /\ config \in TrainConfigs /\ trainer = "configure" /\ epoch = 0 /\ batch = 0 /\ gradients = <<>>
      /\ accumulated = 0 /\ applied = <<>> /\ state = [step |-> 0, tokens_seen |-> 0]
  BY DEF TrainInit
<1>2. Len(<<>>) = 0 /\ 1 .. 0 = {}
  OBVIOUS
<1>3. TrainTypes
  BY <1>1 DEF TrainTypes, TrainStates
<1>4. StepsExact(applied, config.accum, LoaderLength(config))
  BY <1>1, <1>2 DEF StepsExact
<1>5. Pending(applied, gradients, config.accum, LoaderLength(config))
  BY <1>1, <1>2 DEF Pending, Consecutive
<1> QED BY <1>1, <1>2, <1>3, <1>4, <1>5 DEF TrainInv

\* The position after the one at e and b.
Advanced(e, b, length, e1, b1, where) ==
    /\ e1 \in Nat /\ b1 \in Nat /\ b1 < length /\ where \in {"train", "evaluate"}
    /\ Number(e1, b1, length) = Number(e, b, length) + 1

\* Advance goes there.
LEMMA Advancing ==
    ASSUME NEW e \in Nat, NEW b \in Nat, NEW length \in Nat \ {0}, b < length, NEW e1, NEW b1, NEW where,
           where \in {"train", "evaluate"},
           b + 1 < length => b1 = b + 1 /\ e1 = e,
           ~(b + 1 < length) => b1 = 0 /\ e1 = e + 1
    PROVE  Advanced(e, b, length, e1, b1, where)
  BY NextNumber DEF Advanced

\* What TrainInv says while the loops run.
LEMMA Running ==
    ASSUME TrainInv, trainer \in {"train", "step"}, NEW length, length = LoaderLength(config)
    PROVE  /\ TrainTypes /\ ValidTraining(config) /\ Blocks(config) # 0
           /\ length \in Nat \ {0} /\ config.accum \in Int
           /\ StepsExact(applied, config.accum, length)
           /\ Pending(applied, gradients, config.accum, length)
           /\ Len(gradients) = accumulated /\ state.step = Len(applied)
           /\ LoopsExact(trainer, epoch, batch, applied, gradients, config.accum, length)
<1>1. TrainTypes /\ ValidTraining(config) /\ Blocks(config) # 0 /\ config \in TrainConfigs
  BY DEF TrainInv, TrainTypes
<1>2. length \in Nat \ {0}
  BY <1>1, EpochLength
<1>3. config.accum \in Int
  BY <1>1, TrainingAssumption
<1> QED BY <1>1, <1>2, <1>3 DEF TrainInv

\* A micro-batch.
LEMMA NextMicroBatch == TrainInv /\ MicroBatch => TrainInv'
<1> SUFFICES ASSUME TrainInv, MicroBatch PROVE TrainInv'
  OBVIOUS
<1>1. PICK length, a, m, n : /\ length = LoaderLength(config) /\ a = config.accum
                             /\ m = <<epoch, batch>> /\ n = Len(applied) * a
  OBVIOUS
<1>2. /\ trainer = "train" /\ gradients' = Append(gradients, m) /\ accumulated' = accumulated + 1
      /\ state' = [state EXCEPT !.tokens_seen = state.tokens_seen + RowsIn(config, batch) * config.block]
      /\ IF accumulated + 1 < a THEN Advance ELSE trainer' = "step" /\ UNCHANGED <<epoch, batch>>
      /\ config' = config /\ applied' = applied /\ saved' = saved
  BY <1>1 DEF MicroBatch
<1>3. /\ TrainTypes /\ ValidTraining(config) /\ Blocks(config) # 0
      /\ length \in Nat \ {0} /\ a \in Int
      /\ StepsExact(applied, a, length) /\ Pending(applied, gradients, a, length)
      /\ Len(gradients) = accumulated /\ state.step = Len(applied)
      /\ LoopsExact("train", epoch, batch, applied, gradients, a, length)
  BY <1>1, <1>2, Running
<1>4. /\ config \in TrainConfigs /\ state \in TrainStates /\ applied \in Seq(OptimizerSteps)
      /\ gradients \in Seq(Pairs) /\ epoch \in Nat /\ batch \in Nat /\ m \in Pairs
  BY <1>1, <1>3 DEF TrainTypes, Pairs
<1>5. /\ n \in Int /\ Len(gradients) \in Nat /\ Len(applied) \in Nat /\ batch < length
      /\ Number(epoch, batch, length) = n + Len(gradients) /\ Len(gradients) < a
  <2>1. Len(applied) \in Nat /\ Len(gradients) \in Nat
    BY <1>4, LenProperties
  <2> QED BY <1>1, <1>3, <2>1 DEF LoopsExact
<1>6. gradients' \in Seq(Pairs) /\ Len(gradients') = Len(gradients) + 1
  BY <1>2, <1>4, AppendProperties
<1>7. IsNumber(m, n + Len(gradients), length)
  <2>1. m[1] = epoch /\ m[2] = batch
    BY <1>1
  <2>2. batch \in 0 .. length - 1
    BY <1>3, <1>4, <1>5
  <2> QED BY <1>5, <2>1, <2>2 DEF IsNumber, Number
<1>8. Pending(applied, gradients', a, length)
  <2>1. Consecutive(gradients, n, length)
    BY <1>1, <1>3 DEF Pending
  <2>2. Consecutive(gradients', n, length)
    BY <1>2, <1>3, <1>4, <1>5, <1>7, <2>1, OneMoreSummed
  <2> QED BY <1>1, <2>2 DEF Pending
<1>9. state' \in TrainStates /\ state'.step = state.step
  <2>1. PICK x : x = RowsIn(config, batch) * config.block
    OBVIOUS
  <2>2. x \in Int
    BY <1>3, <1>4, <2>1, RowCount
  <2>3. PICK y : y = state.tokens_seen + x
    OBVIOUS
  <2>4. y \in Int
    BY <1>4, <2>2, <2>3 DEF TrainStates
  <2>5. state' = [state EXCEPT !.tokens_seen = y]
    BY <1>2, <2>1, <2>3
  <2> QED BY <1>4, <2>4, <2>5 DEF TrainStates
<1>10. /\ epoch' \in Nat /\ batch' \in Nat /\ trainer' \in {"train", "step", "evaluate"}
       /\ LoopsExact(trainer', epoch', batch', applied, gradients', a, length)
  <2>1. CASE accumulated + 1 < a
    <3>1. /\ trainer' \in {"train", "evaluate"}
          /\ batch + 1 < length => batch' = batch + 1 /\ epoch' = epoch
          /\ ~(batch + 1 < length) => batch' = 0 /\ epoch' = epoch + 1
      BY <1>1, <1>2, <2>1 DEF Advance
    <3>2. Advanced(epoch, batch, length, epoch', batch', trainer')
      BY <1>3, <1>4, <1>5, <3>1, Advancing
    <3>3. /\ epoch' \in Nat /\ batch' \in Nat /\ batch' < length
          /\ Number(epoch', batch', length) = Number(epoch, batch, length) + 1
      BY <3>2 DEF Advanced
    <3>4. Number(epoch', batch', length) = n + Len(gradients') /\ Len(gradients') < a
      BY <1>3, <1>5, <1>6, <2>1, <3>3
    <3> QED BY <1>1, <1>3, <3>1, <3>3, <3>4 DEF LoopsExact
  <2>2. CASE ~(accumulated + 1 < a)
    <3>1. trainer' = "step" /\ epoch' = epoch /\ batch' = batch
      BY <1>2, <2>2
    <3>2. Number(epoch, batch, length) + 1 = n + Len(gradients') /\ Len(gradients') = a
      BY <1>3, <1>5, <1>6, <2>2
    <3> QED BY <1>1, <1>3, <1>4, <1>5, <3>1, <3>2 DEF LoopsExact
  <2> QED BY <2>1, <2>2
<1>11. TrainTypes'
  BY <1>2, <1>4, <1>6, <1>9, <1>10 DEF TrainTypes
<1>12. Len(gradients') = accumulated' /\ state'.step = Len(applied)
  BY <1>2, <1>3, <1>6, <1>9
<1> QED BY <1>1, <1>2, <1>3, <1>8, <1>10, <1>11, <1>12 DEF TrainInv

\* An optimiser step.
LEMMA NextOptimizerStep == TrainInv /\ OptimizerStep => TrainInv'
<1> SUFFICES ASSUME TrainInv, OptimizerStep PROVE TrainInv'
  OBVIOUS
<1>1. PICK length, a, n : /\ length = LoaderLength(config) /\ a = config.accum /\ n = Len(applied)
  OBVIOUS
<1>2. /\ trainer = "step" /\ config' = config
      /\ \E overflow \in IF config.fp16 THEN BOOLEAN ELSE {FALSE} :
           applied' = Append(applied, [gradient |-> gradients, skipped |-> overflow])
  BY DEF OptimizerStep
<1>3. \/ trainer' = "crashed" /\ UNCHANGED <<epoch, batch, gradients, accumulated, state>>
      \/ /\ accumulated' = 0 /\ gradients' = <<>> /\ state' = [state EXCEPT !.step = state.step + 1]
         /\ \/ trainer' = "evaluate" /\ UNCHANGED <<epoch, batch>>
            \/ Advance
  BY DEF OptimizerStep, ZeroGrad
<1>4. /\ TrainTypes /\ ValidTraining(config) /\ Blocks(config) # 0
      /\ length \in Nat \ {0} /\ a \in Int
      /\ StepsExact(applied, a, length) /\ Pending(applied, gradients, a, length)
      /\ Len(gradients) = accumulated /\ state.step = n
      /\ LoopsExact("step", epoch, batch, applied, gradients, a, length)
  BY <1>1, <1>2, Running
<1>5. /\ config \in TrainConfigs /\ state \in TrainStates /\ applied \in Seq(OptimizerSteps)
      /\ gradients \in Seq(Pairs) /\ epoch \in Nat /\ batch \in Nat
  BY <1>4 DEF TrainTypes
<1>6. /\ n \in Nat /\ batch < length /\ Len(gradients) = a
      /\ Number(epoch, batch, length) + 1 = n * a + a
  <2>1. n \in Nat
    BY <1>1, <1>5, LenProperties
  <2> QED BY <1>1, <1>4, <2>1 DEF LoopsExact
<1>7. PICK overflow \in BOOLEAN : applied' = Append(applied, [gradient |-> gradients, skipped |-> overflow])
  BY <1>2
<1>8. PICK s : s = [gradient |-> gradients, skipped |-> overflow]
  OBVIOUS
<1>9. s \in OptimizerSteps /\ s.gradient = gradients
  BY <1>5, <1>8 DEF OptimizerSteps
<1>10. applied' \in Seq(OptimizerSteps) /\ Len(applied') = n + 1
  BY <1>1, <1>5, <1>7, <1>8, <1>9, AppendProperties
<1>11. StepsExact(applied', a, length)
  BY <1>4, <1>5, <1>6, <1>7, <1>8, <1>9, OneMoreStep
<1>12. CASE trainer' = "crashed" /\ UNCHANGED <<epoch, batch, gradients, accumulated, state>>
  <2>1. TrainTypes'
    BY <1>2, <1>5, <1>10, <1>12 DEF TrainTypes
  <2> QED BY <1>1, <1>2, <1>11, <1>12, <2>1 DEF TrainInv
<1>13. CASE /\ accumulated' = 0 /\ gradients' = <<>> /\ state' = [state EXCEPT !.step = state.step + 1]
            /\ \/ trainer' = "evaluate" /\ UNCHANGED <<epoch, batch>>
               \/ Advance
  <2>1. gradients' \in Seq(Pairs) /\ Len(gradients') = 0
    BY <1>13
  <2>2. Pending(applied', gradients', a, length)
    BY <2>1 DEF Pending, Consecutive
  <2>3. state' \in TrainStates /\ state'.step = n + 1
    <3>1. PICK y : y = state.step + 1
      OBVIOUS
    <3>2. y \in Nat /\ y = n + 1
      BY <1>4, <1>6, <3>1
    <3>3. state' = [state EXCEPT !.step = y]
      BY <1>13, <3>1
    <3> QED BY <1>5, <3>2, <3>3 DEF TrainStates
  <2>4. CASE trainer' = "evaluate" /\ UNCHANGED <<epoch, batch>>
    <3>1. TrainTypes'
      BY <1>2, <1>5, <1>10, <2>1, <2>3, <2>4 DEF TrainTypes
    <3> QED BY <1>1, <1>2, <1>10, <1>11, <1>13, <2>1, <2>2, <2>3, <2>4, <3>1 DEF TrainInv
  <2>5. CASE Advance
    <3>1. /\ trainer' \in {"train", "evaluate"}
          /\ batch + 1 < length => batch' = batch + 1 /\ epoch' = epoch
          /\ ~(batch + 1 < length) => batch' = 0 /\ epoch' = epoch + 1
      BY <1>1, <2>5 DEF Advance
    <3>2. Advanced(epoch, batch, length, epoch', batch', trainer')
      BY <1>4, <1>5, <1>6, <3>1, Advancing
    <3>3. /\ epoch' \in Nat /\ batch' \in Nat /\ batch' < length
          /\ Number(epoch', batch', length) = Number(epoch, batch, length) + 1
      BY <3>2 DEF Advanced
    <3>4. TrainTypes'
      BY <1>2, <1>5, <1>10, <2>1, <2>3, <3>3 DEF TrainTypes
    <3>5. Number(epoch', batch', length) = Len(applied') * a + Len(gradients')
      <4>1. (n + 1) * a = n * a + a /\ n * a \in Int
        BY <1>4, <1>6
      <4>2. Number(epoch', batch', length) = n * a + a
        BY <1>6, <3>3
      <4>3. PICK x : x = (n + 1) * a
        OBVIOUS
      <4>4. x \in Int /\ x + 0 = x
        BY <1>4, <4>1, <4>3
      <4> QED BY <1>10, <2>1, <4>1, <4>2, <4>3, <4>4
    <3>6. Len(gradients') < a
      BY <1>1, <1>4, <2>1 DEF ValidTraining
    <3>7. LoopsExact(trainer', epoch', batch', applied', gradients', a, length)
      BY <1>4, <3>1, <3>3, <3>5, <3>6 DEF LoopsExact
    <3> QED BY <1>1, <1>2, <1>4, <1>10, <1>11, <1>13, <2>1, <2>2, <2>3, <3>1, <3>4, <3>7 DEF TrainInv
  <2> QED BY <1>13, <2>4, <2>5
<1> QED BY <1>3, <1>12, <1>13

\* The configuration is accepted or not.
LEMMA NextConfigure == TrainInv /\ Configure => TrainInv'
<1> SUFFICES ASSUME TrainInv, Configure PROVE TrainInv'
  OBVIOUS
<1>1. PICK length, a : length = LoaderLength(config) /\ a = config.accum
  OBVIOUS
<1>2. /\ trainer = "configure" /\ trainer' \in {"rejected", "evaluate", "train"}
      /\ trainer' = "train" => ValidTraining(config) /\ Blocks(config) # 0
      /\ UNCHANGED <<config, epoch, batch, gradients, accumulated, applied, scheduled, state, saved>>
  BY DEF Configure
<1>3. /\ TrainTypes /\ StepsExact(applied, a, length)
      /\ epoch = 0 /\ batch = 0 /\ gradients = <<>> /\ applied = <<>>
      /\ Len(gradients) = accumulated /\ state.step = Len(applied) /\ Pending(applied, gradients, a, length)
  BY <1>1, <1>2 DEF TrainInv
<1>4. TrainTypes'
  BY <1>2, <1>3 DEF TrainTypes
<1>5. ASSUME trainer' = "train" PROVE LoopsExact(trainer', epoch, batch, applied, gradients, a, length)
  <2>1. ValidTraining(config) /\ Blocks(config) # 0 /\ config \in TrainConfigs
    BY <1>2, <1>3, <1>5 DEF TrainTypes
  <2>2. length \in Nat \ {0} /\ a \in Int /\ a > 0
    BY <1>1, <2>1, EpochLength, TrainingAssumption DEF ValidTraining
  <2>3. Len(gradients) = 0 /\ Len(applied) = 0
    BY <1>3
  <2>4. Number(epoch, batch, length) = 0 /\ Len(applied) * a + Len(gradients) = 0
    BY <1>3, <2>2, <2>3 DEF Number
  <2> QED BY <1>3, <1>5, <2>2, <2>3, <2>4 DEF LoopsExact
<1> QED BY <1>1, <1>2, <1>3, <1>4, <1>5 DEF TrainInv

\* The end of the run.
LEMMA NextFinalEvaluation == TrainInv /\ FinalEvaluation => TrainInv'
<1> SUFFICES ASSUME TrainInv, FinalEvaluation PROVE TrainInv'
  OBVIOUS
<1>1. /\ trainer = "evaluate" /\ trainer' = "finished" /\ Checkpoint("final", state) \in saved'
      /\ UNCHANGED <<config, epoch, batch, gradients, accumulated, applied, scheduled, state>>
  BY DEF FinalEvaluation
<1>2. Checkpoint("final", state') \in saved'
  BY <1>1
<1> QED BY <1>1, <1>2 DEF TrainInv, TrainTypes, Checkpoint

\* Every state of a run has its micro-batches accounted for.
THEOREM TrainInvariance == TrainSpec => []TrainInv
<1>1. TrainInv /\ UNCHANGED trainVars => TrainInv'
  <2> SUFFICES ASSUME TrainInv, UNCHANGED trainVars PROVE TrainInv'
    OBVIOUS
  <2>1. UNCHANGED <<config, trainer, epoch, batch, gradients, accumulated, applied, scheduled, state, saved>>
    BY DEF trainVars
  <2> QED BY <2>1 DEF TrainInv, TrainTypes, Checkpoint
<1>2. TrainInv /\ [TrainNext]_trainVars => TrainInv'
  BY <1>1, NextConfigure, NextMicroBatch, NextOptimizerStep, NextFinalEvaluation DEF TrainNext
<1> QED BY <1>2, InitTrain, PTL DEF TrainSpec

\* Whatever the corpus, the accumulation and the number of epochs, each micro-batch goes into one
\* optimiser step, in order, and what is left at the end of an epoch waits for the next step.
THEOREM GradientsUsedOnceTheorem == TrainSpec => []GradientsUsedOnce
<1>1. TrainInv => GradientsUsedOnce
  BY DEF TrainInv, StepsExact, Pending, GradientsUsedOnce
<1> QED BY <1>1, TrainInvariance, PTL

-----------------------------------------------------------------------------
(* Metrics: the sorted window holds the latest values.                     *)

\* The larger of two numbers.
LEMMA MaxOfTwo ==
    ASSUME NEW a \in Int, NEW b \in Int
    PROVE  Max({a, b}) \in {a, b} /\ Max({a, b}) >= a /\ Max({a, b}) >= b
<1>1. \E x \in {a, b} : \A y \in {a, b} : x >= y
  OBVIOUS
<1>2. PICK m : m = Max({a, b})
  OBVIOUS
<1>3. m \in {a, b} /\ \A y \in {a, b} : m >= y
  BY <1>1, <1>2 DEF Max
<1> QED BY <1>2, <1>3

\* new is s with v put in after the first m elements.
Inserted(X, s, m, v, new) ==
    /\ s \in Seq(X) /\ new \in Seq(X) /\ Len(new) = Len(s) + 1 /\ new[m + 1] = v
    /\ \A i \in 1 .. Len(s) : IF i <= m THEN new[i] = s[i] ELSE new[i + 1] = s[i]
    /\ \A S : Len(Keep(new, S)) = Len(Keep(s, S)) + IF v \in S THEN 1 ELSE 0

\* What is kept of a list of one element.
LEMMA KeepOne ==
    ASSUME NEW X, NEW v \in X, NEW S
    PROVE  Len(Keep(<<v>>, S)) = IF v \in S THEN 1 ELSE 0
<1>1. <<>> \in Seq(X) /\ Len(<<>>) = 0 /\ <<v>> = Append(<<>>, v)
  OBVIOUS
<1>2. Keep(<<>>, S) = <<>>
  BY KeepEmpty
<1>3. Keep(Append(<<>>, v), S) = IF v \in S THEN Append(<<>>, v) ELSE <<>>
  BY <1>1, <1>2, KeepAppend
<1>4. Len(Append(<<>>, v)) = 1
  OBVIOUS
<1> QED BY <1>1, <1>3, <1>4

\* An element between two lists.
LEMMA Middle ==
    ASSUME NEW X, NEW a \in Seq(X), NEW b \in Seq(X), NEW v \in X,
           NEW s, s = a \o b, NEW new, new = (a \o <<v>>) \o b, NEW m, m = Len(a)
    PROVE  Inserted(X, s, m, v, new)
<1>1. PICK k : k = Len(b)
  OBVIOUS
<1>2. m \in Nat /\ k \in Nat
  BY <1>1, LenProperties
<1>3. PICK w, c : w = <<v>> /\ c = a \o w
  OBVIOUS
<1>4. w \in Seq(X) /\ Len(w) = 1 /\ w[1] = v
  BY <1>3
<1>5. c \in Seq(X) /\ Len(c) = m + 1 /\ c[m + 1] = v /\ \A i \in 1 .. m : c[i] = a[i]
  <2>1. c \in Seq(X) /\ Len(c) = m + 1
    BY <1>3, <1>4, ConcatProperties
  <2>2. \A i \in 1 .. m + 1 : c[i] = IF i <= m THEN a[i] ELSE w[i - m]
    BY <1>3, <1>4, ConcatProperties
  <2>3. m + 1 \in 1 .. m + 1 /\ (m + 1) - m = 1 /\ ~(m + 1 <= m)
    BY <1>2
  <2>4. \A i \in 1 .. m : i \in 1 .. m + 1 /\ i <= m
    BY <1>2
  <2> QED BY <1>4, <2>1, <2>2, <2>3, <2>4
<1>6. /\ s \in Seq(X) /\ Len(s) = m + k
      /\ \A i \in 1 .. m + k : s[i] = IF i <= m THEN a[i] ELSE b[i - m]
  BY <1>1, ConcatProperties
<1>7. /\ new \in Seq(X) /\ Len(new) = (m + 1) + k
      /\ \A i \in 1 .. (m + 1) + k : new[i] = IF i <= m + 1 THEN c[i] ELSE b[i - (m + 1)]
  BY <1>1, <1>3, <1>5, ConcatProperties
<1>8. new[m + 1] = v
  <2>1. m + 1 \in 1 .. (m + 1) + k
    BY <1>2
  <2> QED BY <1>2, <1>5, <1>7, <2>1
<1>9. ASSUME NEW i \in 1 .. m + k PROVE IF i <= m THEN new[i] = s[i] ELSE new[i + 1] = s[i]
  <2>1. i \in 1 .. (m + 1) + k /\ i + 1 \in 1 .. (m + 1) + k /\ i \in Nat
    BY <1>2
  <2>2. CASE i <= m
    <3>1. i <= m + 1 /\ i \in 1 .. m
      BY <1>2, <2>1, <2>2
    <3>2. new[i] = c[i]
      BY <1>7, <2>1, <3>1
    <3> QED BY <1>5, <1>6, <2>2, <3>1, <3>2
  <2>3. CASE ~(i <= m)
    <3>1. ~(i + 1 <= m + 1) /\ (i + 1) - (m + 1) = i - m
      BY <1>2, <2>1, <2>3
    <3>2. new[i + 1] = b[i - m]
      BY <1>7, <2>1, <3>1
    <3> QED BY <1>6, <2>3, <3>2
  <2> QED BY <2>2, <2>3
<1>10. ASSUME NEW S PROVE Len(Keep(new, S)) = Len(Keep(s, S)) + IF v \in S THEN 1 ELSE 0
  <2>1. PICK p, q, r : p = Keep(a, S) /\ q = Keep(b, S) /\ r = Keep(w, S)
    OBVIOUS
  <2>2. p \in Seq(X) /\ q \in Seq(X) /\ r \in Seq(X)
    BY <1>4, <2>1, KeepType
  <2>3. Keep(s, S) = p \o q
    <3>1. Keep(a \o b, S) = Keep(a, S) \o Keep(b, S)
      BY KeepConcat
    <3> QED BY <2>1, <3>1
  <2>4. Keep(c, S) = p \o r
    <3>1. Keep(a \o w, S) = Keep(a, S) \o Keep(w, S)
      BY <1>4, KeepConcat
    <3> QED BY <1>3, <2>1, <3>1
  <2>5. Keep(new, S) = (p \o r) \o q
    <3>1. Keep(c \o b, S) = Keep(c, S) \o Keep(b, S)
      BY <1>5, KeepConcat
    <3>2. new = c \o b
      BY <1>3
    <3> QED BY <2>1, <2>4, <3>1, <3>2
  <2>6. Len(r) = IF v \in S THEN 1 ELSE 0
    BY <1>3, <2>1, KeepOne
  <2>7. p \o r \in Seq(X) /\ Len(p \o r) = Len(p) + Len(r)
    BY <2>2, ConcatProperties
  <2>8. Len((p \o r) \o q) = (Len(p) + Len(r)) + Len(q)
    BY <2>2, <2>7, ConcatProperties
  <2>9. Len(p \o q) = Len(p) + Len(q)
    BY <2>2, ConcatProperties
  <2>10. Len(p) \in Nat /\ Len(q) \in Nat /\ Len(r) \in Nat
    BY <2>2, LenProperties
  <2> QED BY <2>3, <2>5, <2>6, <2>8, <2>9, <2>10
<1>11. Len(new) = Len(s) + 1
  BY <1>2, <1>6, <1>7
<1> QED BY <1>6, <1>7, <1>8, <1>9, <1>10, <1>11 DEF Inserted

\* A list cut after its first m elements.
Cut(X, s, m, a, b) == a \in Seq(X) /\ b \in Seq(X) /\ Len(a) = m /\ s = a \o b

\* SubSeq cuts so.
LEMMA Cutting ==
    ASSUME NEW X, NEW s \in Seq(X), NEW m \in 0 .. Len(s), NEW a, a = SubSeq(s, 1, m),
           NEW b, b = SubSeq(s, m + 1, Len(s))
    PROVE  Cut(X, s, m, a, b)
<1>1. PICK n : n = Len(s)
  OBVIOUS
<1>2. n \in Nat /\ m \in Nat /\ m <= n
  BY <1>1, LenProperties
<1>3. \A i \in 1 .. n : s[i] \in X
  BY <1>1, ElementOfSeq
<1>4. a \in Seq(X) /\ Len(a) = m /\ \A i \in 1 .. m : a[i] = s[i]
  BY <1>2, <1>3, SubSeqProperties
<1>5. b \in Seq(X) /\ Len(b) = n - m /\ \A i \in 1 .. n - m : b[i] = s[m + i]
  <2>1. m + 1 \in Int /\ n \in Int /\ \A i \in m + 1 .. n : s[i] \in X
    BY <1>2, <1>3
  <2>2. b \in Seq(X) /\ Len(b) = IF m + 1 <= n THEN n - (m + 1) + 1 ELSE 0
    BY <1>1, <2>1, SubSeqProperties
  <2>3. Len(b) = n - m
    BY <1>2, <2>2
  <2>4. \A i \in 1 .. Len(b) : b[i] = s[(m + 1) + i - 1]
    BY <1>1, <2>1, <2>2, SubSeqProperties
  <2>5. \A i \in 1 .. Len(b) : (m + 1) + i - 1 = m + i
    BY <1>2, <2>3
  <2> QED BY <2>2, <2>3, <2>4, <2>5
<1>6. PICK t : t = a \o b
  OBVIOUS
<1>7. t \in Seq(X) /\ Len(t) = n /\ \A i \in 1 .. n : t[i] = IF i <= m THEN a[i] ELSE b[i - m]
  <2>1. t \in Seq(X) /\ Len(t) = m + (n - m)
    BY <1>4, <1>5, <1>6, ConcatProperties
  <2>2. m + (n - m) = n
    BY <1>2
  <2>3. \A i \in 1 .. m + (n - m) : t[i] = IF i <= m THEN a[i] ELSE b[i - m]
    <3>1. \A i \in 1 .. Len(a) + Len(b) : (a \o b)[i] = IF i <= Len(a) THEN a[i] ELSE b[i - Len(a)]
      <4>1. a \in Seq(X) /\ b \in Seq(X)
        BY <1>4, <1>5
      <4> QED BY <4>1, ConcatProperties
    <3> QED BY <1>4, <1>5, <1>6, <3>1
  <2> QED BY <2>1, <2>2, <2>3
<1>8. ASSUME NEW i \in 1 .. n PROVE t[i] = s[i]
  <2>1. CASE i <= m
    BY <1>2, <1>4, <1>7, <2>1
  <2>2. CASE ~(i <= m)
    <3>1. i - m \in 1 .. n - m /\ m + (i - m) = i
      BY <1>2, <2>2
    <3> QED BY <1>5, <1>7, <2>2, <3>1
  <2> QED BY <2>1, <2>2
<1>9. t = s
  BY <1>1, <1>7, <1>8, SeqEqual
<1> QED BY <1>4, <1>5, <1>6, <1>9 DEF Cut

\* InsertAt and RemoveAt do the same in two directions.
LEMMA InsertAtInserts ==
    ASSUME NEW X, NEW s \in Seq(X), NEW m \in 0 .. Len(s), NEW v \in X, NEW new, new = InsertAt(s, m + 1, v)
    PROVE  Inserted(X, s, m, v, new)
<1>1. PICK a, b : a = SubSeq(s, 1, m) /\ b = SubSeq(s, m + 1, Len(s))
  OBVIOUS
<1>2. a \in Seq(X) /\ b \in Seq(X) /\ Len(a) = m /\ s = a \o b
  <2>1. Cut(X, s, m, a, b)
    BY <1>1, Cutting
  <2> QED BY <2>1 DEF Cut
<1>3. (m + 1) - 1 = m
  OBVIOUS
<1>4. new = (a \o <<v>>) \o b
  BY <1>1, <1>3 DEF InsertAt
<1> QED BY <1>2, <1>4, Middle

\* The one that takes an element out.
LEMMA RemoveAtRemoves ==
    ASSUME NEW X, NEW s \in Seq(X), NEW m \in 0 .. Len(s) - 1, NEW new, new = RemoveAt(s, m + 1)
    PROVE  Inserted(X, new, m, s[m + 1], s)
<1>1. PICK n, v : n = Len(s) /\ v = s[m + 1]
  OBVIOUS
<1>2. n \in Nat /\ m \in 0 .. n /\ m + 1 \in 0 .. n /\ m + 1 \in 1 .. n /\ m \in Nat
  BY <1>1, LenProperties
<1>3. PICK a, b, c, d : /\ a = SubSeq(s, 1, m) /\ b = SubSeq(s, (m + 1) + 1, n)
                        /\ c = SubSeq(s, 1, m + 1) /\ d = SubSeq(s, m + 1, n)
  OBVIOUS
<1>4. Cut(X, s, m, a, d) /\ Cut(X, s, m + 1, c, b)
  BY <1>1, <1>2, <1>3, Cutting
<1>5. a \in Seq(X) /\ b \in Seq(X) /\ c \in Seq(X) /\ Len(a) = m /\ s = c \o b /\ v \in X
  BY <1>1, <1>2, <1>4, ElementOfSeq DEF Cut
<1>6. c = a \o <<v>>
  <2>1. SubSeq(s, 1, m + 1) = SubSeq(s, 1, (m + 1) - 1) \o <<s[m + 1]>>
    <3>1. 1 \in 1 .. Len(s) /\ m + 1 \in 1 .. Len(s)
      BY <1>1, <1>2
    <3> QED BY <3>1, SubSeqRecursiveSecond
  <2>2. (m + 1) - 1 = m
    BY <1>2
  <2> QED BY <1>1, <1>3, <2>1, <2>2
<1>7. new = a \o b
  <2>1. (m + 1) - 1 = m
    BY <1>2
  <2> QED BY <1>1, <1>3, <2>1 DEF RemoveAt
<1>8. s = (a \o <<v>>) \o b
  BY <1>5, <1>6
<1>9. Inserted(X, new, m, v, s)
  BY <1>5, <1>7, <1>8, Middle
<1> QED BY <1>1, <1>9

\* A part of 1 .. n that has all the smaller numbers with each is 1 .. p.
LEMMA DownClosed ==
    ASSUME NEW n \in Nat, NEW A, A \subseteq 1 .. n, \A i, j \in 1 .. n : i <= j /\ j \in A => i \in A
    PROVE  Cardinality(A) \in 0 .. n /\ \A i \in 1 .. n : i \in A <=> i <= Cardinality(A)
<1>1. PICK p \in A \cup {0} : \A y \in A \cup {0} : y <= p
  <2>1. A \cup {0} \subseteq Nat /\ A \cup {0} # {} /\ \A t \in A \cup {0} : t <= n
    OBVIOUS
  <2> QED BY <2>1, GreatestNat
<1>2. p \in 0 .. n /\ \A i \in 1 .. n : i \in A <=> i <= p
  BY <1>1
<1>3. A = 1 .. p
  <2>1. ASSUME NEW i \in A PROVE i \in 1 .. p
    <3>1. i \in 1 .. n
      OBVIOUS
    <3> QED BY <1>2, <3>1
  <2>2. ASSUME NEW i \in 1 .. p PROVE i \in A
    <3>1. i \in 1 .. n /\ i <= p
      BY <1>2
    <3> QED BY <1>2, <3>1
  <2> QED BY <2>1, <2>2
<1>4. Cardinality(1 .. p) = IF 1 > p THEN 0 ELSE p - 1 + 1
  <2>1. 1 \in Int /\ p \in Int
    BY <1>2
  <2> QED BY <2>1, FS_Interval
<1>5. Cardinality(A) = p
  BY <1>2, <1>3, <1>4
<1> QED BY <1>2, <1>5

\* v was added to the values of s.
Grown(s, v, new) ==
    /\ s \in Seq(Latencies) /\ new \in Seq(Latencies) /\ Len(new) = Len(s) + 1
    /\ \A x : Len(Keep(new, {x})) = Len(Keep(s, {x})) + IF x = v THEN 1 ELSE 0

\* An insertion adds a value.
LEMMA InsertedGrown ==
    ASSUME NEW s, NEW m, NEW v, NEW new, Inserted(Latencies, s, m, v, new)
    PROVE  Grown(s, v, new)
<1>1. \A x : v \in {x} <=> x = v
  OBVIOUS
<1> QED BY <1>1 DEF Inserted, Grown

\* bisect.insort keeps the order.
LEMMA InsortKeepsOrder ==
    ASSUME NEW s \in Seq(Latencies), Ascending(s), NEW v \in Latencies, NEW new, new = Insort(s, v)
    PROVE  Grown(s, v, new) /\ Ascending(new)
<1>1. PICK n, A : n = Len(s) /\ A = {i \in DOMAIN s : s[i] <= v}
  OBVIOUS
<1>2. n \in Nat /\ DOMAIN s = 1 .. n /\ v \in Nat /\ \A i \in 1 .. n : s[i] \in Nat
  BY <1>1, LenProperties, ElementOfSeq, MetricsAssumption
<1>3. \A i, j \in 1 .. n : i <= j => s[i] <= s[j]
  BY <1>1 DEF Ascending
<1>4. A \subseteq 1 .. n /\ \A i, j \in 1 .. n : i <= j /\ j \in A => i \in A
  BY <1>1, <1>2, <1>3
<1>5. PICK m : m = Cardinality(A)
  OBVIOUS
<1>6. m \in 0 .. n /\ \A i \in 1 .. n : i \in A <=> i <= m
  BY <1>2, <1>4, <1>5, DownClosed
<1>7. \A i \in 1 .. n : s[i] <= v <=> i <= m
  BY <1>1, <1>2, <1>6
<1>8. new = InsertAt(s, m + 1, v)
  BY <1>1, <1>5 DEF Insort
<1>9. Inserted(Latencies, s, m, v, new)
  BY <1>1, <1>6, <1>8, InsertAtInserts
<1>10. /\ new \in Seq(Latencies) /\ Len(new) = n + 1 /\ new[m + 1] = v
       /\ \A i \in 1 .. n : IF i <= m THEN new[i] = s[i] ELSE new[i + 1] = s[i]
  BY <1>1, <1>9 DEF Inserted
<1>11. \A i \in 1 .. n + 1 : /\ i <= m => i \in 1 .. n /\ new[i] = s[i] /\ new[i] <= v
                             /\ i > m + 1 => i - 1 \in 1 .. n /\ i - 1 > m /\ new[i] = s[i - 1] /\ new[i] > v
  <2> SUFFICES ASSUME NEW i \in 1 .. n + 1
               PROVE  /\ i <= m => i \in 1 .. n /\ new[i] = s[i] /\ new[i] <= v
                      /\ i > m + 1 => i - 1 \in 1 .. n /\ i - 1 > m /\ new[i] = s[i - 1] /\ new[i] > v
    OBVIOUS
  <2>1. CASE i <= m
    BY <1>2, <1>6, <1>7, <1>10, <2>1
  <2>2. CASE i > m + 1
    <3>1. i - 1 \in 1 .. n /\ i - 1 > m /\ (i - 1) + 1 = i
      BY <1>2, <1>6, <2>2
    <3>2. new[i] = s[i - 1] /\ ~(s[i - 1] <= v)
      BY <1>6, <1>7, <1>10, <3>1
    <3> QED BY <1>2, <1>6, <2>2, <3>1, <3>2
  <2> QED BY <2>1, <2>2
<1>12. ASSUME NEW i \in 1 .. n + 1, NEW j \in 1 .. n + 1, i <= j PROVE new[i] <= new[j]
  <2>1. (i <= m \/ i = m + 1 \/ i > m + 1) /\ (j <= m \/ j = m + 1 \/ j > m + 1)
    BY <1>6
  <2>2. new[i] \in Nat /\ new[j] \in Nat
    BY <1>10, ElementOfSeq, MetricsAssumption
  <2>3. CASE i <= m /\ j <= m
    BY <1>3, <1>11, <1>12, <2>3
  <2>4. CASE i <= m /\ j = m + 1
    BY <1>10, <1>11, <2>4
  <2>5. CASE i <= m /\ j > m + 1
    BY <1>2, <1>11, <2>2, <2>5
  <2>6. CASE i = m + 1 /\ j = m + 1
    BY <2>2, <2>6
  <2>7. CASE i = m + 1 /\ j > m + 1
    BY <1>2, <1>10, <1>11, <2>2, <2>7
  <2>8. CASE i > m + 1 /\ j > m + 1
    <3>1. i - 1 <= j - 1 /\ i - 1 \in 1 .. n /\ j - 1 \in 1 .. n
      BY <1>11, <1>12, <2>8
    <3> QED BY <1>3, <1>11, <2>8, <3>1
  <2>9. i <= m \/ i = m + 1 \/ i > m + 1
    BY <2>1
  <2>10. (i = m + 1 => ~(j <= m)) /\ (i > m + 1 => j > m + 1)
    BY <1>6, <1>12
  <2> QED BY <2>1, <2>3, <2>4, <2>5, <2>6, <2>7, <2>8, <2>10
<1>13. Ascending(new)
  BY <1>10, <1>12 DEF Ascending
<1> QED BY <1>9, <1>13, InsertedGrown

\* The oldest value is found, and its eviction keeps the order.
LEMMA EvictionKeepsOrder ==
    ASSUME NEW s \in Seq(Latencies), Ascending(s), NEW v \in Latencies, Has(s, v), NEW new, new = Evicted(s, v)
    PROVE  Grown(new, v, s) /\ Ascending(new)
<1>1. PICK n, A : n = Len(s) /\ A = {i \in DOMAIN s : s[i] < v}
  OBVIOUS
<1>2. n \in Nat /\ DOMAIN s = 1 .. n /\ v \in Nat /\ \A i \in 1 .. n : s[i] \in Nat
  BY <1>1, LenProperties, ElementOfSeq, MetricsAssumption
<1>3. \A i, j \in 1 .. n : i <= j => s[i] <= s[j]
  BY <1>1 DEF Ascending
<1>4. A \subseteq 1 .. n /\ \A i, j \in 1 .. n : i <= j /\ j \in A => i \in A
  <2>1. \A i, j \in 1 .. n : i <= j /\ s[j] < v => s[i] < v
    BY <1>2, <1>3
  <2> QED BY <1>1, <1>2, <2>1
<1>5. PICK m : m = Cardinality(A)
  OBVIOUS
<1>6. m \in 0 .. n /\ \A i \in 1 .. n : i \in A <=> i <= m
  BY <1>2, <1>4, <1>5, DownClosed
<1>7. \A i \in 1 .. n : s[i] < v <=> i <= m
  BY <1>1, <1>2, <1>6
<1>8. PICK j \in 1 .. n : s[j] = v
  BY <1>1 DEF Has
<1>9. m + 1 \in 1 .. n /\ m + 1 <= j
  BY <1>2, <1>6, <1>7, <1>8
<1>10. s[m + 1] = v
  <2>1. s[m + 1] <= v
    BY <1>3, <1>8, <1>9
  <2>2. ~(m + 1 <= m)
    BY <1>6
  <2>3. ~(s[m + 1] < v)
    BY <1>7, <1>9, <2>2
  <2> QED BY <1>2, <1>9, <2>1, <2>3
<1>11. new = RemoveAt(s, m + 1)
  <2>1. m + 1 <= n
    BY <1>9
  <2> QED BY <1>1, <1>5, <1>10, <2>1 DEF Evicted
<1>12. Inserted(Latencies, new, m, v, s)
  <2>1. m \in 0 .. Len(s) - 1
    BY <1>1, <1>6, <1>9
  <2>2. Inserted(Latencies, new, m, s[m + 1], s)
    BY <1>11, <2>1, RemoveAtRemoves
  <2> QED BY <1>10, <2>2
<1>13. /\ Len(new) = n - 1 /\ Len(new) \in Nat
       /\ \A i \in 1 .. n - 1 : IF i <= m THEN s[i] = new[i] ELSE s[i + 1] = new[i]
  <2>1. new \in Seq(Latencies) /\ n = Len(new) + 1
    BY <1>1, <1>12 DEF Inserted
  <2>2. Len(new) \in Nat
    BY <2>1, LenProperties
  <2>3. Len(new) = n - 1
    BY <1>2, <2>1, <2>2
  <2> QED BY <1>12, <2>2, <2>3 DEF Inserted
<1>14. ASSUME NEW i \in 1 .. n - 1, NEW k \in 1 .. n - 1, i <= k PROVE new[i] <= new[k]
  <2>1. /\ i \in 1 .. n /\ k \in 1 .. n /\ i + 1 \in 1 .. n /\ k + 1 \in 1 .. n
        /\ i <= k + 1 /\ i + 1 <= k + 1
    BY <1>2, <1>14
  <2>2. CASE i <= m /\ k <= m
    BY <1>3, <1>13, <1>14, <2>1, <2>2
  <2>3. CASE i <= m /\ ~(k <= m)
    BY <1>3, <1>13, <2>1, <2>3
  <2>4. CASE ~(i <= m) /\ ~(k <= m)
    BY <1>3, <1>13, <2>1, <2>4
  <2>5. ~(~(i <= m) /\ k <= m)
    BY <1>6, <1>14
  <2> QED BY <2>2, <2>3, <2>4, <2>5
<1>15. Ascending(new)
  BY <1>13, <1>14 DEF Ascending
<1> QED BY <1>12, <1>15, InsertedGrown

\* new is q, which has n elements, and then v.
Appended(X, q, n, v, new) ==
    /\ new \in Seq(X) /\ Len(new) = n + 1 /\ new[n + 1] = v
    /\ \A i \in 1 .. n : new[i] = q[i]

\* Append does that.
LEMMA Appending ==
    ASSUME NEW X, NEW q \in Seq(X), NEW v \in X, NEW n, n = Len(q), NEW new, new = Append(q, v)
    PROVE  Appended(X, q, n, v, new)
  BY AppendProperties DEF Appended

\* What a window of the latest values of r is.
Earlier(r) == IF Len(r) > Window THEN Len(r) - Window ELSE 0
Recent(r, q) ==
    /\ q \in Seq(Latencies) /\ Len(q) = Len(r) - Earlier(r)
    /\ \A i \in 1 .. Len(q) : q[i] = r[Earlier(r) + i]

\* SubSeq takes it.
LEMMA RecentIsSubSeq ==
    ASSUME NEW r \in Seq(Latencies), NEW q, Recent(r, q)
    PROVE  q = SubSeq(r, Max({1, Len(r) - Window + 1}), Len(r))
<1>1. PICK n, e, k : n = Len(r) /\ e = Earlier(r) /\ k = Max({1, n - Window + 1})
  OBVIOUS
<1>2. n \in Nat /\ Window \in Nat \ {0}
  BY <1>1, LenProperties, MetricsAssumption
<1>3. e \in 0 .. n /\ (e = 0 \/ e = n - Window) /\ e >= n - Window
  BY <1>1, <1>2 DEF Earlier
<1>4. k = e + 1
  <2>1. 1 \in Int /\ n - Window + 1 \in Int
    BY <1>2
  <2>2. k \in {1, n - Window + 1} /\ k >= 1 /\ k >= n - Window + 1
    BY <1>1, <2>1, MaxOfTwo
  <2> QED BY <1>1, <1>2, <1>3, <2>2
<1>5. k \in Int /\ n \in Int /\ \A i \in k .. n : r[i] \in Latencies
  <2>1. k \in Int /\ n \in Int /\ \A i \in k .. n : i \in 1 .. n
    BY <1>2, <1>3, <1>4
  <2>2. \A i \in 1 .. n : r[i] \in Latencies
    BY <1>1, ElementOfSeq
  <2> QED BY <2>1, <2>2
<1>6. PICK s : s = SubSeq(r, k, n)
  OBVIOUS
<1>7. /\ s \in Seq(Latencies) /\ Len(s) = IF k <= n THEN n - k + 1 ELSE 0
      /\ \A i \in 1 .. n - k + 1 : s[i] = r[k + i - 1]
  <2>1. s \in Seq(Latencies) /\ Len(s) = IF k <= n THEN n - k + 1 ELSE 0
    BY <1>5, <1>6, SubSeqProperties
  <2>2. \A i \in 1 .. Len(s) : s[i] = r[k + i - 1]
    BY <1>5, <1>6, SubSeqProperties
  <2>3. \A i \in 1 .. n - k + 1 : i \in 1 .. Len(s)
    BY <1>5, <2>1
  <2> QED BY <2>1, <2>2, <2>3
<1>8. Len(s) = n - e
  BY <1>2, <1>3, <1>4, <1>7
<1>9. q \in Seq(Latencies) /\ Len(q) = n - e /\ \A i \in 1 .. n - e : q[i] = r[e + i]
  BY <1>1 DEF Recent
<1>10. \A i \in 1 .. n - e : s[i] = q[i]
  <2>1. \A i \in 1 .. n - e : i \in 1 .. n - k + 1 /\ k + i - 1 = e + i
    BY <1>2, <1>3, <1>4
  <2> QED BY <1>7, <1>9, <2>1
<1>11. q = s
  BY <1>7, <1>8, <1>9, <1>10, SeqEqual
<1> QED BY <1>1, <1>6, <1>11

\* The window moves: a value comes, and when the window is full one goes.
LEMMA WindowMoves ==
    ASSUME NEW r \in Seq(Latencies), NEW q, Recent(r, q), NEW v \in Latencies,
           NEW q1, q1 = Append(IF Len(q) >= Window THEN Tail(q) ELSE q, v), NEW r1, r1 = Append(r, v)
    PROVE  Recent(r1, q1)
<1>1. PICK n, e : n = Len(r) /\ e = Earlier(r)
  OBVIOUS
<1>2. n \in Nat /\ Window \in Nat \ {0}
  BY <1>1, LenProperties, MetricsAssumption
<1>3. e \in 0 .. n /\ e = IF n > Window THEN n - Window ELSE 0
  BY <1>1, <1>2 DEF Earlier
<1>4. r1 \in Seq(Latencies) /\ Len(r1) = n + 1 /\ r1[n + 1] = v /\ \A i \in 1 .. n : r1[i] = r[i]
  BY <1>1, AppendProperties
<1>5. q \in Seq(Latencies) /\ Len(q) = n - e /\ \A i \in 1 .. n - e : q[i] = r[e + i]
  BY <1>1 DEF Recent
<1>6. PICK d : d = Earlier(r1)
  OBVIOUS
<1>7. d = IF n + 1 > Window THEN n + 1 - Window ELSE 0
  <2>1. Len(r1) = n + 1
    BY <1>4
  <2>2. CASE n + 1 > Window
    <3>1. Len(r1) > Window
      BY <2>1, <2>2
    <3>2. d = Len(r1) - Window
      BY <1>6, <3>1 DEF Earlier
    <3>3. Len(r1) - Window = n + 1 - Window
      BY <1>2, <2>1
    <3> QED BY <2>2, <3>2, <3>3
  <2>3. CASE ~(n + 1 > Window)
    BY <1>6, <2>1, <2>3 DEF Earlier
  <2> QED BY <2>2, <2>3
<1>8. CASE Len(q) >= Window
  <2>1. d = e + 1 /\ n - e = Window
    BY <1>2, <1>3, <1>5, <1>7, <1>8
  <2>2. q # <<>>
    BY <1>2, <1>5, <2>1
  <2>3. PICK t : t = Tail(q)
    OBVIOUS
  <2>4. t \in Seq(Latencies) /\ Len(t) = Window - 1 /\ \A i \in 1 .. Window - 1 : t[i] = q[i + 1]
    BY <1>5, <2>1, <2>2, <2>3, TailShift
  <2>5. q1 = Append(t, v)
    BY <1>8, <2>3
  <2>6. /\ q1 \in Seq(Latencies) /\ Len(q1) = (Window - 1) + 1 /\ q1[(Window - 1) + 1] = v
        /\ \A i \in 1 .. Window - 1 : q1[i] = t[i]
    <3>1. PICK w : w = Window - 1
      OBVIOUS
    <3>2. t \in Seq(Latencies) /\ w = Len(t)
      BY <2>4, <3>1
    <3>3. Appended(Latencies, t, w, v, q1)
      BY <2>5, <3>2, Appending
    <3> QED BY <3>1, <3>3 DEF Appended
  <2>7. Len(q1) = (n + 1) - d
    <3>1. Len(q1) = Window
      BY <1>2, <2>6
    <3>2. e \in Int /\ n \in Int
      BY <1>2, <1>3
    <3>3. (n + 1) - (e + 1) = n - e
      BY <3>2
    <3> QED BY <2>1, <3>1, <3>3
  <2>8. ASSUME NEW i \in 1 .. Window PROVE q1[i] = r1[d + i]
    <3>1. CASE i = Window
      <4>1. i = (Window - 1) + 1 /\ d + i = n + 1
        BY <1>2, <1>3, <2>1, <3>1
      <4> QED BY <1>4, <2>6, <4>1
    <3>2. CASE i # Window
      <4>1. /\ i \in 1 .. Window - 1 /\ i + 1 \in 1 .. n - e /\ e + (i + 1) = d + i
            /\ d + i \in 1 .. n
        BY <1>2, <1>3, <2>1, <3>2
      <4>2. q1[i] = q[i + 1]
        BY <2>4, <2>6, <4>1
      <4>3. q[i + 1] = r[e + (i + 1)]
        BY <1>5, <4>1
      <4>4. r1[d + i] = r[d + i]
        BY <1>4, <4>1
      <4> QED BY <4>1, <4>2, <4>3, <4>4
    <3> QED BY <3>1, <3>2
  <2>9. Len(q1) = Window
    BY <1>2, <2>6
  <2> QED BY <1>4, <1>6, <2>6, <2>7, <2>8, <2>9 DEF Recent
<1>9. CASE ~(Len(q) >= Window)
  <2>1. d = 0 /\ e = 0
    BY <1>2, <1>3, <1>5, <1>7, <1>9
  <2>2. q1 = Append(q, v)
    BY <1>9
  <2>3. /\ q1 \in Seq(Latencies) /\ Len(q1) = n + 1 /\ q1[n + 1] = v /\ \A i \in 1 .. n : q1[i] = q[i]
    <3>1. Len(q) = n
      BY <1>2, <1>5, <2>1
    <3>2. Appended(Latencies, q, n, v, q1)
      BY <1>5, <2>2, <3>1, Appending
    <3> QED BY <3>2 DEF Appended
  <2>4. ASSUME NEW i \in 1 .. n + 1 PROVE q1[i] = r1[d + i]
    <3>1. d + i = i /\ e + i = i /\ (i = n + 1 \/ i \in 1 .. n) /\ 1 .. n - e = 1 .. n
      BY <1>2, <2>1
    <3> QED BY <1>4, <1>5, <2>3, <3>1
  <2>5. (n + 1) - d = n + 1
    BY <1>2, <2>1
  <2> QED BY <1>4, <1>6, <2>3, <2>4, <2>5 DEF Recent
<1> QED BY <1>8, <1>9

\* Taking the head off takes its value off.
LEMMA TailShrinks ==
    ASSUME NEW q \in Seq(Latencies), q # <<>>
    PROVE  Grown(Tail(q), Head(q), q)
<1>1. PICK t, h : t = Tail(q) /\ h = Head(q)
  OBVIOUS
<1>2. t \in Seq(Latencies) /\ h \in Latencies
  BY <1>1, TailShift
<1>3. <<>> \in Seq(Latencies) /\ Len(<<>>) = 0
  OBVIOUS
<1>4. Append(<<>>, h) \o t = <<>> \o q
  BY <1>1, <1>3, MoveHead
<1>5. <<>> \o q = q /\ <<>> \o t = t /\ Append(<<>>, h) = <<>> \o <<h>>
  BY <1>2, <1>3, ConcatEmptySeq, AppendIsConcat
<1>6. q = (<<>> \o <<h>>) \o t
  BY <1>4, <1>5
<1>7. Inserted(Latencies, t, 0, h, q)
  BY <1>2, <1>3, <1>5, <1>6, Middle
<1> QED BY <1>1, <1>7, InsertedGrown

\* Append adds a value.
LEMMA AppendGrows ==
    ASSUME NEW q \in Seq(Latencies), NEW v \in Latencies, NEW q1, q1 = Append(q, v)
    PROVE  Grown(q, v, q1)
<1>1. <<>> \in Seq(Latencies)
  OBVIOUS
<1>2. PICK p : p = q \o <<v>>
  OBVIOUS
<1>3. p = q1 /\ p \in Seq(Latencies)
  BY <1>2, AppendIsConcat, AppendProperties
<1>4. p \o <<>> = p /\ q \o <<>> = q
  BY <1>3, ConcatEmptySeq
<1>5. q1 = (q \o <<v>>) \o <<>>
  BY <1>2, <1>3, <1>4
<1>6. PICK m : m = Len(q)
  OBVIOUS
<1>7. Inserted(Latencies, q, m, v, q1)
  BY <1>1, <1>4, <1>5, <1>6, Middle
<1> QED BY <1>7, InsertedGrown

\* Lists of the same values stay so when the same value is added to both, or taken from both.
LEMMA SameGrown ==
    ASSUME NEW s, NEW r, NEW v, NEW s1, NEW r1, Grown(s, v, s1), Grown(r, v, r1)
    PROVE  SameValues(s, r) <=> SameValues(s1, r1)
<1>1. /\ Len(s) \in Nat /\ Len(r) \in Nat /\ Len(s1) = Len(s) + 1 /\ Len(r1) = Len(r) + 1
  BY LenProperties DEF Grown
<1>2. ASSUME NEW x
      PROVE  Len(Keep(s, {x})) = Len(Keep(r, {x})) <=> Len(Keep(s1, {x})) = Len(Keep(r1, {x}))
  <2>1. PICK a, b, d : a = Len(Keep(s, {x})) /\ b = Len(Keep(r, {x})) /\ d = IF x = v THEN 1 ELSE 0
    OBVIOUS
  <2>2. a \in Nat /\ b \in Nat /\ d \in Nat
    BY <2>1, KeepType, LenProperties DEF Grown
  <2>3. Len(Keep(s1, {x})) = a + d /\ Len(Keep(r1, {x})) = b + d
    BY <2>1 DEF Grown
  <2> QED BY <2>1, <2>2, <2>3
<1>3. Len(s) = Len(r) <=> Len(s1) = Len(r1)
  BY <1>1
<1>4. (\A x \in Latencies : Len(Keep(s, {x})) = Len(Keep(r, {x})))
        <=> \A x \in Latencies : Len(Keep(s1, {x})) = Len(Keep(r1, {x}))
  BY <1>2, Zenon
<1> QED BY <1>3, <1>4 DEF SameValues

\* A list of the same values has the same values.
LEMMA SameHas ==
    ASSUME NEW s \in Seq(Latencies), NEW r \in Seq(Latencies), SameValues(s, r),
           NEW v \in Latencies, Has(r, v)
    PROVE  Has(s, v)
<1>1. PICK a, b : a = Keep(s, {v}) /\ b = Keep(r, {v})
  OBVIOUS
<1>2. a \in Seq(Latencies) /\ b \in Seq(Latencies) /\ Len(a) = Len(b)
  BY <1>1, KeepType DEF SameValues
<1>3. Has(b, v)
  BY <1>1, KeepMembers
<1>4. Len(a) >= 1
  BY <1>2, <1>3, LenProperties DEF Has
<1>5. Has(a, a[1])
  BY <1>2, <1>4, LenProperties DEF Has
<1>6. a[1] \in {v} /\ Has(s, a[1])
  BY <1>1, <1>5, KeepMembers
<1> QED BY <1>6

\* The recorders between their two steps.
Between == {t \in Recorders : recorder[t] = "count"}

Readings == [at : Nat, completed : Nat, values : Seq(Nat)]

MetricsTypes ==
    /\ samples \in Seq(Latencies) /\ recorded \in Seq(Latencies) /\ completed \in Nat
    /\ recorder \in [Recorders -> {"idle", "count"}]
    /\ reading \in Readings /\ resets \in Nat /\ (resetting => resets # 0)

\* Before a reset, what is not counted yet is between the two steps of a recorder.
CountsExact ==
    resets = 0 =>
      /\ completed + Cardinality(Between) = Len(recorded)
      /\ reading.completed <= Len(recorded)
      /\ reading.completed > 0 => \A i \in 1 .. Len(reading.values) : reading.values[i] > 0

Views(s, q, r) == s \in Seq(Latencies) /\ Recent(r, q) /\ Ascending(s) /\ SameValues(s, q)

MetricsInv == MetricsTypes /\ Views(samples, order, recorded) /\ CountsExact

\* A value is recorded in the histogram.
LEMMA Recording ==
    ASSUME NEW s \in Seq(Latencies), NEW q, NEW r \in Seq(Latencies), Views(s, q, r), NEW v \in Latencies,
           NEW s1, s1 = Insort(IF Len(s) >= Window THEN Evicted(s, Head(q)) ELSE s, v),
           NEW q1, q1 = Append(IF Len(s) >= Window THEN Tail(q) ELSE q, v), NEW r1, r1 = Append(r, v)
    PROVE  Views(s1, q1, r1)
<1>1. Recent(r, q) /\ Ascending(s) /\ SameValues(s, q)
  BY DEF Views
<1>2. q \in Seq(Latencies) /\ Len(s) = Len(q)
  BY <1>1 DEF Recent, SameValues
<1>3. Recent(r1, q1)
  BY <1>1, <1>2, WindowMoves
<1>4. PICK s0, q0 : /\ s0 = IF Len(s) >= Window THEN Evicted(s, Head(q)) ELSE s
                    /\ q0 = IF Len(s) >= Window THEN Tail(q) ELSE q
  OBVIOUS
<1>5. s0 \in Seq(Latencies) /\ q0 \in Seq(Latencies) /\ Ascending(s0) /\ SameValues(s0, q0)
  <2>1. CASE Len(s) >= Window
    <3>1. q # <<>>
      BY <1>2, <2>1, MetricsAssumption
    <3>2. PICK h : h = Head(q)
      OBVIOUS
    <3>3. s0 = Evicted(s, h) /\ q0 = Tail(q)
      BY <1>4, <2>1, <3>2
    <3>4. h \in Latencies /\ Has(q, h)
      BY <1>2, <3>1, <3>2, TailShift, HasTail
    <3>5. Has(s, h)
      BY <1>1, <1>2, <3>4, SameHas
    <3>6. Grown(s0, h, s) /\ Ascending(s0)
      BY <1>1, <3>3, <3>4, <3>5, EvictionKeepsOrder
    <3>7. Grown(q0, h, q)
      BY <1>2, <3>1, <3>2, <3>3, TailShrinks
    <3>8. SameValues(s0, q0)
      BY <1>1, <3>6, <3>7, SameGrown
    <3> QED BY <3>6, <3>7, <3>8 DEF Grown
  <2>2. CASE ~(Len(s) >= Window)
    BY <1>1, <1>2, <1>4, <2>2
  <2> QED BY <2>1, <2>2
<1>6. s1 = Insort(s0, v) /\ q1 = Append(q0, v)
  BY <1>4
<1>7. Grown(s0, v, s1) /\ Ascending(s1)
  BY <1>5, <1>6, InsortKeepsOrder
<1>8. Grown(q0, v, q1)
  BY <1>5, <1>6, AppendGrows
<1>9. SameValues(s1, q1)
  BY <1>5, <1>7, <1>8, SameGrown
<1> QED BY <1>3, <1>7, <1>9 DEF Views, Grown

\* Percentiles of a window that has values are among them.
LEMMA PercentileValue ==
    ASSUME NEW s \in Seq(Latencies), NEW quantile \in {50, 95, 99, 100}
    PROVE  Percentile(s, quantile) \in Nat /\ (s # <<>> => Percentile(s, quantile) > 0)
<1>1. CASE s = <<>>
  BY <1>1 DEF Percentile
<1>2. CASE s # <<>>
  <2>1. PICK n : n = Len(s)
    OBVIOUS
  <2>2. n \in Nat \ {0}
    BY <1>2, <2>1, EmptySeq
  <2>3. PICK i : i = (quantile * (n - 1)) \div 100 + 1
    OBVIOUS
  <2>4. i \in 1 .. n
    <3>1. CASE quantile = 50
      BY <2>2, <2>3, <3>1
    <3>2. CASE quantile = 95
      BY <2>2, <2>3, <3>2
    <3>3. CASE quantile = 99
      BY <2>2, <2>3, <3>3
    <3>4. CASE quantile = 100
      BY <2>2, <2>3, <3>4
    <3> QED BY <3>1, <3>2, <3>3, <3>4
  <2>5. s[i] \in Nat \ {0}
    <3>1. s[i] \in Latencies
      BY <2>1, <2>4, ElementOfSeq
    <3> QED BY <3>1, MetricsAssumption
  <2>6. Percentile(s, quantile) = s[i]
    BY <1>2, <2>1, <2>3 DEF Percentile
  <2> QED BY <2>5, <2>6
<1> QED BY <1>1, <1>2

\* Empty views agree.
LEMMA NoValues == Views(<<>>, <<>>, <<>>)
<1>1. <<>> \in Seq(Latencies) /\ Len(<<>>) = 0 /\ 1 .. 0 = {}
  OBVIOUS
<1>2. Earlier(<<>>) = 0
  BY <1>1, MetricsAssumption DEF Earlier
<1> QED BY <1>1, <1>2 DEF Views, Recent, Ascending, SameValues

\* The first state.
LEMMA InitMetrics == MetricsInit => MetricsInv
<1> SUFFICES ASSUME MetricsInit PROVE MetricsInv
  OBVIOUS
<1>1. /\ samples = <<>> /\ order = <<>> /\ recorded = <<>> /\ completed = 0
      /\ recorder = [t \in Recorders |-> "idle"] /\ reading = NoReading /\ ~resetting /\ resets = 0
  BY DEF MetricsInit
<1>2. <<>> \in Seq(Latencies) /\ <<>> \in Seq(Nat) /\ Len(<<>>) = 0 /\ 1 .. 0 = {}
  OBVIOUS
<1>3. MetricsTypes
  BY <1>1, <1>2 DEF MetricsTypes, Readings, NoReading
<1>4. Views(samples, order, recorded)
  BY <1>1, <1>2, NoValues
<1>5. CountsExact
  <2>1. Between = {}
    BY <1>1 DEF Between
  <2> QED BY <1>1, <1>2, <2>1, FS_EmptySet DEF CountsExact, NoReading
<1> QED BY <1>3, <1>4, <1>5 DEF MetricsInv

\* Reading the latencies.
LEMMA NextReading == MetricsInv /\ (ReadCounters \/ ReadPercentile \/ SnapshotDone) => MetricsInv'
<1> SUFFICES ASSUME MetricsInv, ReadCounters \/ ReadPercentile \/ SnapshotDone PROVE MetricsInv'
  OBVIOUS
<1>1. UNCHANGED <<samples, order, recorded, completed, recorder, resetting, resets>>
  BY DEF ReadCounters, ReadPercentile, SnapshotDone
<1>2. MetricsTypes /\ Views(samples, order, recorded) /\ CountsExact
  BY DEF MetricsInv
<1>3. Views(samples, order, recorded)' /\ Between' = Between
  BY <1>1, <1>2 DEF Between
<1>4. SUFFICES /\ reading' \in Readings
               /\ resets = 0 => /\ reading'.completed <= Len(recorded)
                                /\ reading'.completed > 0 =>
                                     \A i \in 1 .. Len(reading'.values) : reading'.values[i] > 0
  BY <1>1, <1>2, <1>3 DEF MetricsInv, MetricsTypes, CountsExact
<1>5. CASE ReadCounters
  <2>1. reading' = [at |-> 1, completed |-> completed, values |-> <<>>]
    BY <1>5 DEF ReadCounters
  <2>2. resets = 0 => completed <= Len(recorded)
    <3>1. Cardinality(Between) \in Nat
      BY FS_Subset, FS_CardinalityType, MetricsAssumption DEF Between
    <3>2. completed \in Nat /\ Len(recorded) \in Nat
      BY <1>2, LenProperties DEF MetricsTypes
    <3> QED BY <1>2, <3>1, <3>2 DEF CountsExact
  <2>3. <<>> \in Seq(Nat) /\ Len(<<>>) = 0 /\ 1 .. 0 = {}
    OBVIOUS
  <2> QED BY <1>2, <2>1, <2>2, <2>3 DEF MetricsTypes, Readings
<1>6. CASE ReadPercentile
  <2>1. PICK k, q, x, l : /\ k = reading.at /\ q = Quantiles[k] /\ x = Percentile(samples, q)
                          /\ l = reading.values
    OBVIOUS
  <2>2. k \in DOMAIN Quantiles /\ reading' = [reading EXCEPT !.at = k + 1, !.values = Append(l, x)]
    BY <1>6, <2>1 DEF ReadPercentile
  <2>3. q \in {50, 95, 99, 100}
    <3>1. k \in 1 .. 4
      BY <2>2 DEF Quantiles
    <3>2. k = 1 \/ k = 2 \/ k = 3 \/ k = 4
      BY <3>1
    <3> QED BY <2>1, <3>2 DEF Quantiles
  <2>4. samples \in Seq(Latencies) /\ reading \in Readings /\ k \in Nat /\ l \in Seq(Nat)
    BY <1>2, <2>1 DEF MetricsTypes, Readings
  <2>5. x \in Nat /\ (samples # <<>> => x > 0)
    <3>1. Percentile(samples, q) \in Nat /\ (samples # <<>> => Percentile(samples, q) > 0)
      BY <2>3, <2>4, PercentileValue
    <3> QED BY <2>1, <3>1
  <2>6. PICK n, new : n = Len(l) /\ new = Append(l, x)
    OBVIOUS
  <2>7. Appended(Nat, l, n, x, new)
    BY <2>4, <2>5, <2>6, Appending
  <2>8. n \in Nat /\ new \in Seq(Nat) /\ Len(new) = n + 1 /\ new[n + 1] = x /\ \A i \in 1 .. n : new[i] = l[i]
    BY <2>4, <2>6, <2>7, LenProperties DEF Appended
  <2>9. PICK k1 : k1 = k + 1
    OBVIOUS
  <2>10. k1 \in Nat /\ reading' = [reading EXCEPT !.at = k1, !.values = new]
    BY <2>2, <2>4, <2>6, <2>9
  <2>11. reading' \in Readings
    BY <2>4, <2>8, <2>10 DEF Readings
  <2>12. reading'.completed = reading.completed /\ reading'.values = new
    BY <2>4, <2>10 DEF Readings
  <2>13. ASSUME resets = 0, reading.completed > 0 PROVE \A i \in 1 .. Len(new) : new[i] > 0
    <3>1. reading.completed <= Len(recorded) /\ \A i \in 1 .. n : l[i] > 0
      BY <1>2, <2>1, <2>6, <2>13 DEF CountsExact
    <3>2. samples # <<>>
      <4>1. Len(recorded) # 0 /\ Len(recorded) \in Nat /\ reading.completed \in Nat
        BY <1>2, <2>4, <2>13, <3>1, LenProperties DEF MetricsTypes, Readings
      <4>2. Len(samples) = Len(recorded) - Earlier(recorded)
        BY <1>2 DEF Views, Recent, SameValues
      <4>3. Len(samples) # 0
        BY <4>1, <4>2, MetricsAssumption DEF Earlier
      <4> QED BY <4>3
    <3> QED BY <2>5, <2>8, <3>1, <3>2
  <2> QED BY <1>2, <2>11, <2>12, <2>13 DEF CountsExact
<1>7. CASE SnapshotDone
  <2>1. reading' = [at |-> 0, completed |-> 0, values |-> <<>>]
    BY <1>7 DEF SnapshotDone, NoReading
  <2>2. <<>> \in Seq(Nat) /\ Len(<<>>) = 0 /\ 1 .. 0 = {} /\ Len(recorded) \in Nat
    BY <1>2, LenProperties DEF MetricsTypes
  <2> QED BY <2>1, <2>2 DEF Readings
<1> QED BY <1>5, <1>6, <1>7

\* A completion, in two steps.
LEMMA NextRecord ==
    MetricsInv /\ (\E t \in Recorders : RecordCount(t) \/ \E v \in Latencies : RecordLatency(t, v)) => MetricsInv'
<1> SUFFICES ASSUME MetricsInv, NEW t \in Recorders, RecordCount(t) \/ \E v \in Latencies : RecordLatency(t, v)
             PROVE  MetricsInv'
  OBVIOUS
<1>1. /\ samples \in Seq(Latencies) /\ recorded \in Seq(Latencies) /\ completed \in Nat
      /\ recorder \in [Recorders -> {"idle", "count"}] /\ reading \in Readings /\ resets \in Nat
      /\ (resetting => resets # 0) /\ Views(samples, order, recorded) /\ CountsExact
  BY DEF MetricsInv, MetricsTypes
<1>2. PICK n, B : n = Len(recorded) /\ B = Between
  OBVIOUS
<1>3. n \in Nat /\ IsFiniteSet(B) /\ Cardinality(B) \in Nat
  BY <1>1, <1>2, LenProperties, FS_Subset, FS_CardinalityType, MetricsAssumption DEF Between
<1>4. CASE RecordCount(t)
  <2>1. /\ recorder[t] = "count" /\ completed' = completed + 1 /\ recorder' = [recorder EXCEPT ![t] = "idle"]
        /\ UNCHANGED <<samples, order, recorded, reading, resetting, resets>>
    BY <1>4 DEF RecordCount
  <2>2. Between' = B \ {t} /\ t \in B
    BY <1>1, <1>2, <2>1 DEF Between
  <2>3. Cardinality(Between') = Cardinality(B) - 1
    BY <1>3, <2>2, FS_RemoveElement
  <2>4. resets = 0 => completed' + Cardinality(Between') = n
    BY <1>1, <1>2, <1>3, <2>1, <2>3 DEF CountsExact
  <2>5. CountsExact'
    BY <1>1, <1>2, <2>1, <2>4 DEF CountsExact
  <2>6. MetricsTypes'
    BY <1>1, <2>1 DEF MetricsTypes
  <2> QED BY <1>1, <2>1, <2>5, <2>6 DEF MetricsInv
<1>5. ASSUME NEW v \in Latencies, RecordLatency(t, v) PROVE MetricsInv'
  <2>1. /\ recorder[t] = "idle" /\ recorded' = Append(recorded, v)
        /\ samples' = Insort(IF Len(samples) >= Window THEN Evicted(samples, Head(order)) ELSE samples, v)
        /\ order' = Append(IF Len(samples) >= Window THEN Tail(order) ELSE order, v)
        /\ recorder' = [recorder EXCEPT ![t] = "count"]
        /\ UNCHANGED <<completed, reading, resetting, resets>>
    BY <1>5 DEF RecordLatency, WindowWithoutOldest
  <2>2. samples' \in Seq(Latencies) /\ Views(samples', order', recorded')
    <3>1. Views(samples', order', recorded')
      BY <1>1, <2>1, Recording
    <3> QED BY <3>1 DEF Views
  <2>3. Appended(Latencies, recorded, n, v, recorded')
    BY <1>1, <1>2, <2>1, Appending
  <2>4. recorded' \in Seq(Latencies) /\ Len(recorded') = n + 1
    BY <2>3 DEF Appended
  <2>5. Between' = B \cup {t} /\ t \notin B
    BY <1>1, <1>2, <2>1 DEF Between
  <2>6. Cardinality(Between') = Cardinality(B) + 1
    BY <1>3, <2>5, FS_AddElement
  <2>7. CountsExact'
    <3>1. resets = 0 => completed' + Cardinality(Between') = n + 1
      BY <1>1, <1>2, <1>3, <2>1, <2>6 DEF CountsExact
    <3>2. resets = 0 => reading.completed <= n + 1
      <4>1. reading.completed \in Nat
        BY <1>1 DEF Readings
      <4> QED BY <1>1, <1>2, <1>3, <4>1 DEF CountsExact
    <3> QED BY <1>1, <2>1, <2>4, <3>1, <3>2 DEF CountsExact
  <2>8. MetricsTypes'
    BY <1>1, <2>1, <2>2, <2>4 DEF MetricsTypes
  <2> QED BY <2>2, <2>7, <2>8 DEF MetricsInv
<1> QED BY <1>4, <1>5

\* A reset, in two steps.
LEMMA NextReset == MetricsInv /\ (ResetCounters \/ ResetHistogram) => MetricsInv'
<1> SUFFICES ASSUME MetricsInv, ResetCounters \/ ResetHistogram PROVE MetricsInv'
  OBVIOUS
<1>1. /\ samples \in Seq(Latencies) /\ recorded \in Seq(Latencies) /\ completed \in Nat
      /\ recorder \in [Recorders -> {"idle", "count"}] /\ reading \in Readings /\ resets \in Nat
      /\ (resetting => resets # 0) /\ Views(samples, order, recorded) /\ CountsExact
  BY DEF MetricsInv, MetricsTypes
<1>2. CASE ResetCounters
  <2>1. /\ completed' = 0 /\ resets' = resets + 1
        /\ UNCHANGED <<samples, order, recorded, recorder, reading>>
    BY <1>2 DEF ResetCounters
  <2>2. resets' \in Nat /\ resets' # 0
    BY <1>1, <2>1
  <2>3. MetricsTypes'
    BY <1>1, <2>1, <2>2 DEF MetricsTypes
  <2>4. CountsExact'
    BY <2>2 DEF CountsExact
  <2> QED BY <1>1, <2>1, <2>3, <2>4 DEF MetricsInv
<1>3. CASE ResetHistogram
  <2>1. /\ resetting /\ ~resetting' /\ samples' = <<>> /\ order' = <<>> /\ recorded' = <<>>
        /\ UNCHANGED <<completed, recorder, reading, resets>>
    BY <1>3 DEF ResetHistogram
  <2>2. <<>> \in Seq(Latencies)
    OBVIOUS
  <2>3. Views(samples', order', recorded')
    BY <2>1, NoValues
  <2>4. MetricsTypes'
    BY <1>1, <2>1, <2>2 DEF MetricsTypes
  <2>5. CountsExact'
    BY <1>1, <2>1 DEF CountsExact
  <2> QED BY <2>3, <2>4, <2>5 DEF MetricsInv
<1> QED BY <1>2, <1>3

\* The views agree in every state.
THEOREM MetricsInvariance == MetricsSpec => []MetricsInv
<1>1. MetricsInv /\ UNCHANGED metricsVars => MetricsInv'
  BY DEF metricsVars, MetricsInv, MetricsTypes, CountsExact, Between, Views
<1>2. MetricsInv /\ [MetricsNext]_metricsVars => MetricsInv'
  BY <1>1, NextReading, NextRecord, NextReset DEF MetricsNext
<1> QED BY <1>2, InitMetrics, PTL DEF MetricsSpec

\* Whatever was evicted among equal values, and however recorders, snapshots and resets interleave: the
\* sorted window holds the latest values, and what a snapshot counts has been recorded.
THEOREM MetricsConsistentTheorem == MetricsSpec => []MetricsConsistent
<1>1. MetricsInv => MetricsConsistent
  <2> SUFFICES ASSUME MetricsInv PROVE MetricsConsistent
    OBVIOUS
  <2>1. /\ recorded \in Seq(Latencies) /\ completed \in Nat /\ reading \in Readings
        /\ Recent(recorded, order) /\ Ascending(samples) /\ SameValues(samples, order) /\ CountsExact
    BY DEF MetricsInv, MetricsTypes, Views
  <2>2. WindowIsRecent
    <3>1. order = SubSeq(recorded, Max({1, Len(recorded) - Window + 1}), Len(recorded))
      BY <2>1, RecentIsSubSeq
    <3> QED BY <2>1, <3>1 DEF WindowIsRecent
  <2>3. CountedWasRecorded
    <3>1. Cardinality(Between) \in Nat /\ Len(recorded) \in Nat
      BY <2>1, LenProperties, FS_Subset, FS_CardinalityType, MetricsAssumption DEF Between
    <3>2. resets = 0 => completed <= Len(recorded)
      BY <2>1, <3>1 DEF CountsExact
    <3>3. DOMAIN reading.values = 1 .. Len(reading.values)
      BY <2>1, LenProperties DEF Readings
    <3> QED BY <2>1, <3>2, <3>3 DEF CountsExact, CountedWasRecorded
  <2> QED BY <2>2, <2>3 DEF MetricsConsistent
<1> QED BY <1>1, MetricsInvariance, PTL

-----------------------------------------------------------------------------
(* Sampling: the acceptance rule is exact, and rows are independent.       *)

\* What the target wanted is accepted or left over.
LEMMA AcceptedAndResidual ==
    ASSUME NEW p, NEW q, Natural(p, Vocabulary), Natural(q, Vocabulary)
    PROVE  /\ Natural(Accepted(p, q), Vocabulary) /\ Natural(Residual(p, q), Vocabulary)
           /\ \A x \in Vocabulary : p[x] = Accepted(p, q)[x] + Residual(p, q)[x]
<1> SUFFICES ASSUME NEW x \in Vocabulary
             PROVE  /\ Accepted(p, q)[x] \in Nat /\ Residual(p, q)[x] \in Nat
                    /\ p[x] = Accepted(p, q)[x] + Residual(p, q)[x]
  BY DEF Natural
<1>1. PICK a, b : a = p[x] /\ b = q[x]
  OBVIOUS
<1>2. a \in Nat /\ b \in Nat
  BY <1>1 DEF Natural
<1>3. Min({a, b}) = IF a <= b THEN a ELSE b
  BY <1>2, MinOfTwo
<1>4. Accepted(p, q)[x] = IF a <= b THEN a ELSE b
  BY <1>1, <1>3 DEF Accepted
<1>5. Residual(p, q)[x] = IF a > b THEN a - b ELSE 0
  BY <1>1 DEF Residual
<1> QED BY <1>1, <1>2, <1>4, <1>5

\* The acceptance rule is exact for two measures of the same mass.
LEMMA EqualMassExact ==
    ASSUME NEW p, p = [x \in Vocabulary |-> p[x]], NEW q, Natural(p, Vocabulary), Natural(q, Vocabulary),
           Mass(p, Vocabulary) = Mass(q, Vocabulary)
    PROVE  ExactFor(p, q)
<1>1. PICK a, r : a = Accepted(p, q) /\ r = Residual(p, q)
  OBVIOUS
<1>2. Natural(a, Vocabulary) /\ Natural(r, Vocabulary) /\ \A x \in Vocabulary : p[x] = a[x] + r[x]
  BY <1>1, AcceptedAndResidual
<1>3. IsFiniteSet(Vocabulary)
  BY SamplingAssumption
<1>4. PICK A, R : A = Mass(a, Vocabulary) /\ R = Mass(r, Vocabulary)
  OBVIOUS
<1>5. A \in Nat /\ R \in Nat
  BY <1>2, <1>3, <1>4, SumNat DEF Mass
<1>6. Mass(p, Vocabulary) = A + R
  BY <1>2, <1>3, <1>4, SumPlus DEF Mass
<1>7. Mass(q, Vocabulary) - A = R
  BY <1>5, <1>6
<1>8. ASSUME R = 0 PROVE a = p
  <2>1. ASSUME NEW x \in Vocabulary PROVE r[x] = 0
    <3>1. R = SumFunctionOnSet(r, Vocabulary \ {x}) + r[x]
      BY <1>2, <1>3, <1>4, SumRemove DEF Mass
    <3>2. SumFunctionOnSet(r, Vocabulary \ {x}) \in Nat /\ r[x] \in Nat
      BY <1>2, <1>3, SumRemove
    <3> QED BY <1>8, <3>1, <3>2
  <2>2. \A x \in Vocabulary : a[x] = p[x]
    BY <1>2, <2>1 DEF Natural
  <2>3. a = [x \in Vocabulary |-> a[x]]
    BY <1>1 DEF Accepted
  <2> QED BY <2>2, <2>3
<1>9. ASSUME R # 0, NEW x \in Vocabulary PROVE R > 0 /\ a[x] * R + R * r[x] = p[x] * R
  <2>1. PICK m, n : m = a[x] /\ n = r[x]
    OBVIOUS
  <2>2. m \in Nat /\ n \in Nat /\ p[x] = m + n
    BY <1>2, <2>1 DEF Natural
  <2>3. (m + n) * R = m * R + R * n
    BY <1>5, <2>2
  <2> QED BY <1>5, <1>9, <2>1, <2>2, <2>3
<1>10. R # 0 => R > 0
  BY <1>5
<1> QED BY <1>1, <1>4, <1>7, <1>8, <1>9, <1>10 DEF ExactFor

\* The filtered weights of a row are numbers.
LEMMA DistributionNatural ==
    ASSUME NEW row \in SamplingRows
    PROVE  Natural(Distribution(row), Vocabulary)
<1>1. \A x \in Vocabulary : row.w[x] \in Nat
  BY SamplingAssumption DEF SamplingRows
<1> QED BY <1>1 DEF Distribution, Natural

\* Over their common denominator two rows have the same mass.
LEMMA CommonMass ==
    ASSUME NEW row \in SamplingRows, NEW other \in SamplingRows
    PROVE  /\ Natural(Common(row, other), Vocabulary)
           /\ Mass(Common(row, other), Vocabulary)
                = Mass(Distribution(row), Vocabulary) * Mass(Distribution(other), Vocabulary)
<1>1. PICK d, c, g : /\ d = Distribution(row) /\ c = Mass(Distribution(other), Vocabulary)
                     /\ g = Common(row, other)
  OBVIOUS
<1>2. IsFiniteSet(Vocabulary)
  BY SamplingAssumption
<1>3. Natural(d, Vocabulary)
  BY <1>1, DistributionNatural
<1>4. c \in Nat
  BY <1>1, <1>2, DistributionNatural, SumNat DEF Mass
<1>5. \A x \in Vocabulary : g[x] = d[x] * c
  BY <1>1 DEF Common
<1>6. \A m, n \in Nat : m * n \in Nat
  OBVIOUS
<1>7. Natural(g, Vocabulary)
  BY <1>3, <1>4, <1>5, <1>6 DEF Natural
<1>8. SumFunctionOnSet(g, Vocabulary) = SumFunctionOnSet(d, Vocabulary) * c
  BY <1>2, <1>3, <1>4, <1>5, SumScale
<1> QED BY <1>1, <1>7, <1>8 DEF Mass

\* Whatever the draft proposes and however the two rows are filtered, the token that follows is
\* drawn with exactly the target's probability, and a rejection has a residual to draw from.
THEOREM AcceptanceExactTheorem == SamplingSpec => []AcceptanceExact
<1>1. SamplingInit(Seq(SamplingRows)) => AcceptanceExact
  <2> SUFFICES ASSUME rows \in Seq(SamplingRows), NEW i \in DOMAIN rows, NEW j \in DOMAIN rows
               PROVE  ExactFor(Common(rows[i], rows[j]), Common(rows[j], rows[i]))
    BY DEF SamplingInit, AcceptanceExact
  <2>1. PICK a, b : a = rows[i] /\ b = rows[j]
    OBVIOUS
  <2>2. a \in SamplingRows /\ b \in SamplingRows
    BY <2>1, LenProperties, ElementOfSeq
  <2>3. PICK p, q : p = Common(a, b) /\ q = Common(b, a)
    OBVIOUS
  <2>4. Natural(p, Vocabulary) /\ Natural(q, Vocabulary)
    BY <2>2, <2>3, CommonMass
  <2>5. PICK m, n : m = Mass(Distribution(a), Vocabulary) /\ n = Mass(Distribution(b), Vocabulary)
    OBVIOUS
  <2>6. m \in Nat /\ n \in Nat
    BY <2>2, <2>5, DistributionNatural, SumNat, SamplingAssumption DEF Mass
  <2>7. Mass(p, Vocabulary) = m * n /\ Mass(q, Vocabulary) = n * m
    BY <2>2, <2>3, <2>5, CommonMass
  <2>8. m * n = n * m
    BY <2>6
  <2>9. p = [x \in Vocabulary |-> p[x]]
    BY <2>3 DEF Common
  <2>10. ExactFor(p, q)
    BY <2>4, <2>7, <2>8, <2>9, EqualMassExact
  <2> QED BY <2>1, <2>3, <2>10
<1>2. AcceptanceExact /\ UNCHANGED rows => AcceptanceExact'
  BY DEF AcceptanceExact
<1> QED BY <1>1, <1>2, PTL DEF SamplingSpec

\* A function of natural numbers has a greatest value on a finite set.
LEMMA GreatestValue ==
    ASSUME NEW S, IsFiniteSet(S), S # {}, NEW f, Natural(f, S)
    PROVE  \E x \in S : \A y \in S : f[y] <= f[x]
<1>1. PICK T, n : T = {f[x] : x \in S} /\ n = SumFunctionOnSet(f, S)
  OBVIOUS
<1>2. n \in Nat
  BY <1>1, SumNat
<1>3. T \subseteq Nat /\ T # {}
  BY <1>1 DEF Natural
<1>4. ASSUME NEW t \in T PROVE t <= n
  <2>1. PICK x \in S : t = f[x]
    BY <1>1
  <2>2. n = SumFunctionOnSet(f, S \ {x}) + f[x] /\ SumFunctionOnSet(f, S \ {x}) \in Nat /\ f[x] \in Nat
    BY <1>1, SumRemove
  <2> QED BY <2>1, <2>2
<1>5. \E t \in T : \A u \in T : u <= t
  BY <1>2, <1>3, <1>4, GreatestNat
<1> QED BY <1>1, <1>5

\* The limit of a batch is the largest top_k in it.
LEMMA BatchLimit ==
    ASSUME NEW company, company \subseteq SamplingRows, NEW top \in company,
           \A b \in company : b.k <= top.k
    PROVE  Max({b.k : b \in company}) = top.k
<1>1. PICK T : T = {b.k : b \in company}
  OBVIOUS
<1>2. \A b \in company : b.k \in Nat
  BY SamplingAssumption DEF SamplingRows
<1>3. T \subseteq Nat /\ top.k \in T /\ \A t \in T : top.k >= t
  BY <1>1, <1>2
<1>4. PICK m : m = Max(T)
  OBVIOUS
<1>5. m \in T /\ \A t \in T : m >= t
  BY <1>3, <1>4 DEF Max
<1>6. m = top.k
  <2>1. PICK k : k = top.k
    OBVIOUS
  <2>2. m \in Nat /\ k \in Nat /\ m >= k /\ k >= m
    BY <1>3, <1>5, <2>1
  <2>3. m = k
    BY <2>2
  <2> QED BY <2>1, <2>3
<1> QED BY <1>1, <1>4, <1>6

\* With the whole mass allowed the nucleus is everything.
LEMMA WholeNucleus ==
    ASSUME NEW w, NEW S, IsFiniteSet(S), Natural(w, S)
    PROVE  Nucleus(w, S, 100) = S
<1>1. ASSUME NEW x \in S, NEW T, T = {y \in S : Sooner(w, y, x)}
      PROVE  100 * Mass(w, T) <= 100 * Mass(w, S)
  <2>1. PICK m, n, r : /\ m = SumFunctionOnSet(w, T) /\ n = SumFunctionOnSet(w, S)
                       /\ r = SumFunctionOnSet(w, S \ T)
    OBVIOUS
  <2>2. T \in SUBSET S
    BY <1>1
  <2>3. n = m + r /\ m \in Nat /\ r \in Nat
    BY <2>1, <2>2, SumSubset
  <2>4. 100 * m <= 100 * n
    BY <2>3
  <2> QED BY <2>1, <2>4 DEF Mass
<1> QED BY <1>1 DEF Nucleus

\* At least n tokens weigh as much as the n-th largest weight, so that top_k keeps one.
LEMMA LargestKeepsSome ==
    ASSUME NEW w \in [Vocabulary -> Weights], NEW n \in 1 .. Cardinality(Vocabulary)
    PROVE  {x \in Vocabulary : w[x] >= Largest(w, n)} # {}
<1> DEFINE Above(v) == {x \in Vocabulary : w[x] > v}
           From(v) == {x \in Vocabulary : w[x] >= v}
           C == {v \in Range(w) : Cardinality(Above(v)) < n}
<1>1. IsFiniteSet(Vocabulary) /\ Vocabulary # {} /\ Weights \subseteq Nat
  BY SamplingAssumption
<1>2. Cardinality(Vocabulary) \in Nat
  BY <1>1, FS_CardinalityType
<1>3. Natural(w, Vocabulary) /\ Range(w) = {w[x] : x \in Vocabulary} /\ Range(w) \subseteq Nat
  BY <1>1 DEF Natural, Range
<1>4. PICK top \in Vocabulary : \A y \in Vocabulary : w[y] <= w[top]
  BY <1>1, <1>3, GreatestValue
<1>5. Above(w[top]) = {}
  <2>1. \A y \in Vocabulary : w[y] \in Nat
    BY <1>3 DEF Natural
  <2> QED BY <1>4, <2>1
<1>6. w[top] \in C
  BY <1>3, <1>5, FS_EmptySet
<1>7. C \subseteq Nat
  BY <1>3
<1> HIDE DEF C
<1>8. PICK v \in C : \A u \in C : v <= u
  BY <1>6, <1>7, LeastNat
<1> USE DEF C
<1>9. v \in Range(w) /\ v \in Nat /\ Cardinality(Above(v)) < n
  BY <1>7, <1>8
<1>10. Cardinality(From(v)) >= n
  <2> DEFINE Below == {u \in Range(w) : u < v}
  <2>1. CASE Below = {}
    <3>1. \A x \in Vocabulary : w[x] >= v
      BY <1>3, <1>9, <2>1
    <3>2. From(v) = Vocabulary
      BY <3>1
    <3> QED BY <1>2, <3>2
  <2>2. CASE Below # {}
    <3>1. Below \subseteq Nat /\ \A u \in Below : u <= v
      BY <1>3, <1>9
    <3> HIDE DEF Below
    <3>2. PICK u \in Below : \A t \in Below : t <= u
      BY <1>9, <2>2, <3>1, GreatestNat
    <3> USE DEF Below
    <3>3. \A x \in Vocabulary : w[x] > u <=> w[x] >= v
      BY <1>3, <1>9, <3>1, <3>2
    <3>4. Above(u) = From(v)
      BY <3>3
    <3>5. u \notin C
      BY <1>8, <1>9, <3>1, <3>2
    <3>6. ~(Cardinality(Above(u)) < n)
      BY <3>5
    <3>7. Cardinality(From(v)) \in Nat
      BY <1>1, FS_Subset, FS_CardinalityType
    <3> QED BY <3>4, <3>6, <3>7
  <2> QED BY <2>1, <2>2
<1>11. \E u \in Range(w) : Cardinality(Above(u)) < n /\ Cardinality(From(u)) >= n
  BY <1>9, <1>10
<1>12. PICK g : g = Largest(w, n)
  OBVIOUS
<1>13. Cardinality(From(g)) >= n
  BY <1>11, <1>12 DEF Largest
<1>14. From(g) # {}
  BY <1>13, FS_EmptySet
<1> QED BY <1>12, <1>14

\* top_p never drops the top token.
LEMMA NucleusKeepsSome ==
    ASSUME NEW w \in [Vocabulary -> Weights], NEW S, S \subseteq Vocabulary, S # {}, NEW p
    PROVE  Nucleus(w, S, p) # {}
<1>1. IsFiniteSet(S) /\ Natural(w, S) /\ \A x \in S : x \in Nat /\ w[x] \in Nat
  <2>1. \A x \in Vocabulary : w[x] \in Nat
    BY SamplingAssumption
  <2>2. Vocabulary \subseteq Nat
    BY FS_CardinalityType, SamplingAssumption
  <2>3. IsFiniteSet(S)
    BY FS_Subset, SamplingAssumption
  <2> QED BY <2>1, <2>2, <2>3 DEF Natural
<1>2. PICK top \in S : \A y \in S : w[y] <= w[top]
  BY <1>1, GreatestValue
<1>3. PICK T : T = {x \in S : w[x] = w[top]}
  OBVIOUS
<1>4. T \subseteq Nat /\ T # {}
  BY <1>1, <1>3
<1>5. PICK x \in T : \A y \in T : x <= y
  BY <1>4, LeastNat
<1>6. x \in S /\ w[x] = w[top] /\ \A y \in S : w[y] = w[x] => x <= y
  BY <1>3, <1>5
<1>7. ASSUME NEW y \in S PROVE ~Sooner(w, y, x)
  <2>1. w[y] \in Nat /\ w[x] \in Nat /\ x \in Nat /\ y \in Nat /\ w[y] <= w[x]
    BY <1>1, <1>2, <1>6
  <2> QED BY <1>6, <2>1 DEF Sooner
<1>8. {y \in S : Sooner(w, y, x)} = {}
  BY <1>7
<1> QED BY <1>6, <1>8 DEF Nucleus

\* _distribution always leaves a token to draw.
LEMMA SupportKeepsSome ==
    ASSUME NEW row \in SamplingRows
    PROVE  Support(row) # {}
<1>1. PICK k, n : k = row.k /\ n = Cardinality(Vocabulary)
  OBVIOUS
<1>2. k \in Nat /\ n \in Nat /\ row.w \in [Vocabulary -> Weights]
  BY <1>1, FS_CardinalityType, SamplingAssumption DEF SamplingRows
<1>3. n # 0
  BY <1>1, FS_EmptySet, SamplingAssumption
<1>4. PICK limit : limit = Min({k, n})
  OBVIOUS
<1>5. limit = IF k <= n THEN k ELSE n
  BY <1>2, <1>4, MinOfTwo
<1>6. PICK kept : kept = IF k = 0 THEN Vocabulary
                         ELSE {x \in Vocabulary : row.w[x] >= Largest(row.w, limit)}
  OBVIOUS
<1>7. kept \subseteq Vocabulary /\ kept # {}
  <2>1. k # 0 => limit \in 1 .. n
    BY <1>2, <1>3, <1>5
  <2>2. k # 0 => {x \in Vocabulary : row.w[x] >= Largest(row.w, limit)} # {}
    BY <1>1, <1>2, <2>1, LargestKeepsSome
  <2> QED BY <1>6, <2>2, SamplingAssumption
<1>8. Support(row) = IF row.p < 100 THEN Nucleus(row.w, kept, row.p) ELSE kept
  BY <1>1, <1>4, <1>6 DEF Support
<1>9. Nucleus(row.w, kept, row.p) # {}
  BY <1>2, <1>7, NucleusKeepsSome
<1> QED BY <1>7, <1>8, <1>9

\* In a batch whose top_k are within the vocabulary, a row that is not greedy keeps what
\* speculative.py keeps for it.
LEMMA SampleRowIsSupport ==
    ASSUME NEW company, company \subseteq SamplingRows, NEW row \in company, ~row.greedy,
           NEW top \in company, \A b \in company : b.k <= top.k, top.k <= Cardinality(Vocabulary)
    PROVE  SampleRow(row, company) = Support(row)
<1>1. PICK limit : limit = Max({b.k : b \in company})
  OBVIOUS
<1>2. PICK k : k = row.k
  OBVIOUS
<1>3. PICK n : n = Cardinality(Vocabulary)
  OBVIOUS
<1>4. limit = top.k
  BY <1>1, BatchLimit
<1>5. n \in Nat /\ limit \in Nat /\ k \in Nat /\ k <= limit /\ limit <= n /\ k <= n
  <2>1. n \in Nat
    BY <1>3, FS_CardinalityType, SamplingAssumption
  <2>2. row \in SamplingRows /\ top \in SamplingRows
    OBVIOUS
  <2>3. k \in Nat /\ top.k \in Nat
    BY <1>2, <2>2, SamplingAssumption DEF SamplingRows
  <2> QED BY <1>2, <1>3, <1>4, <2>1, <2>3
<1>6. PICK kept : kept = IF k = 0 THEN Vocabulary
                         ELSE {x \in Vocabulary : row.w[x] >= Largest(row.w, k)}
  OBVIOUS
<1>7. k # 0 => Min({k, limit}) = k /\ Min({k, n}) = k
  BY <1>5, MinOfTwo
<1>8. Support(row) = IF row.p < 100 THEN Nucleus(row.w, kept, row.p) ELSE kept
  BY <1>2, <1>3, <1>6, <1>7 DEF Support
<1>9. SampleRow(row, company) =
        IF \E b \in company : b.p < 100 THEN Nucleus(row.w, kept, row.p) ELSE kept
  <2>1. k # 0 => Threshold(row.w, k, limit) = Largest(row.w, k)
    BY <1>5, <1>7 DEF Threshold
  <2>2. (IF limit = 0 \/ k = 0 THEN Vocabulary
         ELSE {x \in Vocabulary : row.w[x] >= Threshold(row.w, k, limit)}) = kept
    BY <1>5, <1>6, <2>1
  <2>3. ~TopkRaises(limit)
    BY <1>3, <1>5 DEF TopkRaises
  <2> QED BY <1>1, <1>2, <2>2, <2>3 DEF SampleRow
<1>10. row \in SamplingRows
  OBVIOUS
<1>11. row.p \in 1 .. 100 /\ \A x \in Vocabulary : row.w[x] \in Nat
  BY <1>10, SamplingAssumption DEF SamplingRows
<1>12. CASE row.p < 100
  BY <1>8, <1>9, <1>12
<1>13. CASE ~(row.p < 100)
  <2>1. row.p = 100
    BY <1>11, <1>13
  <2>2. kept \subseteq Vocabulary
    BY <1>6
  <2>3. IsFiniteSet(kept) /\ Natural(row.w, kept)
    BY <1>11, <2>2, FS_Subset, SamplingAssumption DEF Natural
  <2>4. Nucleus(row.w, kept, 100) = kept
    BY <2>3, WholeNucleus
  <2>5. SampleRow(row, company) = kept
    BY <1>9, <2>1, <2>4
  <2> QED BY <1>8, <1>13, <2>5
<1> QED BY <1>12, <1>13

\* A batch raises exactly when its largest top_k is above the vocabulary; otherwise a row is drawn
\* as it is alone.
LEMMA SampledOrRaised ==
    ASSUME NEW company, company \subseteq SamplingRows, NEW row \in company,
           NEW top \in company, \A b \in company : b.k <= top.k
    PROVE  /\ SampleRow(row, company) = {} <=> top.k > Cardinality(Vocabulary)
           /\ top.k <= Cardinality(Vocabulary) =>
                /\ SampleRow(row, company) = SampleRow(row, {row})
                /\ ~row.greedy => SampleRow(row, company) = Support(row)
<1>1. Max({b.k : b \in company}) = top.k
  BY BatchLimit
<1>2. row \in SamplingRows /\ {row} \subseteq SamplingRows /\ top \in SamplingRows
  OBVIOUS
<1>3. row.k \in Nat /\ top.k \in Nat /\ row.k <= top.k /\ \A b \in {row} : b.k <= row.k
  <2>1. \A b \in SamplingRows : b.k \in Nat
    BY SamplingAssumption DEF SamplingRows
  <2> QED BY <1>2, <2>1
<1>4. Max({b.k : b \in {row}}) = row.k
  <2>1. PICK alone : alone = {row}
    OBVIOUS
  <2>2. alone \subseteq SamplingRows /\ row \in alone /\ \A b \in alone : b.k <= row.k
    BY <1>2, <1>3, <2>1
  <2>3. Max({b.k : b \in alone}) = row.k
    BY <2>2, BatchLimit
  <2> QED BY <2>1, <2>3
<1>5. PICK n : n = Cardinality(Vocabulary) /\ n \in Nat
  BY FS_CardinalityType, SamplingAssumption
<1>6. CASE top.k > n
  <2>1. TopkRaises(top.k)
    BY <1>5, <1>6 DEF TopkRaises
  <2>2. SampleRow(row, company) = {}
    BY <1>1, <2>1 DEF SampleRow
  <2>3. ~(top.k <= n)
    BY <1>3, <1>5, <1>6
  <2> QED BY <1>5, <1>6, <2>2, <2>3
<1>7. CASE ~(top.k > n)
  <2>1. top.k <= n /\ row.k <= n
    BY <1>3, <1>5, <1>7
  <2>2. CASE row.greedy
    <3>1. ~TopkRaises(top.k) /\ ~TopkRaises(row.k)
      BY <1>3, <1>5, <2>1 DEF TopkRaises
    <3>2. SampleRow(row, company) # {} /\ SampleRow(row, company) = SampleRow(row, {row})
      BY <1>1, <1>4, <2>2, <3>1 DEF SampleRow
    <3> QED BY <1>5, <1>7, <2>2, <3>2
  <2>3. CASE ~row.greedy
    <3>1. SampleRow(row, company) = Support(row)
      BY <1>5, <2>1, <2>3, SampleRowIsSupport
    <3>2. SampleRow(row, {row}) = Support(row)
      BY <1>2, <1>3, <1>5, <2>1, <2>3, SampleRowIsSupport
    <3>3. Support(row) # {}
      BY <1>2, SupportKeepsSome
    <3> QED BY <1>5, <1>7, <3>1, <3>2, <3>3
  <2> QED BY <2>2, <2>3
<1> QED BY <1>6, <1>7

\* A top_k above the vocabulary, in whichever row, leaves no row of the batch a token; without one,
\* which other rows are in the batch changes neither what a row may draw nor the token of a greedy
\* one, and _sample keeps for a row what _distribution keeps.
THEOREM SampledByOwnSettingsTheorem == SamplingSpec => []SampledByOwnSettings
<1>1. SamplingInit(Seq(SamplingRows)) => SampledByOwnSettings
  <2> SUFFICES ASSUME rows \in Seq(SamplingRows), NEW i \in DOMAIN rows
               PROVE  LET drawn == SampleRow(rows[i], Range(rows))
                      IN  /\ drawn = {} <=> \E j \in DOMAIN rows : rows[j].k > Cardinality(Vocabulary)
                          /\ drawn # {} => /\ drawn = SampleRow(rows[i], {rows[i]})
                                           /\ ~rows[i].greedy => drawn = Support(rows[i])
    BY DEF SamplingInit, SampledByOwnSettings
  <2>1. PICK row, company : row = rows[i] /\ company = Range(rows)
    OBVIOUS
  <2>2. DOMAIN rows = 1 .. Len(rows) /\ Len(rows) \in Nat
    BY LenProperties
  <2>3. \A j \in DOMAIN rows : rows[j] \in SamplingRows
    BY LenProperties, ElementOfSeq
  <2>4. \A j \in DOMAIN rows : rows[j].k \in Nat
    BY <2>3, SamplingAssumption DEF SamplingRows
  <2>5. row \in company /\ company \subseteq SamplingRows
    BY <2>1, <2>3 DEF Range
  <2>6. PICK f : f = [j \in DOMAIN rows |-> rows[j].k]
    OBVIOUS
  <2>7. IsFiniteSet(DOMAIN rows) /\ DOMAIN rows # {} /\ Natural(f, DOMAIN rows)
    <3>1. IsFiniteSet(1 .. Len(rows))
      BY <2>2, FS_Interval
    <3>2. \A j \in DOMAIN rows : f[j] \in Nat
      BY <2>4, <2>6
    <3> QED BY <2>2, <3>1, <3>2 DEF Natural
  <2>8. PICK t \in DOMAIN rows : \A j \in DOMAIN rows : f[j] <= f[t]
    BY <2>7, GreatestValue
  <2>9. PICK top : top = rows[t]
    OBVIOUS
  <2>10. top \in company /\ \A b \in company : b.k <= top.k
    BY <2>1, <2>6, <2>8, <2>9 DEF Range
  <2>11. PICK n : n = Cardinality(Vocabulary) /\ n \in Nat
    BY FS_CardinalityType, SamplingAssumption
  <2>12. top.k \in Nat /\ (top.k > n <=> \E j \in DOMAIN rows : rows[j].k > n)
    <3>1. \A j \in DOMAIN rows : rows[j].k <= top.k
      BY <2>6, <2>8, <2>9
    <3> QED BY <2>4, <2>9, <2>11, <3>1
  <2>13. PICK drawn : drawn = SampleRow(row, company)
    OBVIOUS
  <2>14. /\ drawn = {} <=> top.k > n
         /\ top.k <= n => drawn = SampleRow(row, {row}) /\ (~row.greedy => drawn = Support(row))
    BY <2>5, <2>10, <2>11, <2>13, SampledOrRaised
  <2> QED BY <2>1, <2>11, <2>12, <2>13, <2>14
<1>2. SampledByOwnSettings /\ UNCHANGED rows => SampledByOwnSettings'
  BY DEF SampledByOwnSettings
<1> QED BY <1>1, <1>2, PTL DEF SamplingSpec

=============================================================================

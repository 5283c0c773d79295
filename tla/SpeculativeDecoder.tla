------------------------- MODULE SpeculativeDecoder -------------------------
(***************************************************************************)
(* Speculative decoding (python/cudaforge/speculative.py): a draft model   *)
(* proposes a span of tokens, one pass of the target model checks them     *)
(* all, and both models' KV caches are cut back to what was accepted.      *)
(*                                                                         *)
(* A cache is the sequence of tokens the model has ingested, and a model   *)
(* answers for the history it really has: what the cache holds followed    *)
(* by what it is fed.  The draft may propose anything.                     *)
(***************************************************************************)
EXTENDS Integers, Sequences, SequencesExt, FiniteSetsExt

CONSTANTS
    Tokens,     \* the vocabulary
    Prompt,     \* input_ids
    Budgets,    \* choices of max_new_tokens
    Lookaheads  \* choices of lookahead

ASSUME DecoderAssumption ==
    /\ Prompt \in Seq(Tokens) /\ Prompt # <<>>
    /\ Budgets \subseteq Nat /\ Lookaheads \subseteq Nat \ {0}

VARIABLES
    job,           \* greedy, budget and lookahead of this call of generate
    chain,         \* what the target model generates on its own, greedily
    context,       \* every token settled so far, prompt included
    targetCache, targetIngested,
    draftCache, draftIngested,
    stats          \* SpeculativeStats

decoderVars == <<job, chain, context, targetCache, targetIngested, draftCache, draftIngested, stats>>

DecoderJobs == [greedy : BOOLEAN, budget : Budgets, lookahead : Lookaheads]

NoStats == [target_calls |-> 0, draft_calls |-> 0, proposed |-> 0, accepted |-> 0, generated |-> 0]

DecoderInit(jobs, tokens) ==
    /\ job \in jobs
    /\ chain \in [1 .. job.budget + 1 -> tokens]
    /\ context = Prompt
    /\ targetCache = <<>> /\ targetIngested = 0 /\ draftCache = <<>> /\ draftIngested = 0
    /\ stats = NoStats

Ideal == Prompt \o chain
Generated == Len(context) - Len(Prompt)
Generating == Generated < job.budget

-----------------------------------------------------------------------------
(* One block of the loop of generate.                                      *)

\* The argmax of the target's logits after a history; anything when the history is not
\* one it would have produced itself.
TargetSays(history, anything) ==
    IF IsStrictPrefix(history, Ideal) THEN Ideal[Len(history) + 1] ELSE anything

\* _crop: so many tokens off the end, as a count.
Crop(held, current, wanted) ==
    IF current > wanted THEN SubSeq(held, 1, Len(held) - (current - wanted)) ELSE held

\* The span of a block: lookahead, or what the budget leaves.
ToGo == job.budget - Generated
Span == IF job.lookahead < ToGo THEN job.lookahead ELSE ToGo

\* What the target has ingested after its pass: its cache, what is settled since, the proposals.
Fed(proposals) == targetCache \o SubSeq(context, targetIngested + 1, Len(context)) \o proposals

\* The target's choice after the first i proposals, read off the logits of that one pass.
Answer(proposals, i, anything) ==
    TargetSays(SubSeq(Fed(proposals), 1, Len(Fed(proposals)) - Len(proposals) + i), anything)

\* _verify: how many proposals hold, and the token after them.  When sampling, any
\* number may hold: Sampling.tla has the rule.
Verdicts(proposals, anything) ==
    LET span == Len(proposals)
        first == Min({i \in 0 .. span : i = span \/ Answer(proposals, i, anything) # proposals[i + 1]})
    IN  IF job.greedy THEN {[taken |-> first, replacement |-> Answer(proposals, first, anything)]}
        ELSE [taken : 0 .. span, replacement : Tokens]

\* _propose: the draft's cache after it has proposed, one token per call; each call feeds the
\* token of the call before, so that the last one is never fed.
Drafted(proposals) ==
    draftCache \o SubSeq(context, draftIngested + 1, Len(context)) \o Front(proposals)

\* Mutation: the draft is taken to have ingested its last proposal.
DraftPositionOfAll(covered, settled) == settled

\* The draft never feeds its last proposal back to itself.
DraftPosition(covered, settled) == IF covered < settled THEN covered ELSE settled

\* The block is settled as far as the budget goes, and both caches are cut back.
Settle(proposals, v) ==
    LET block == Append(SubSeq(proposals, 1, v.taken), v.replacement)
        settled == SubSeq(block, 1, Min({Len(block), ToGo}))
        position == Len(context) + v.taken
        covered == Len(context) + Len(proposals) - 1
    IN  /\ context' = context \o settled
        /\ targetIngested' = position
        /\ targetCache' = Crop(Fed(proposals), Len(context) + Len(proposals), position)
        /\ draftIngested' = DraftPosition(covered, position)
        /\ draftCache' = Crop(Drafted(proposals), covered, DraftPosition(covered, position))
        /\ stats' = [target_calls |-> stats.target_calls + 1,
                     draft_calls |-> stats.draft_calls + Len(proposals),
                     proposed |-> stats.proposed + Len(proposals),
                     accepted |-> stats.accepted + v.taken,
                     generated |-> stats.generated + Len(settled)]

Block ==
    /\ Generating
    /\ \E proposals \in [1 .. Span -> Tokens], anything \in Tokens :
         \E v \in Verdicts(proposals, anything) : Settle(proposals, v)
    /\ UNCHANGED <<job, chain>>

DecoderSpec == DecoderInit(DecoderJobs, Tokens) /\ [][Block]_decoderVars

-----------------------------------------------------------------------------
(* Properties.                                                             *)

\* Whatever the draft proposes, greedy speculation produces what the target alone would,
\* never over the budget and at least one token per call of the target; and while the loop
\* goes on, each cache holds exactly the settled tokens its model is said to have ingested,
\* although the two models consume the context at different paces and are cut back by counts.
SpeculationIsLossless ==
    /\ job.greedy => IsPrefix(context, Ideal)
    /\ Generated <= job.budget /\ stats.generated = Generated
    /\ stats.target_calls <= Generated /\ stats.accepted <= stats.proposed
    /\ Generating => /\ targetCache = SubSeq(context, 1, targetIngested)
                     /\ draftCache = SubSeq(context, 1, draftIngested)

=============================================================================

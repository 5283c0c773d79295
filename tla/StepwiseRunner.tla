--------------------------- MODULE StepwiseRunner ---------------------------
(***************************************************************************)
(* The step-wise runners behind the continuous batcher:                    *)
(* EchoStepwiseRunner (stepwise.py), which keeps a set of ids, and         *)
(* TransformersStepwiseRunner (stepwise_transformers.py), which keeps one  *)
(* batch row per sequence in a KV cache tensor, an attention mask and the  *)
(* last sampled tokens, and cuts, pads and joins the three by hand.        *)
(*                                                                         *)
(* A mask row is left padding followed by ones.  A token is represented by *)
(* where it came from: the n-th sample of sequence id.                     *)
(***************************************************************************)
EXTENDS Integers, Sequences, SequencesExt, FiniteSetsExt, Filtering

RunnerKinds == {"echo", "transformers"}

\* active: of the echo runner; rows, mask, last, width: _rows, _mask, _last and the
\* sequence length of _cache.
IdleRunner(kind) == [kind |-> kind, active |-> {}, rows |-> <<>>, mask |-> <<>>,
                     last |-> <<>>, width |-> 0]

\* Tokens each runner has emitted when prefill returns.
PrefillTokens(kind) == IF kind = "echo" THEN 0 ELSE 1

\* Ids the runner holds state for.
RowsHeld(run) == run.active \cup ToSet(run.rows)

-----------------------------------------------------------------------------
(* Surgery on the batch.                                                   *)

\* _left_pad of a mask row; a row that is long enough is left alone.
LeftPad(row, to) == [row EXCEPT !.pad = IF @ + row.ones >= to THEN @ ELSE to - row.ones]

Pick(s, positions) == [i \in DOMAIN positions |-> s[positions[i]]]

\* Mutation: the last tokens are not reindexed with the rows.
KeepRowsNotLast(run, keep) ==
    IF keep = <<>> THEN IdleRunner(run.kind)
    ELSE [run EXCEPT !.rows = Pick(@, keep), !.mask = Pick(@, keep)]

\* _keep_rows: cache, mask, last and rows are reindexed together, or cleared together.
KeepRows(run, keep) ==
    IF keep = <<>> THEN IdleRunner(run.kind)
    ELSE [run EXCEPT !.rows = Pick(@, keep), !.mask = Pick(@, keep), !.last = Pick(@, keep)]

\* The positions of the rows of some sequences, in row order.
Positions(run, ids) ==
    Keep([i \in DOMAIN run.rows |-> i], {i \in DOMAIN run.rows : run.rows[i] \in ids})

\* _merge_cache: both sides are padded on the left to a common length and joined.
MergeCache(run, incoming, length) ==
    IF run.rows = <<>> THEN [run EXCEPT !.mask = incoming, !.width = length]
    ELSE LET common == IF run.width > length THEN run.width ELSE length
             all == run.mask \o incoming
         IN  [run EXCEPT !.mask = [i \in DOMAIN all |-> LeftPad(all[i], common)],
                         !.width = common]

-----------------------------------------------------------------------------
(* The protocol.                                                           *)

\* prefill of states, a sequence of [id, tokens]; tokens is the prompt's length.
Prefill(run, states) ==
    IF states = <<>> THEN run
    ELSE IF run.kind = "echo"
      THEN [run EXCEPT !.active = @ \cup {states[i].id : i \in DOMAIN states}]
    ELSE LET length == Max({states[i].tokens : i \in DOMAIN states})
             mask == [i \in DOMAIN states |->
                        LeftPad([pad |-> 0, ones |-> states[i].tokens], length)]
         IN  [MergeCache(run, mask, length) EXCEPT
                !.rows = @ \o [i \in DOMAIN states |-> states[i].id],
                !.last = @ \o [i \in DOMAIN states |-> [id |-> states[i].id, n |-> 1]]]

\* A row after one more token: its mask shows one position more, its last token is the next.
Longer(row) == [row EXCEPT !.ones = @ + 1]
NextToken(token) == [token EXCEPT !.n = @ + 1]

\* Mutation: the rows are taken to be the scheduler's.
DecodeStepUnfiltered(run, unfinished) ==
    IF unfinished = {} \/ run.rows = <<>> THEN run
    ELSE [run EXCEPT !.mask = [i \in DOMAIN @ |-> Longer(@[i])],
                     !.width = @ + 1,
                     !.last = [i \in DOMAIN @ |-> NextToken(@[i])]]

\* decode_step: rows the scheduler no longer runs are dropped, then every row that is
\* left grows by a position and has a new last token.
DecodeStep(run, unfinished) ==
    IF unfinished = {} \/ run.rows = <<>> THEN run
    ELSE LET kept == KeepRows(run, Positions(run, unfinished))
         IN  [kept EXCEPT !.mask = [i \in DOMAIN @ |-> Longer(@[i])],
                          !.width = IF kept.rows = <<>> THEN 0 ELSE @ + 1,
                          !.last = [i \in DOMAIN @ |-> NextToken(@[i])]]

\* evict of every sequence of a set, in any order: discard, or reindex without their rows.
EvictAll(run, ids) ==
    IF run.kind = "echo" THEN [run EXCEPT !.active = @ \ ids]
    ELSE IF ToSet(run.rows) \cap ids = {} THEN run
    ELSE KeepRows(run, Positions(run, ToSet(run.rows) \ ids))

=============================================================================

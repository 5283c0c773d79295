----------------------------- MODULE Filtering -----------------------------
(***************************************************************************)
(* The loops that pass over a list and keep some of its elements, in       *)
(* order.  It does what SelectSeq does for a test that is membership in a  *)
(* set, but by a definition that can be reasoned about: the prover has     *)
(* none for SelectSeq.  FilteringProofs has the lemmas.                    *)
(***************************************************************************)
EXTENDS Integers, Sequences

\* The elements of q that are in S.
Keep(q, S) ==
    LET kept[n \in 0 .. Len(q)] ==
          IF n = 0 THEN <<>>
          ELSE IF q[n] \in S THEN Append(kept[n - 1], q[n]) ELSE kept[n - 1]
    IN  kept[Len(q)]

=============================================================================

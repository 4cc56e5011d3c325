------------------------------- MODULE Lists -------------------------------
(***************************************************************************)
(* What a loop over a container adds up, and what it picks out.            *)
(***************************************************************************)
EXTENDS SequencesExt, Integers

SumOf(w) == FoldLeft(LAMBDA n, k : n + k, 0, w)

\* The elements of s that are in S, in their order.
Picked(s, S) == FlattenSeq([i \in DOMAIN s |-> IF s[i] \in S THEN <<s[i]>> ELSE <<>>])
=============================================================================

------------------------------- MODULE Lists -------------------------------
(***************************************************************************)
(* What the texts are measured and selected with.                          *)
(***************************************************************************)
EXTENDS Integers, SequencesExt

\* The sum of a sequence of numbers.
Total(numbers) ==
  LET upTo[i \in 0..Len(numbers)] == IF i = 0 THEN 0 ELSE upTo[i - 1] + numbers[i]
  IN  upTo[Len(numbers)]

\* The elements of seq at the positions of a set, in order.
Picked(seq, positions) ==
  FoldLeftDomain(LAMBDA out, i : IF i \in positions THEN Append(out, seq[i]) ELSE out, <<>>, seq)
=============================================================================

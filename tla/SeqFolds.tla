------------------------------ MODULE SeqFolds ------------------------------
(***************************************************************************)
(* The few operators on sequences that the modules share, defined on the   *)
(* folds of the community modules.  SequencesExt has them too, but extends *)
(* Bags, whose definitions the prover carries through every obligation of  *)
(* every module above it.                                                  *)
(***************************************************************************)
EXTENDS Naturals, Sequences, FiniteSetsExt

\* The elements of s taken in from the left.
FoldLeft(op(_, _), base, s) ==
  MapThenFoldSet(LAMBDA x, acc : op(acc, x), base, LAMBDA i : s[i], LAMBDA is : Max(is), DOMAIN s)

FlattenSeq(ss) == FoldLeft(LAMBDA acc, s : acc \o s, <<>>, ss)
IsPrefix(p, s) == Len(p) <= Len(s) /\ SubSeq(s, 1, Len(p)) = p
IsSuffix(p, s) == Len(p) <= Len(s) /\ SubSeq(s, Len(s) - Len(p) + 1, Len(s)) = p
Last(s) == s[Len(s)]
=============================================================================

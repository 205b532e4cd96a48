---------------------------- MODULE Subsequences ----------------------------
(* Loops that append some of the elements of a sequence to another one.     *)
EXTENDS Naturals, Sequences, SequencesExt

\* The elements of s at the indices in I, in their order.
ElementsAt(s, I) ==
  FlattenSeq([i \in DOMAIN s |-> IF i \in I THEN <<s[i]>> ELSE <<>>])

\* The first of the elements of s at the indices in I.
FirstAt(s, I) == s[CHOOSE i \in I : \A j \in I : i <= j]
=============================================================================

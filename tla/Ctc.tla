--------------------------------- MODULE Ctc ---------------------------------
(***************************************************************************)
(* Reading text off the recognition model's output (ocr/common/ctc.go).    *)
(* The output has a row of scores per time step, one score per class;      *)
(* class 0 is the blank.  Scores are integers here: the softmax of a row   *)
(* subtracts the same number from all its scores, and only sums and        *)
(* comparisons of scores follow (its floor of 20 below the best score is   *)
(* left out).  Classes are numbered from 0 and kept at index c + 1.        *)
(***************************************************************************)
EXTENDS Integers, Sequences, FiniteSets, SequencesExt, Subsequences

Classes(row) == 0 .. (Len(row) - 1)

\* The lowest of the best classes.
ArgMax(row) ==
  CHOOSE c \in Classes(row) :
    \A d \in Classes(row) : row[d + 1] < row[c + 1] \/ (row[d + 1] = row[c + 1] /\ c <= d)

\* Mutant: a blank does not separate.
DecodeNext_BlankKeepsPrev(acc, c, dict) ==
  IF c = 0 \/ c = acc.prev THEN acc
  ELSE [text |-> IF c <= dict THEN Append(acc.text, c) ELSE acc.text, prev |-> c]

\* A step of DecodeFlat with the best class c: dict is the number of
\* characters in the dictionary; a class beyond it writes nothing.
DecodeNext(acc, c, dict) ==
  IF c = 0 THEN [acc EXCEPT !.prev = -1]
  ELSE IF c = acc.prev THEN acc
  ELSE [text |-> IF c <= dict THEN Append(acc.text, c) ELSE acc.text, prev |-> c]

DecodeLoop(rows, dict) ==
  FoldLeft(LAMBDA acc, row : DecodeNext(acc, ArgMax(row), dict),
           [text |-> <<>>, prev |-> -1], rows)

DecodeFlat(rows, dict) == DecodeLoop(rows, dict).text
-----------------------------------------------------------------------------
(* DecodeBeamFlat.  A beam is a record of a prefix, a score and the last    *)
(* character, -1 after a blank.                                             *)

\* topNIndices: the n best classes (any of those that tie).
TopN(row, n) ==
  LET Better(c, d) == row[c + 1] > row[d + 1] \/ (row[c + 1] = row[d + 1] /\ c < d)
  IN {c \in Classes(row) : Cardinality({d \in Classes(row) : Better(d, c)}) < n}

\* The beams that one beam and one class give: a repeated character gives none.
Extend(beam, c, score) ==
  IF c = 0 THEN {[beam EXCEPT !.score = @ + score, !.prev = -1]}
  ELSE IF c = beam.prev THEN {}
  ELSE {[prefix |-> Append(beam.prefix, c), score |-> beam.score + score, prev |-> c]}

\* newBeams: of the beams with the same prefix the best one stays.
Merged(beams) ==
  {b \in beams : \A x \in beams : x.prefix = b.prefix => x.score <= b.score}

\* topBeams
Widest(beams, width) ==
  {b \in beams : Cardinality({x \in beams : x.score > b.score}) < width}

BeamStep(beams, row, width, topN) ==
  Widest(Merged(UNION {Extend(b, c, row[c + 1]) : b \in beams, c \in TopN(row, topN)}),
         width)

Beams(rows, width, topN) ==
  FoldLeft(LAMBDA beams, row : BeamStep(beams, row, width, topN),
           {[prefix |-> <<>>, score |-> 0, prev |-> -1]}, rows)

\* The texts that may be returned: more than one when beams tie.
DecodeBeamFlat(rows, width, topN, dict) ==
  LET beams == Beams(rows, width, topN)
      best == {b \in beams : \A x \in beams : x.score <= b.score}
      InDict(prefix) == {i \in DOMAIN prefix : prefix[i] <= dict}
  IN IF beams = {} THEN {<<>>}
     ELSE {ElementsAt(b.prefix, InDict(b.prefix)) : b \in best}
-----------------------------------------------------------------------------
\* The rule of CTC: of repeats the first one is a character, if no blank.
Characters(path) ==
  {i \in DOMAIN path : path[i] # 0 /\ (i > 1 => path[i] # path[i - 1])}

\* The text of a path, as far as it is in the dictionary.
Collapse(path, dict) ==
  ElementsAt(path, {i \in Characters(path) : path[i] <= dict})

BestPath(rows) == [t \in DOMAIN rows |-> ArgMax(rows[t])]
=============================================================================

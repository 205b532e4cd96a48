------------------------------- MODULE UITree -------------------------------
(***************************************************************************)
(* What the program makes of a dump of the screen's elements               *)
(* (internal/format): the removal of redundant containers, the tree that   *)
(* the nested formats walk, what each format says of an element, and the   *)
(* lists for a reader with little room.                                    *)
(*                                                                         *)
(* A dump is a sequence of records, in depth-first order, one tree per     *)
(* window, topmost window first; a window's root has parent -1.            *)
(***************************************************************************)
EXTENDS Integers, Sequences, FiniteSets, SequencesExt, Subsequences

\* el.layout: IsLayoutClass(el.ClassName).  el.plain: no text, description,
\* hint or resource id, enabled and neither clickable, focused nor selected.
IdsOf(els) == {els[i].id : i \in DOMAIN els}

\* idToIdx: the element with this id.
ElementOf(els, id) == els[CHOOSE i \in DOMAIN els : els[i].id = id]

Redundant(els) ==
  {els[i].id : i \in {j \in DOMAIN els :
                        els[j].parent >= 0 /\ els[j].layout /\ els[j].plain}}

\* Mutant: one step up only.
FindAncestor_OneStep(els) ==
  [id \in IdsOf(els) \union {-1} |->
     IF id \in Redundant(els) THEN ElementOf(els, id).parent ELSE id]

\* findAncestor: the nearest ancestor that stays, the element itself included.
FindAncestor(els) ==
  LET up[id \in Int] ==
        IF id \in Redundant(els) THEN up[ElementOf(els, id).parent] ELSE id
  IN up

\* calcDepth: the depth once the redundant elements are gone; -1 above a
\* root, 0 for a parent that the dump does not hold.
CalcDepth(els) ==
  LET depth[id \in Int] ==
        IF id < 0 THEN -1
        ELSE IF id \notin IdsOf(els) THEN 0
        ELSE depth[ElementOf(els, id).parent]
               + (IF id \in Redundant(els) THEN 0 ELSE 1)
  IN depth

\* CompactElements: nothing is recomputed when nothing is redundant.
CompactElements(els) ==
  IF Len(els) <= 1 \/ Redundant(els) = {}
  THEN els
  ELSE LET Moved(el) ==
             [el EXCEPT !.parent = IF @ \in Redundant(els)
                                   THEN FindAncestor(els)[@] ELSE @,
                        !.depth  = CalcDepth(els)[el.id]]
           kept == ElementsAt(els, {i \in DOMAIN els : els[i].id \notin Redundant(els)})
       IN [i \in DOMAIN kept |-> Moved(kept[i])]
-----------------------------------------------------------------------------
\* buildTree: the index of the first root (or 0 when there is none), and the
\* children of every element, by index, in the order of the dump.
FirstRoot(els) ==
  LET roots == {i \in DOMAIN els : els[i].parent < 0}
  IN IF roots = {} THEN 1 ELSE CHOOSE i \in roots : \A j \in roots : i <= j

\* Mutant: a parent's id is taken for its position in the dump.
LinkedTo_ByIndex(els, i) ==
  IF els[i].parent + 1 \in DOMAIN els THEN els[i].parent + 1 ELSE FirstRoot(els)

\* The element under which element i is linked: an orphan goes to the root.
LinkedTo(els, i) ==
  IF els[i].parent \in IdsOf(els)
  THEN CHOOSE j \in DOMAIN els : els[j].id = els[i].parent
  ELSE FirstRoot(els)

ChildrenOf(els, i) ==
  {j \in DOMAIN els : els[j].parent >= 0 /\ LinkedTo(els, j) = i}

\* writeYMLNode and writeSimpleXMLNode: the lines below element i, each with
\* its depth of nesting.  The children of a node are written in the order of
\* their ids by yml and in that of the dump by simplexml, which agree.
Nested(els) ==
  LET lines[i \in DOMAIN els] ==
        [d \in Nat |->
           <<[id |-> els[i].id, nesting |-> d]>>
             \o FlattenSeq([j \in DOMAIN els |->
                              IF j \in ChildrenOf(els, i) THEN lines[j][d + 1] ELSE <<>>])]
  IN IF els = <<>> THEN <<>> ELSE lines[FirstRoot(els)][0]

\* ElementsToFlatRef and ElementsToJSONL: one line per element of the dump.
Flat(els) ==
  [i \in DOMAIN els |->
     [id |-> els[i].id, parent |-> els[i].parent, depth |-> els[i].depth]]

FormatRegistry == {"flatref", "jsonl", "simplexml", "yml"}
-----------------------------------------------------------------------------
(* The flat lists.  el.label: has text, description or hint; el.says: its   *)
(* line would say anything at all; el.bounds: left, top, right, bottom.     *)

Filtered(el, isSummary) ==
  isSummary /\ el.layout /\ ~el.clickable /\ ~el.label

\* How many lines are asked for: no more than there are elements.
MaxShow(show, count) == IF show < 0 \/ show > count THEN count ELSE show

\* Mutant: an element that is filtered uses up a line.
ListNext_CountsFiltered(acc, el, isSummary) ==
  IF acc.stopped \/ acc.seen >= acc.limit THEN [acc EXCEPT !.stopped = TRUE]
  ELSE IF Filtered(el, isSummary) THEN [acc EXCEPT !.seen = @ + 1]
  ELSE [acc EXCEPT !.listed = Append(@, el), !.seen = @ + 1]

\* A round of the loop of ElementsForLLM, which extends its limit for every
\* element it filters.
ListNext(acc, el, isSummary) ==
  IF acc.stopped \/ acc.seen >= acc.limit THEN [acc EXCEPT !.stopped = TRUE]
  ELSE IF Filtered(el, isSummary)
  THEN [acc EXCEPT !.limit = @ + 1, !.seen = @ + 1]
  ELSE [acc EXCEPT !.listed = Append(@, el), !.seen = @ + 1]

ListLoop(els, limit, isSummary) ==
  FoldLeft(LAMBDA acc, el : ListNext(acc, el, isSummary),
           [listed |-> <<>>, seen |-> 0, stopped |-> FALSE, limit |-> limit], els)

ElementsForLLM(els, show, isSummary) ==
  LET end == ListLoop(els, MaxShow(show, Len(els)), isSummary)
  IN [listed |-> end.listed,
      more   |-> IF end.stopped THEN Len(els) - end.limit ELSE 0]

\* isOffScreen: the bounds lie entirely beyond the viewport.
IsOffScreen(b, w, h) == b[3] <= 0 \/ b[4] <= 0 \/ b[1] >= w \/ b[2] >= h

\* The device's word that an element is invisible is taken before the bounds.
OffScreen(el, w, h) ==
  ~el.visible \/ (w > 0 /\ h > 0 /\ IsOffScreen(el.bounds, w, h))

\* ElementsForLLMWithViewport takes apart what is on the screen and what is
\* off it; of the latter it counts what has a label or can be clicked.
SplitNext(acc, el, w, h) ==
  IF ~OffScreen(el, w, h) THEN [acc EXCEPT !.on = Append(@, el)]
  ELSE IF el.label \/ el.clickable THEN [acc EXCEPT !.off = @ + 1]
  ELSE acc

Split(els, w, h) ==
  FoldLeft(LAMBDA acc, el : SplitNext(acc, el, w, h), [on |-> <<>>, off |-> 0], els)

\* A round of its second loop, over what is on the screen.
ViewNext(acc, el, isSummary, limit) ==
  IF acc.stopped \/ Len(acc.listed) >= limit THEN [acc EXCEPT !.stopped = TRUE]
  ELSE IF Filtered(el, isSummary) \/ ~el.says THEN acc
  ELSE [acc EXCEPT !.listed = Append(@, el)]

ViewLoop(on, limit, isSummary) ==
  FoldLeft(LAMBDA acc, el : ViewNext(acc, el, isSummary, limit),
           [listed |-> <<>>, stopped |-> FALSE], on)

ElementsForLLMWithViewport(els, show, isSummary, w, h) ==
  LET split == Split(els, w, h)
      limit == MaxShow(show, Len(split.on))
      end == ViewLoop(split.on, limit, isSummary)
  IN [listed |-> end.listed,
      more   |-> IF end.stopped THEN Len(split.on) - limit ELSE 0,
      off    |-> split.off]
=============================================================================

----------------------------- MODULE TextBoxes -----------------------------
(***************************************************************************)
(* Finding the boxes of text in the detection model's map of               *)
(* probabilities (ocr/common/postprocess.go, ocr/postprocess): connected   *)
(* components, the rectangle around each, the score inside it.  Points are *)
(* pairs of integers; a rectangle that is not aligned with the axes is     *)
(* kept with its coordinates along and across one edge of the hull, so     *)
(* that no division and no root is taken before numbers are compared.      *)
(* Growing a box (UnclipBoxPaddle) moves its edges by a distance that is   *)
(* not rational in general, and is left out.                               *)
(***************************************************************************)
EXTENDS Integers, Sequences, FiniteSets, FiniteSetsExt, SequencesExt

\* Row by row, left to right.
Before(p, q) == p[2] < q[2] \/ (p[2] = q[2] /\ p[1] <= q[1])

\* The elements of a finite set as a sequence, by a total order.
InOrder(S, Le(_, _)) ==
  [i \in 1 .. Cardinality(S) |->
     CHOOSE p \in S : Cardinality({q \in S : Le(q, p)}) = i]

\* Mutant: diagonal neighbours do not count.
Neighbours_Four(p) ==
  {q \in (p[1] - 1 .. p[1] + 1) \X (p[2] - 1 .. p[2] + 1) :
     q # p /\ (q[1] = p[1] \/ q[2] = p[2])}

Neighbours(p) ==
  {q \in (p[1] - 1 .. p[1] + 1) \X (p[2] - 1 .. p[2] + 1) : q # p}

\* One round of the flood fill over a set of text pixels: the pixel on top of
\* the stack is visited, its unmarked neighbours are marked and pushed.
Visit(st, text) ==
  IF st.stack = <<>> THEN st
  ELSE LET new == (Neighbours(Last(st.stack)) \intersect text) \ st.visited
       IN [visited |-> st.visited \union new,
           stack |-> Front(st.stack) \o InOrder(new, Before)]

\* The component of pixel p.  A pixel is marked when it is pushed, so that
\* there are no more rounds than pixels.
FloodFill(text, p) ==
  FoldLeft(LAMBDA st, k : Visit(st, text), [visited |-> {p}, stack |-> <<p>>],
           [k \in 1 .. Cardinality(text) |-> k]).visited

Scan(found, p, text, limit) ==
  IF Len(found) >= limit \/ \E i \in DOMAIN found : p \in found[i]
  THEN found ELSE Append(found, FloodFill(text, p))

\* The components in the order of their first pixels, at most limit of them.
Contours(text, limit) ==
  FoldLeft(LAMBDA found, p : Scan(found, p, text, limit), <<>>, InOrder(text, Before))
-----------------------------------------------------------------------------
Cross(o, a, b) ==
  (a[1] - o[1]) * (b[2] - o[2]) - (a[2] - o[2]) * (b[1] - o[1])

\* How many points stay on a chain when p comes: from the end on, those go
\* that do not turn left towards p.
Staying(chain, p) ==
  Max({k \in 0 .. Len(chain) : k < 2 \/ Cross(chain[k - 1], chain[k], p) > 0})

Extended(chain, p) == Append(SubSeq(chain, 1, Staying(chain, p)), p)

\* One chain of Andrew's algorithm.
Chain(points) == FoldLeft(Extended, <<>>, points)

XThenY(p, q) == p[1] < q[1] \/ (p[1] = q[1] /\ p[2] <= q[2])

ConvexHull(points) ==
  LET sorted == InOrder(points, XThenY)
      hull == Front(Chain(sorted)) \o Front(Chain(Reverse(sorted)))
  IN IF Len(sorted) <= 1 \/ hull = <<>> THEN sorted ELSE hull

\* A rectangle: origin o, direction e of one side, and the extent of the
\* points along and across it, all in units of 1 / |e|.
Along(r, p)  == (p[1] - r.o[1]) * r.e[1] + (p[2] - r.o[2]) * r.e[2]
Across(r, p) == (p[2] - r.o[2]) * r.e[1] - (p[1] - r.o[1]) * r.e[2]

RectAlong(points, o, e) ==
  LET r == [o |-> o, e |-> e]
      us == {Along(r, p) : p \in points}
      vs == {Across(r, p) : p \in points}
  IN [o |-> o, e |-> e, u |-> <<Min(us), Max(us)>>, v |-> <<Min(vs), Max(vs)>>]

Norm2(e) == e[1] * e[1] + e[2] * e[2]

\* Width and height times |e|; the area times |e|^2.
Width(r) == r.u[2] - r.u[1]
Height(r) == r.v[2] - r.v[1]
SmallerArea(r, s) ==
  Width(r) * Height(r) * Norm2(s.e) < Width(s) * Height(s) * Norm2(r.e)

AxisAlignedBox(points) == RectAlong(points, <<0, 0>>, <<1, 0>>)

EdgeOf(hull, i) ==
  LET j == (i % Len(hull)) + 1
  IN <<hull[j][1] - hull[i][1], hull[j][2] - hull[i][2]>>
RectOn(hull, i) == RectAlong(ToSet(hull), hull[i], EdgeOf(hull, i))

\* MinAreaRect: the first edge of the hull whose rectangle is the smallest;
\* when the hull has two points, the box along the axes.
MinAreaRect(points) ==
  LET hull == ConvexHull(points)
      best == CHOOSE i \in DOMAIN hull :
                \A j \in DOMAIN hull :
                  IF j < i THEN SmallerArea(RectOn(hull, i), RectOn(hull, j))
                  ELSE ~SmallerArea(RectOn(hull, j), RectOn(hull, i))
  IN IF Len(hull) <= 2 THEN AxisAlignedBox(points) ELSE RectOn(hull, best)

\* Mutant: the lower of the two left corners comes first.
MiniBox_LeftSwapped(c) ==
  LET left == IF c[2][2] > c[1][2] THEN <<c[2], c[1]>> ELSE <<c[1], c[2]>>
      right == IF c[4][2] > c[3][2] THEN <<c[3], c[4]>> ELSE <<c[4], c[3]>>
  IN <<left[1], right[1], right[2], left[2]>>

\* GetMiniBoxes, of corners sorted by XThenY: top left, top right, bottom
\* right, bottom left.
MiniBox(c) ==
  LET left == IF c[2][2] > c[1][2] THEN <<c[1], c[2]>> ELSE <<c[2], c[1]>>
      right == IF c[4][2] > c[3][2] THEN <<c[3], c[4]>> ELSE <<c[4], c[3]>>
  IN <<left[1], right[1], right[2], left[2]>>
-----------------------------------------------------------------------------
(* BoxScoreFast, by the pixels whose probabilities it averages.             *)

BoundingPixels(box, w, h) ==
  LET xs == {box[i][1] : i \in 1 .. 4}
      ys == {box[i][2] : i \in 1 .. 4}
  IN (Max({0, Min(xs)}) .. Min({w, Max(xs)}) - 1)
       \X (Max({0, Min(ys)}) .. Min({h, Max(ys)}) - 1)

IsAxisAligned(box) ==
  LET xd == Cardinality({box[i][1] : i \in 1 .. 4})
      yd == Cardinality({box[i][2] : i \in 1 .. 4})
  IN xd <= 2 /\ yd <= 2

\* The ray from the centre of pixel p to the right crosses the edge from b to
\* a.  Coordinates are doubled, and x < xCross is multiplied by b's height
\* over a.
CrossesEdge(p, a, b) ==
  LET x == 2 * p[1] + 1
      y == 2 * p[2] + 1
      lhs == (x - 2 * a[1]) * (b[2] - a[2])
      rhs == (b[1] - a[1]) * (y - 2 * a[2])
  IN /\ (2 * a[2] > y) # (2 * b[2] > y)
     /\ IF b[2] > a[2] THEN lhs < rhs ELSE lhs > rhs

Crossings(p, box) ==
  {i \in 1 .. 4 : CrossesEdge(p, box[i], box[IF i = 1 THEN 4 ELSE i - 1])}

PointInPolygon(p, box) == Cardinality(Crossings(p, box)) % 2 = 1

ScoredPixels(box, w, h) ==
  IF IsAxisAligned(box) THEN BoundingPixels(box, w, h)
  ELSE {p \in BoundingPixels(box, w, h) : PointInPolygon(p, box)}
=============================================================================

-------------------------- MODULE TextBoxesProofs --------------------------
(***************************************************************************)
(* Proofs about the geometry of text detection, for bitmaps and rectangles *)
(* of any size: the pixels that are scored inside a rectangle, the pieces  *)
(* of text that the flood fills find, the hull of a piece, and the         *)
(* smallest of the rectangles on the edges of the hull.                    *)
(***************************************************************************)
EXTENDS AlgorithmsProofs

-----------------------------------------------------------------------------
(* Rectangles and the mask.  A rectangle that is not aligned with the axes  *)
(* has a side b down and a side a up from its leftmost corner; X and Y are  *)
(* the (doubled) coordinates of a point from that corner, and s1 to s4 are  *)
(* its distances from the edges (times their lengths).                      *)

LEMMA Signs ==
  ASSUME NEW x \in Int, NEW y \in Int
  PROVE  /\ x > 0 /\ y > 0 => x * y > 0
         /\ x > 0 /\ y >= 0 => x * y >= 0
         /\ x > 0 /\ y < 0 => x * y < 0
         /\ x < 0 /\ y < 0 => x * y > 0
         /\ x < 0 /\ y > 0 => x * y < 0
         /\ x < 0 /\ y >= 0 => x * y <= 0
         /\ x > 0 /\ y <= 0 => x * y <= 0
         /\ x > 0 /\ x * y > 0 => y > 0
         /\ x > 0 /\ x * y < 0 => y < 0
         /\ x > 0 /\ x * y >= 0 => y >= 0
OBVIOUS

\* What the sides and the coordinates have to do with each other.
LEMMA SidesAndPlace ==
  ASSUME NEW a1 \in Int, NEW a2 \in Int, NEW b1 \in Int, NEW b2 \in Int,
         NEW X \in Int, NEW Y \in Int
  PROVE  (b1 * a2 - b2 * a1) * Y = a2 * (b1 * Y - b2 * X) + b2 * (a2 * X - a1 * Y)
OBVIOUS

LEMMA AreaPositive ==
  ASSUME NEW a1 \in Int, NEW a2 \in Int, NEW b1 \in Int, NEW b2 \in Int,
         a1 > 0, a2 > 0, b1 > 0, b2 < 0
  PROVE  b1 * a2 - b2 * a1 \in Int /\ b1 * a2 - b2 * a1 > 0
<1>1. PICK u \in Int : u = b1 * a2 /\ u > 0
  BY Signs
<1>2. PICK v \in Int : v = b2 * a1 /\ v < 0
  BY Signs
<1> QED
  BY <1>1, <1>2

LEMMA Scaled ==
  ASSUME NEW k \in Int, NEW x \in Int, NEW y \in Int
  PROVE  /\ k > 0 => (x < y <=> k * x < k * y)
         /\ k < 0 => (x < y <=> k * x > k * y)
<1>1. k * (y - x) = k * y - k * x
  OBVIOUS
<1>2. PICK d \in Int : d = y - x
  OBVIOUS
<1>3. PICK u \in Int, v \in Int, w \in Int : u = k * x /\ v = k * y /\ w = k * d /\ w = v - u
  BY <1>1, <1>2
<1>4. /\ k > 0 => (w > 0 <=> d > 0)
      /\ k < 0 => (w < 0 <=> d > 0)
  <2>1. d > 0 \/ d = 0 \/ d < 0
    OBVIOUS
  <2>2. d = 0 => w = 0
    BY <1>3
  <2> QED
    BY <1>3, <2>1, <2>2, Signs
<1> QED
  BY <1>2, <1>3, <1>4

\* Of four conditions, an odd number holds.
OddOf(k1, k2, k3, k4) == ~((k1 <=> k2) <=> (k3 <=> k4))

\* s1 to s4 are the sides of a point at height Y, c1 to c4 say which edges a
\* ray from it to the right crosses; K is the (doubled) area.
Sides(a2, b2, K, Y, s1, s2, s3, s4) ==
  /\ a2 > 0 /\ b2 < 0 /\ K > 0 /\ Y # 0 /\ Y # 2 * a2 + 2 * b2
  /\ s3 = 2 * K - s1 /\ s2 = 2 * K - s4
  /\ K * Y = a2 * s1 + b2 * s4

Tests(a2, b2, Y, s1, s2, s3, s4, c1, c2, c3, c4) ==
  /\ c1 <=> (2 * b2 < Y /\ Y < 0 /\ s1 < 0)
  /\ c2 <=> (2 * b2 < Y /\ Y < 2 * a2 + 2 * b2 /\ s2 > 0)
  /\ c3 <=> (2 * a2 + 2 * b2 < Y /\ Y < 2 * a2 /\ s3 > 0)
  /\ c4 <=> (0 < Y /\ Y < 2 * a2 /\ s4 < 0)

\* The ray of a point inside crosses an odd number of edges, and no other ray
\* does.
LEMMA MaskOfSides ==
  ASSUME NEW a2 \in Int, NEW b2 \in Int, NEW K \in Int, NEW Y \in Int,
         NEW s1 \in Int, NEW s2 \in Int, NEW s3 \in Int, NEW s4 \in Int,
         NEW c1 \in BOOLEAN, NEW c2 \in BOOLEAN, NEW c3 \in BOOLEAN, NEW c4 \in BOOLEAN,
         Sides(a2, b2, K, Y, s1, s2, s3, s4),
         Tests(a2, b2, Y, s1, s2, s3, s4, c1, c2, c3, c4)
  PROVE  /\ s1 > 0 /\ s2 > 0 /\ s3 > 0 /\ s4 > 0 => OddOf(c1, c2, c3, c4)
         /\ OddOf(c1, c2, c3, c4) => s1 >= 0 /\ s2 >= 0 /\ s3 >= 0 /\ s4 >= 0
<1>a. /\ a2 > 0 /\ b2 < 0 /\ K > 0 /\ Y # 0 /\ Y # 2 * a2 + 2 * b2
      /\ s3 = 2 * K - s1 /\ s2 = 2 * K - s4
      /\ K * Y = a2 * s1 + b2 * s4
  BY DEF Sides
<1>b. /\ c1 <=> (2 * b2 < Y /\ Y < 0 /\ s1 < 0)
      /\ c2 <=> (2 * b2 < Y /\ Y < 2 * a2 + 2 * b2 /\ s2 > 0)
      /\ c3 <=> (2 * a2 + 2 * b2 < Y /\ Y < 2 * a2 /\ s3 > 0)
      /\ c4 <=> (0 < Y /\ Y < 2 * a2 /\ s4 < 0)
  BY DEF Tests
<1>1. PICK P \in Int, Q \in Int, Ky \in Int, Ka \in Int, Kb \in Int :
         P = a2 * s1 /\ Q = b2 * s4 /\ Ky = K * Y /\ Ka = K * a2 /\ Kb = K * b2
  OBVIOUS
<1>2. Ky = P + Q
  BY <1>a, <1>1
<1>3. (s1 > 0 <=> P > 0) /\ (s1 < 0 <=> P < 0) /\ (s1 < 2 * K <=> P < 2 * Ka)
  <2>1. PICK k2 \in Int : k2 = 2 * K
    OBVIOUS
  <2>2. (0 < s1 <=> a2 * 0 < a2 * s1) /\ (s1 < 0 <=> a2 * s1 < a2 * 0) /\ (s1 < k2 <=> a2 * s1 < a2 * k2)
    BY <1>a, Scaled
  <2>3. a2 * 0 = 0 /\ a2 * k2 = 2 * Ka
    BY <1>1, <2>1
  <2> QED
    BY <1>a, <1>1, <2>1, <2>2, <2>3
<1>4. (s4 > 0 <=> Q < 0) /\ (s4 < 0 <=> Q > 0) /\ (s4 < 2 * K <=> Q > 2 * Kb)
  <2>1. PICK k2 \in Int : k2 = 2 * K
    OBVIOUS
  <2>2. (0 < s4 <=> b2 * 0 > b2 * s4) /\ (s4 < 0 <=> b2 * s4 > b2 * 0) /\ (s4 < k2 <=> b2 * s4 > b2 * k2)
    BY <1>a, Scaled
  <2>3. b2 * 0 = 0 /\ b2 * k2 = 2 * Kb
    BY <1>1, <2>1
  <2> QED
    BY <1>a, <1>1, <2>1, <2>2, <2>3
<1>5. /\ (Y > 0 <=> Ky > 0) /\ (Y < 0 <=> Ky < 0)
      /\ (Y < 2 * a2 <=> Ky < 2 * Ka) /\ (2 * b2 < Y <=> 2 * Kb < Ky)
      /\ (Y < 2 * a2 + 2 * b2 <=> Ky < 2 * Ka + 2 * Kb)
      /\ (2 * a2 + 2 * b2 < Y <=> 2 * Ka + 2 * Kb < Ky)
  <2>1. PICK x \in Int, y \in Int, z \in Int : x = 2 * a2 /\ y = 2 * b2 /\ z = 2 * a2 + 2 * b2
    OBVIOUS
  <2>2. /\ (0 < Y <=> K * 0 < K * Y) /\ (Y < 0 <=> K * Y < K * 0)
        /\ (Y < x <=> K * Y < K * x) /\ (y < Y <=> K * y < K * Y)
        /\ (Y < z <=> K * Y < K * z) /\ (z < Y <=> K * z < K * Y)
    BY <1>a, Scaled
  <2>3. K * 0 = 0 /\ K * x = 2 * Ka /\ K * y = 2 * Kb /\ K * z = 2 * Ka + 2 * Kb
    BY <1>1, <2>1
  <2> QED
    BY <1>a, <1>1, <2>1, <2>2, <2>3
<1>6. ~(c1 /\ c4) /\ ~(c2 /\ c3)
  BY <1>a, <1>b
<1>7. (c2 \/ c3) /\ (c1 \/ c4) => ~OddOf(c1, c2, c3, c4)
  BY <1>6 DEF OddOf
<1>8. ~(c2 \/ c3) /\ ~(c1 \/ c4) => ~OddOf(c1, c2, c3, c4)
  BY DEF OddOf
<1>9. (c2 \/ c3) /\ ~(c1 \/ c4) => OddOf(c1, c2, c3, c4)
  BY <1>6 DEF OddOf
<1>10. ~(c2 \/ c3) /\ (c1 \/ c4) => OddOf(c1, c2, c3, c4)
  BY <1>6 DEF OddOf
<1>11. ASSUME s1 > 0, s2 > 0, s3 > 0, s4 > 0
       PROVE  (c2 \/ c3) /\ ~(c1 \/ c4)
  BY <1>a, <1>b, <1>2, <1>3, <1>4, <1>5, <1>11
<1>12. ASSUME c2 \/ c3, ~(c1 \/ c4)
       PROVE  s1 >= 0 /\ s2 >= 0 /\ s3 >= 0 /\ s4 >= 0
  BY <1>a, <1>b, <1>2, <1>3, <1>4, <1>5, <1>12
<1>13. ASSUME ~(c2 \/ c3), c1 \/ c4
       PROVE  s1 >= 0 /\ s2 >= 0 /\ s3 >= 0 /\ s4 >= 0
  BY <1>a, <1>b, <1>2, <1>3, <1>4, <1>5, <1>13
<1> QED
  BY <1>7, <1>8, <1>9, <1>10, <1>11, <1>12, <1>13

\* How far a pixel's centre is from the line through a and b (times its
\* length); positive on the inside.
SideOf(p, a, b) ==
  (b[1] - a[1]) * (2 * p[2] + 1 - 2 * a[2]) - (b[2] - a[2]) * (2 * p[1] + 1 - 2 * a[1])

\* The mask's test of an edge, without its division: the ray crosses an edge
\* down when the pixel is outside of it, an edge up when it is inside.
LEMMA CrossingIs ==
  ASSUME NEW p \in Int \X Int, NEW a \in Int \X Int, NEW b \in Int \X Int
  PROVE  LET y == 2 * p[2] + 1
         IN /\ CrossesEdge(p, b, a) \in BOOLEAN
            /\ SideOf(p, a, b) \in Int
            /\ a[2] > b[2] =>
                 (CrossesEdge(p, b, a) <=> 2 * b[2] < y /\ y < 2 * a[2] /\ SideOf(p, a, b) < 0)
            /\ a[2] <= b[2] =>
                 (CrossesEdge(p, b, a) <=> 2 * a[2] < y /\ y < 2 * b[2] /\ SideOf(p, a, b) > 0)
<1>1. PICK p1 \in Int, p2 \in Int, a1 \in Int, a2 \in Int, b1 \in Int, b2 \in Int :
        p1 = p[1] /\ p2 = p[2] /\ a1 = a[1] /\ a2 = a[2] /\ b1 = b[1] /\ b2 = b[2]
  OBVIOUS
<1>2. PICK x \in Int, y \in Int : x = 2 * p1 + 1 /\ y = 2 * p2 + 1
  OBVIOUS
<1>3. PICK u \in Int, v \in Int, w \in Int, z \in Int :
        u = b1 - a1 /\ v = b2 - a2 /\ w = y - 2 * a2 /\ z = x - 2 * a1
  OBVIOUS
<1>4. PICK uw \in Int, vz \in Int, uv \in Int : uw = u * w /\ vz = v * z /\ uv = u * v
  OBVIOUS
<1>5. SideOf(p, a, b) = uw - vz
  BY <1>1, <1>2, <1>3, <1>4 DEF SideOf
<1>6. (x - 2 * b1) * (a2 - b2) = 2 * uv - vz
  <2>1. x - 2 * b1 = z - 2 * u /\ a2 - b2 = -v
    BY <1>3
  <2>2. (z - 2 * u) * (-v) = 2 * (u * v) - v * z
    OBVIOUS
  <2> QED
    BY <1>4, <2>1, <2>2
<1>7. (a1 - b1) * (y - 2 * b2) = 2 * uv - uw
  <2>1. y - 2 * b2 = w - 2 * v /\ a1 - b1 = -u
    BY <1>3
  <2>2. (-u) * (w - 2 * v) = 2 * (u * v) - u * w
    OBVIOUS
  <2> QED
    BY <1>4, <2>1, <2>2
<1>8. PICK l \in Int, r \in Int :
        l = (x - 2 * b1) * (a2 - b2) /\ r = (a1 - b1) * (y - 2 * b2)
  OBVIOUS
<1>9. CrossesEdge(p, b, a) <=>
        /\ ~((2 * b2 > y) <=> (2 * a2 > y))
        /\ IF a2 > b2 THEN l < r ELSE l > r
  BY <1>1, <1>2, <1>8 DEF CrossesEdge
<1>10. SideOf(p, a, b) \in Int /\ (l < r <=> SideOf(p, a, b) < 0) /\ (l > r <=> SideOf(p, a, b) > 0)
  BY <1>5, <1>6, <1>7, <1>8
<1>11. y # 2 * a2 /\ y # 2 * b2
  BY <1>2
<1>12. CrossesEdge(p, b, a) \in BOOLEAN
  BY DEF CrossesEdge
<1>13. y = 2 * p[2] + 1
  BY <1>1, <1>2
<1> QED
  BY <1>1, <1>9, <1>10, <1>11, <1>12, <1>13

\* The corners o, q, r, t of a rectangle with sides b down and a up from o.
Leaning(o, q, r, t, a1, a2, b1, b2) ==
  /\ a1 > 0 /\ a2 > 0 /\ b1 > 0 /\ b2 < 0
  /\ q[1] = o[1] + b1 /\ q[2] = o[2] + b2
  /\ r[1] = o[1] + a1 + b1 /\ r[2] = o[2] + a2 + b2
  /\ t[1] = o[1] + a1 /\ t[2] = o[2] + a2

\* The mask's answer for a point, by its four sides and its four tests.
Masked(p, o, q, r, t) ==
  LET s1 == SideOf(p, o, q)
      s2 == SideOf(p, q, r)
      s3 == SideOf(p, r, t)
      s4 == SideOf(p, t, o)
      odd == OddOf(CrossesEdge(p, q, o), CrossesEdge(p, r, q),
                   CrossesEdge(p, t, r), CrossesEdge(p, o, t))
  IN /\ s1 > 0 /\ s2 > 0 /\ s3 > 0 /\ s4 > 0 => odd
     /\ odd => s1 >= 0 /\ s2 >= 0 /\ s3 >= 0 /\ s4 >= 0

LEMMA MaskOfRectangle ==
  ASSUME NEW p \in Int \X Int, NEW o \in Int \X Int, NEW q \in Int \X Int,
         NEW r \in Int \X Int, NEW t \in Int \X Int,
         NEW a1 \in Int, NEW a2 \in Int, NEW b1 \in Int, NEW b2 \in Int,
         Leaning(o, q, r, t, a1, a2, b1, b2)
  PROVE  Masked(p, o, q, r, t)
<1>0. /\ a1 > 0 /\ a2 > 0 /\ b1 > 0 /\ b2 < 0
      /\ q[1] = o[1] + b1 /\ q[2] = o[2] + b2
      /\ r[1] = o[1] + a1 + b1 /\ r[2] = o[2] + a2 + b2
      /\ t[1] = o[1] + a1 /\ t[2] = o[2] + a2
  BY DEF Leaning
<1>1. PICK X \in Int, Y \in Int : X = 2 * p[1] + 1 - 2 * o[1] /\ Y = 2 * p[2] + 1 - 2 * o[2]
  OBVIOUS
<1>2. PICK s1 \in Int, s2 \in Int, s3 \in Int, s4 \in Int :
        /\ s1 = SideOf(p, o, q) /\ s2 = SideOf(p, q, r)
        /\ s3 = SideOf(p, r, t) /\ s4 = SideOf(p, t, o)
  BY CrossingIs
<1>3. PICK b1Y \in Int, b2X \in Int, a1Y \in Int, a2X \in Int, a1b2 \in Int, a2b1 \in Int,
           a1a2 \in Int, b1b2 \in Int :
        /\ b1Y = b1 * Y /\ b2X = b2 * X /\ a1Y = a1 * Y /\ a2X = a2 * X
        /\ a1b2 = a1 * b2 /\ a2b1 = a2 * b1 /\ a1a2 = a1 * a2 /\ b1b2 = b1 * b2
  OBVIOUS
<1>4. s1 = b1Y - b2X
  <2>1. q[1] - o[1] = b1 /\ q[2] - o[2] = b2
    BY <1>0
  <2> QED
    BY <1>1, <1>2, <1>3, <2>1 DEF SideOf
<1>5. s2 = a1Y - 2 * a1b2 - a2X + 2 * a2b1
  <2>1. r[1] - q[1] = a1 /\ r[2] - q[2] = a2
    BY <1>0
  <2>2. 2 * p[1] + 1 - 2 * q[1] = X - 2 * b1 /\ 2 * p[2] + 1 - 2 * q[2] = Y - 2 * b2
    BY <1>0, <1>1
  <2>3. s2 = a1 * (Y - 2 * b2) - a2 * (X - 2 * b1)
    BY <1>2, <2>1, <2>2 DEF SideOf
  <2>4. a1 * (Y - 2 * b2) = a1 * Y - 2 * (a1 * b2) /\ a2 * (X - 2 * b1) = a2 * X - 2 * (a2 * b1)
    OBVIOUS
  <2> QED
    BY <1>3, <2>3, <2>4
<1>6. s3 = 2 * a2b1 - b1Y + b2X - 2 * a1b2
  <2>1. t[1] - r[1] = -b1 /\ t[2] - r[2] = -b2
    BY <1>0
  <2>2. 2 * p[1] + 1 - 2 * r[1] = X - 2 * a1 - 2 * b1 /\ 2 * p[2] + 1 - 2 * r[2] = Y - 2 * a2 - 2 * b2
    BY <1>0, <1>1
  <2>3. s3 = (-b1) * (Y - 2 * a2 - 2 * b2) - (-b2) * (X - 2 * a1 - 2 * b1)
    BY <1>2, <2>1, <2>2 DEF SideOf
  <2>4. (-b1) * (Y - 2 * a2 - 2 * b2) = 2 * (a2 * b1) + 2 * (b1 * b2) - b1 * Y
    OBVIOUS
  <2>5. (-b2) * (X - 2 * a1 - 2 * b1) = 2 * (a1 * b2) + 2 * (b1 * b2) - b2 * X
    OBVIOUS
  <2> QED
    BY <1>3, <2>3, <2>4, <2>5
<1>7. s4 = a2X - a1Y
  <2>1. o[1] - t[1] = -a1 /\ o[2] - t[2] = -a2
    BY <1>0
  <2>2. 2 * p[1] + 1 - 2 * t[1] = X - 2 * a1 /\ 2 * p[2] + 1 - 2 * t[2] = Y - 2 * a2
    BY <1>0, <1>1
  <2>3. s4 = (-a1) * (Y - 2 * a2) - (-a2) * (X - 2 * a1)
    BY <1>2, <2>1, <2>2 DEF SideOf
  <2>4. (-a1) * (Y - 2 * a2) = 2 * (a1 * a2) - a1 * Y /\ (-a2) * (X - 2 * a1) = 2 * (a1 * a2) - a2 * X
    OBVIOUS
  <2> QED
    BY <1>3, <2>3, <2>4
<1>8. PICK K \in Int : K = a2b1 - a1b2 /\ K = b1 * a2 - b2 * a1 /\ K > 0
  <2>1. a2b1 = b1 * a2 /\ a1b2 = b2 * a1
    BY <1>3
  <2> QED
    BY <1>0, <2>1, AreaPositive
<1>9. s3 = 2 * K - s1 /\ s2 = 2 * K - s4
  BY <1>4, <1>5, <1>6, <1>7, <1>8
<1>10. K * Y = a2 * s1 + b2 * s4
  <2>1. s1 = b1 * Y - b2 * X /\ s4 = a2 * X - a1 * Y
    BY <1>3, <1>4, <1>7
  <2> QED
    BY <1>8, <2>1, SidesAndPlace
<1>11. Y # 0 /\ Y # 2 * a2 + 2 * b2
  BY <1>1
<1>12. PICK c1 \in BOOLEAN, c2 \in BOOLEAN, c3 \in BOOLEAN, c4 \in BOOLEAN :
         /\ c1 = CrossesEdge(p, q, o) /\ c2 = CrossesEdge(p, r, q)
         /\ c3 = CrossesEdge(p, t, r) /\ c4 = CrossesEdge(p, o, t)
  BY DEF CrossesEdge
<1>13. c1 <=> (2 * b2 < Y /\ Y < 0 /\ s1 < 0)
  BY <1>0, <1>1, <1>2, <1>12, CrossingIs
<1>14. c2 <=> (2 * b2 < Y /\ Y < 2 * a2 + 2 * b2 /\ s2 > 0)
  BY <1>0, <1>1, <1>2, <1>12, CrossingIs
<1>15. c3 <=> (2 * a2 + 2 * b2 < Y /\ Y < 2 * a2 /\ s3 > 0)
  BY <1>0, <1>1, <1>2, <1>12, CrossingIs
<1>16. c4 <=> (0 < Y /\ Y < 2 * a2 /\ s4 < 0)
  BY <1>0, <1>1, <1>2, <1>12, CrossingIs
<1>17. Sides(a2, b2, K, Y, s1, s2, s3, s4)
  BY <1>0, <1>8, <1>9, <1>10, <1>11 DEF Sides
<1>18. Tests(a2, b2, Y, s1, s2, s3, s4, c1, c2, c3, c4)
  BY <1>13, <1>14, <1>15, <1>16 DEF Tests
<1>19. /\ s1 > 0 /\ s2 > 0 /\ s3 > 0 /\ s4 > 0 => OddOf(c1, c2, c3, c4)
       /\ OddOf(c1, c2, c3, c4) => s1 >= 0 /\ s2 >= 0 /\ s3 >= 0 /\ s4 >= 0
  BY <1>17, <1>18, MaskOfSides
<1> QED
  BY <1>2, <1>12, <1>19 DEF Masked

LEMMA CornersFinite == IsFiniteSet(1 .. 4)
<1>1. PICK i \in Int, j \in Int : i = 1 /\ j = 4
  OBVIOUS
<1>2. IsFiniteSet(i .. j)
  BY FS_Interval
<1> QED
  BY <1>1, <1>2

\* Whether a set of edges has an odd number of them.
LEMMA OddEdges ==
  ASSUME NEW C \in SUBSET (1 .. 4)
  PROVE  Cardinality(C) % 2 = 1 <=> OddOf(1 \in C, 2 \in C, 3 \in C, 4 \in C)
<1> DEFINE Upto(n) == C \intersect (1 .. n)
<1>1. \A n \in 0 .. 4 : IsFiniteSet(Upto(n)) /\ Cardinality(Upto(n)) \in Nat
  <2>1. TAKE n \in 0 .. 4
  <2>2. IsFiniteSet(1 .. 4)
    BY CornersFinite
  <2>3. Upto(n) \subseteq 1 .. 4
    OBVIOUS
  <2>4. IsFiniteSet(Upto(n))
    BY <2>2, <2>3, FS_Subset
  <2> QED
    BY <2>4, FS_CardinalityType
<1>2. \A n \in 0 .. 3 : Cardinality(Upto(n + 1))
                          = Cardinality(Upto(n)) + (IF n + 1 \in C THEN 1 ELSE 0)
  <2>1. TAKE n \in 0 .. 3
  <2>2. CASE n + 1 \in C
    <3>1. Upto(n + 1) = Upto(n) \union {n + 1} /\ n + 1 \notin Upto(n)
      BY <2>2
    <3>2. PICK U : U = Upto(n) /\ IsFiniteSet(U) /\ Cardinality(U) \in Nat /\ n + 1 \notin U
      <4>1. n \in 0 .. 4
        OBVIOUS
      <4> QED
        BY <1>1, <3>1, <4>1
    <3>3. Cardinality(U \union {n + 1}) = Cardinality(U) + 1
      BY <3>2, FS_AddElement
    <3> QED
      BY <2>2, <3>1, <3>2, <3>3
  <2>3. CASE n + 1 \notin C
    <3>1. Upto(n + 1) = Upto(n)
      BY <2>3
    <3> QED
      BY <1>1, <2>3, <3>1, SMTT(60)
  <2> QED
    BY <2>2, <2>3
<1>3. Upto(0) = {} /\ Upto(4) = C
  <2>1. Upto(0) = {}
    OBVIOUS
  <2>2. \A i \in C : i \in 1 .. 4
    OBVIOUS
  <2>3. Upto(4) = C
    BY <2>2
  <2> QED
    BY <2>1, <2>3
<1>4. Cardinality(Upto(0)) = 0
  BY <1>3, FS_EmptySet
<1> HIDE DEF Upto
<1>5. PICK k1 \in 0 .. 1, k2 \in 0 .. 1, k3 \in 0 .. 1, k4 \in 0 .. 1 :
        /\ k1 = (IF 1 \in C THEN 1 ELSE 0) /\ k2 = (IF 2 \in C THEN 1 ELSE 0)
        /\ k3 = (IF 3 \in C THEN 1 ELSE 0) /\ k4 = (IF 4 \in C THEN 1 ELSE 0)
  OBVIOUS
<1>6. Cardinality(Upto(1)) = k1
  BY <1>2, <1>4, <1>5
<1>7. Cardinality(Upto(2)) = k1 + k2
  <2>1. 1 \in 0 .. 3 /\ 1 + 1 = 2
    OBVIOUS
  <2> QED
    BY <1>2, <1>5, <1>6, <2>1
<1>8. Cardinality(Upto(3)) = k1 + k2 + k3
  <2>1. 2 \in 0 .. 3 /\ 2 + 1 = 3
    OBVIOUS
  <2> QED
    BY <1>2, <1>5, <1>7, <2>1
<1>9. Cardinality(Upto(4)) = k1 + k2 + k3 + k4
  <2>1. 3 \in 0 .. 3 /\ 3 + 1 = 4
    OBVIOUS
  <2> QED
    BY <1>2, <1>5, <1>8, <2>1
<1>10. Cardinality(C) = k1 + k2 + k3 + k4
  BY <1>3, <1>9
<1>11. ((k1 + k2 + k3 + k4) % 2 = 1) <=> OddOf(k1 = 1, k2 = 1, k3 = 1, k4 = 1)
  <2>1. k1 \in {0, 1} /\ k2 \in {0, 1} /\ k3 \in {0, 1} /\ k4 \in {0, 1}
    OBVIOUS
  <2>2. /\ 0 % 2 = 0 /\ 1 % 2 = 1 /\ 2 % 2 = 0 /\ 3 % 2 = 1 /\ 4 % 2 = 0
    OBVIOUS
  <2>3. CASE k1 = 0 /\ k2 = 0
    BY <2>1, <2>2, <2>3 DEF OddOf
  <2>4. CASE k1 = 0 /\ k2 = 1
    BY <2>1, <2>2, <2>4 DEF OddOf
  <2>5. CASE k1 = 1 /\ k2 = 0
    BY <2>1, <2>2, <2>5 DEF OddOf
  <2>6. CASE k1 = 1 /\ k2 = 1
    BY <2>1, <2>2, <2>6 DEF OddOf
  <2> QED
    BY <2>1, <2>3, <2>4, <2>5, <2>6
<1>12. (k1 = 1 <=> 1 \in C) /\ (k2 = 1 <=> 2 \in C) /\ (k3 = 1 <=> 3 \in C) /\ (k4 = 1 <=> 4 \in C)
  BY <1>5
<1> QED
  BY <1>10, <1>11, <1>12 DEF OddOf

\* The edges of a box, in the order in which the mask walks around it.
LEMMA MaskOf ==
  ASSUME NEW p, NEW box
  PROVE  PointInPolygon(p, box) <=>
           OddOf(CrossesEdge(p, box[2], box[1]), CrossesEdge(p, box[3], box[2]),
                 CrossesEdge(p, box[4], box[3]), CrossesEdge(p, box[1], box[4]))
<1> DEFINE C == Crossings(p, box)
<1>1. C \in SUBSET (1 .. 4)
  BY DEF Crossings
<1>2. /\ 1 \in C <=> CrossesEdge(p, box[1], box[4])
      /\ 2 \in C <=> CrossesEdge(p, box[2], box[1])
      /\ 3 \in C <=> CrossesEdge(p, box[3], box[2])
      /\ 4 \in C <=> CrossesEdge(p, box[4], box[3])
  <2>1. 2 - 1 = 1 /\ 3 - 1 = 2 /\ 4 - 1 = 3
    OBVIOUS
  <2>2. 1 \in 1 .. 4 /\ 2 \in 1 .. 4 /\ 3 \in 1 .. 4 /\ 4 \in 1 .. 4
    OBVIOUS
  <2> QED
    BY <2>1, <2>2 DEF Crossings
<1> HIDE DEF C
<1>3. OddOf(1 \in C, 2 \in C, 3 \in C, 4 \in C) <=>
        OddOf(2 \in C, 3 \in C, 4 \in C, 1 \in C)
  BY DEF OddOf
<1>4. PointInPolygon(p, box) <=> OddOf(1 \in C, 2 \in C, 3 \in C, 4 \in C)
  BY <1>1, OddEdges DEF PointInPolygon, C
<1> QED
  BY <1>2, <1>3, <1>4 DEF OddOf

\* The corners of a rectangle with two sides, as GetMiniBoxes sorts them: the
\* first is opposite to the last.
RectangleCorners(c) ==
  /\ c \in [1 .. 4 -> Int \X Int]
  /\ XThenY(c[1], c[2]) /\ XThenY(c[2], c[3]) /\ XThenY(c[3], c[4])
  /\ c[1] # c[2] /\ c[1] # c[3]
  /\ c[1][1] + c[4][1] = c[2][1] + c[3][1] /\ c[1][2] + c[4][2] = c[2][2] + c[3][2]
  /\ (c[2][1] - c[1][1]) * (c[3][1] - c[1][1]) + (c[2][2] - c[1][2]) * (c[3][2] - c[1][2]) = 0

\* The sides of a rectangle lie along the axes, or one goes up and one down.
LEMMA SidesOfRectangle ==
  ASSUME NEW c, RectangleCorners(c)
  PROVE  \E a1 \in Int, a2 \in Int, b1 \in Int, b2 \in Int :
           /\ \A i \in 1 .. 4 : c[i] \in Int \X Int
           /\ c[2][1] = c[1][1] + a1 /\ c[2][2] = c[1][2] + a2
           /\ c[3][1] = c[1][1] + b1 /\ c[3][2] = c[1][2] + b2
           /\ c[4][1] = c[1][1] + a1 + b1 /\ c[4][2] = c[1][2] + a2 + b2
           /\ \/ a1 = 0 /\ a2 > 0 /\ b1 > 0 /\ b2 = 0
              \/ a1 > 0 /\ b1 > 0 /\ a2 > 0 /\ b2 < 0
              \/ a1 > 0 /\ b1 > 0 /\ a2 < 0 /\ b2 > 0
<1>1. \A i \in 1 .. 4 : c[i] \in Int \X Int
  BY DEF RectangleCorners
<1>2. PICK x1 \in Int, y1 \in Int, x2 \in Int, y2 \in Int, x3 \in Int, y3 \in Int,
           x4 \in Int, y4 \in Int :
        c[1] = <<x1, y1>> /\ c[2] = <<x2, y2>> /\ c[3] = <<x3, y3>> /\ c[4] = <<x4, y4>>
  <2>1. \A q \in Int \X Int : \E x \in Int, y \in Int : q = <<x, y>>
    OBVIOUS
  <2>2. \A i \in 1 .. 4 : \E x \in Int, y \in Int : c[i] = <<x, y>>
    BY <1>1, <2>1
  <2>3. PICK x1 \in Int, y1 \in Int : c[1] = <<x1, y1>>
    BY <2>2
  <2>4. PICK x2 \in Int, y2 \in Int : c[2] = <<x2, y2>>
    BY <2>2
  <2>5. PICK x3 \in Int, y3 \in Int : c[3] = <<x3, y3>>
    BY <2>2
  <2>6. PICK x4 \in Int, y4 \in Int : c[4] = <<x4, y4>>
    BY <2>2
  <2> QED
    BY <2>3, <2>4, <2>5, <2>6
<1>3. PICK a1 \in Int, a2 \in Int, b1 \in Int, b2 \in Int :
        a1 = x2 - x1 /\ a2 = y2 - y1 /\ b1 = x3 - x1 /\ b2 = y3 - y1
  OBVIOUS
<1>4. PICK ab \in Int, cd \in Int : ab = a1 * b1 /\ cd = a2 * b2 /\ ab + cd = 0
  BY <1>2, <1>3 DEF RectangleCorners
<1>5. /\ x1 < x2 \/ (x1 = x2 /\ y1 <= y2)
      /\ x2 < x3 \/ (x2 = x3 /\ y2 <= y3)
      /\ x1 + x4 = x2 + x3 /\ y1 + y4 = y2 + y3
  BY <1>2 DEF RectangleCorners, XThenY
<1>6. ~(x1 = x2 /\ y1 = y2) /\ ~(x1 = x3 /\ y1 = y3)
  BY <1>2 DEF RectangleCorners
<1>7. /\ a1 > 0 \/ (a1 = 0 /\ a2 > 0)
      /\ b1 > a1 \/ (b1 = a1 /\ b2 >= a2)
  BY <1>3, <1>5, <1>6
<1>8. \/ a1 = 0 /\ a2 > 0 /\ b1 > 0 /\ b2 = 0
      \/ a1 > 0 /\ b1 > 0 /\ a2 > 0 /\ b2 < 0
      \/ a1 > 0 /\ b1 > 0 /\ a2 < 0 /\ b2 > 0
  <2>1. CASE a1 = 0
    <3>1. ab = 0 /\ cd = 0 /\ a2 > 0
      BY <1>4, <1>7, <2>1
    <3>2. b2 = 0
      BY <1>4, <3>1, Signs
    <3> QED
      BY <1>7, <2>1, <3>1, <3>2
  <2>2. CASE a1 > 0
    <3>1. b1 > 0
      BY <1>7, <2>2
    <3>2. cd < 0
      BY <1>4, <2>2, <3>1, Signs
    <3>3. a2 # 0 /\ b2 # 0
      BY <1>4, <3>2
    <3>4. (a2 > 0 => b2 < 0) /\ (a2 < 0 => b2 > 0)
      BY <1>4, <3>2, <3>3, Signs
    <3> QED
      BY <2>2, <3>1, <3>3, <3>4
  <2> QED
    BY <1>7, <2>1, <2>2
<1>9. /\ c[1][1] = x1 /\ c[1][2] = y1 /\ c[2][1] = x2 /\ c[2][2] = y2
      /\ c[3][1] = x3 /\ c[3][2] = y3 /\ c[4][1] = x4 /\ c[4][2] = y4
  BY <1>2
<1>10. /\ c[2][1] = c[1][1] + a1 /\ c[2][2] = c[1][2] + a2
       /\ c[3][1] = c[1][1] + b1 /\ c[3][2] = c[1][2] + b2
       /\ c[4][1] = c[1][1] + a1 + b1 /\ c[4][2] = c[1][2] + a2 + b2
  BY <1>3, <1>5, <1>9
<1> QED
  BY <1>1, <1>8, <1>10

\* What the statement says of one box: all that is inside is scored, and
\* nothing that is outside.
ScoredRight(box, pixels, scored) ==
  LET Side(p, i) == SideOf(p, box[i], box[(i % 4) + 1])
  IN /\ {p \in pixels : \A i \in 1 .. 4 : Side(p, i) > 0} \subseteq scored
     /\ scored \subseteq {p \in pixels : \A i \in 1 .. 4 : Side(p, i) >= 0}

LEMMA FourSides ==
  ASSUME NEW p, NEW box
  PROVE  /\ (\A i \in 1 .. 4 : SideOf(p, box[i], box[(i % 4) + 1]) > 0) <=>
              /\ SideOf(p, box[1], box[2]) > 0 /\ SideOf(p, box[2], box[3]) > 0
              /\ SideOf(p, box[3], box[4]) > 0 /\ SideOf(p, box[4], box[1]) > 0
         /\ (\A i \in 1 .. 4 : SideOf(p, box[i], box[(i % 4) + 1]) >= 0) <=>
              /\ SideOf(p, box[1], box[2]) >= 0 /\ SideOf(p, box[2], box[3]) >= 0
              /\ SideOf(p, box[3], box[4]) >= 0 /\ SideOf(p, box[4], box[1]) >= 0
<1>1. (1 % 4) + 1 = 2 /\ (2 % 4) + 1 = 3 /\ (3 % 4) + 1 = 4 /\ (4 % 4) + 1 = 1
  OBVIOUS
<1>2. \A i \in 1 .. 4 : i = 1 \/ i = 2 \/ i = 3 \/ i = 4
  OBVIOUS
<1>3. 1 \in 1 .. 4 /\ 2 \in 1 .. 4 /\ 3 \in 1 .. 4 /\ 4 \in 1 .. 4
  OBVIOUS
<1> QED
  BY <1>1, <1>2, <1>3

LEMMA LeftRightTop ==
  ASSUME NEW x \in Int, NEW y \in Int, x <= y, NEW w \in Int,
         NEW k, k \in (Max({0, Min({x, y})}) .. Min({w, Max({x, y})}) - 1)
  PROVE  x <= k /\ k < y
<1> DEFINE S == {x, y}
<1>1. Min(S) = x
  <2>1. \A z \in S : (\A q \in S : z <= q) => z = x
    OBVIOUS
  <2>2. \A q \in S : x <= q
    OBVIOUS
  <2> QED
    BY <2>1, <2>2 DEF Min
<1>2. Max(S) = y
  <2>1. \A z \in S : (\A q \in S : z >= q) => z = y
    OBVIOUS
  <2>2. \A q \in S : y >= q
    OBVIOUS
  <2> QED
    BY <2>1, <2>2 DEF Max
<1>3. Max({0, x}) \in Int /\ Max({0, x}) >= x
  BY DEF Max
<1>4. Min({w, y}) \in Int /\ Min({w, y}) <= y
  BY DEF Min
<1> HIDE DEF S
<1>5. k \in (Max({0, Min(S)}) .. Min({w, Max(S)}) - 1)
  BY DEF S
<1> QED
  BY <1>1, <1>2, <1>3, <1>4, <1>5

LEMMA PixelsAreOnTheGrid ==
  ASSUME NEW box, \A i \in 1 .. 4 : box[i] \in Int \X Int,
         NEW w \in Int, NEW h \in Int, NEW p \in BoundingPixels(box, w, h)
  PROVE  p \in Int \X Int
BY DEF BoundingPixels

LEMMA TwoAtMost ==
  ASSUME NEW u, NEW v
  PROVE  IsFiniteSet({u, v}) /\ Cardinality({u, v}) <= 2
<1>1. Cardinality({u}) = 1 /\ IsFiniteSet({u})
  BY FS_Singleton
<1>2. {u, v} = {u} \union {v}
  OBVIOUS
<1>3. /\ IsFiniteSet({u} \union {v})
      /\ Cardinality({u} \union {v}) =
           IF v \in {u} THEN Cardinality({u}) ELSE Cardinality({u}) + 1
  BY <1>1, FS_AddElement
<1> QED
  BY <1>1, <1>2, <1>3

\* Along the axes: every pixel within the bounds is inside.
LEMMA UprightScored ==
  ASSUME NEW c, \A i \in 1 .. 4 : c[i] \in Int \X Int,
         NEW a \in Int, NEW b \in Int, a > 0, b > 0,
         c[2][1] = c[1][1], c[2][2] = c[1][2] + a,
         c[3][1] = c[1][1] + b, c[3][2] = c[1][2],
         c[4][1] = c[1][1] + b, c[4][2] = c[1][2] + a,
         NEW w \in Int, NEW h \in Int
  PROVE  ScoredRight(MiniBox(c), BoundingPixels(MiniBox(c), w, h), ScoredPixels(MiniBox(c), w, h))
<1>1. PICK x \in Int, y \in Int : c[1] = <<x, y>>
  OBVIOUS
<1>2. c[2] = <<x, y + a>> /\ c[3] = <<x + b, y>> /\ c[4] = <<x + b, y + a>>
  BY <1>1
<1>3. MiniBox(c) = <<c[1], c[3], c[4], c[2]>>
  BY <1>1, <1>2 DEF MiniBox
<1>4. PICK box : box = MiniBox(c)
  OBVIOUS
<1>5. /\ box[1] = <<x, y>> /\ box[2] = <<x + b, y>>
      /\ box[3] = <<x + b, y + a>> /\ box[4] = <<x, y + a>>
  BY <1>1, <1>2, <1>3, <1>4
<1>6. /\ {box[i][1] : i \in 1 .. 4} = {x, x + b}
      /\ {box[i][2] : i \in 1 .. 4} = {y, y + a}
  <2>1. \A i \in 1 .. 4 : i = 1 \/ i = 2 \/ i = 3 \/ i = 4
    OBVIOUS
  <2>2. 1 \in 1 .. 4 /\ 2 \in 1 .. 4 /\ 3 \in 1 .. 4 /\ 4 \in 1 .. 4
    OBVIOUS
  <2>3. /\ box[1][1] = x /\ box[2][1] = x + b /\ box[3][1] = x + b /\ box[4][1] = x
        /\ box[1][2] = y /\ box[2][2] = y /\ box[3][2] = y + a /\ box[4][2] = y + a
    BY <1>5
  <2> QED
    BY <2>1, <2>2, <2>3
<1>7. Cardinality({x, x + b}) <= 2 /\ Cardinality({y, y + a}) <= 2
  <2>1. \A u, v : Cardinality({u, v}) <= 2
    BY TwoAtMost
  <2> QED
    BY <2>1
<1>8. IsAxisAligned(box)
  BY <1>6, <1>7 DEF IsAxisAligned
<1>9. ScoredPixels(box, w, h) = BoundingPixels(box, w, h)
  BY <1>8 DEF ScoredPixels
<1>10. ASSUME NEW p \in BoundingPixels(box, w, h)
       PROVE  \A i \in 1 .. 4 : SideOf(p, box[i], box[(i % 4) + 1]) >= 0
  <2>1. /\ p[1] \in (Max({0, Min({x, x + b})}) .. Min({w, Max({x, x + b})}) - 1)
        /\ p[2] \in (Max({0, Min({y, y + a})}) .. Min({h, Max({y, y + a})}) - 1)
    BY <1>6, <1>10 DEF BoundingPixels
  <2>2. p[1] \in Int /\ p[2] \in Int /\ x <= p[1] /\ p[1] < x + b /\ y <= p[2] /\ p[2] < y + a
    <3>1. PICK e \in Int, f \in Int : e = x + b /\ f = y + a /\ x <= e /\ y <= f
      OBVIOUS
    <3>2. x <= p[1] /\ p[1] < x + b
      BY <2>1, <3>1, LeftRightTop
    <3>3. y <= p[2] /\ p[2] < y + a
      BY <2>1, <3>1, LeftRightTop
    <3> QED
      BY <2>1, <3>2, <3>3
  <2>3. PICK p1 \in Int, p2 \in Int : p1 = p[1] /\ p2 = p[2]
    BY <2>2
  <2>4. PICK l \in Int, r \in Int, u \in Int, d \in Int :
          /\ l = 2 * p1 + 1 - 2 * x /\ r = 2 * p1 + 1 - 2 * (x + b)
          /\ u = 2 * p2 + 1 - 2 * y /\ d = 2 * p2 + 1 - 2 * (y + a)
    OBVIOUS
  <2>5. l >= 0 /\ r <= 0 /\ u >= 0 /\ d <= 0
    BY <2>2, <2>3, <2>4
  <2>6. SideOf(p, box[1], box[2]) = b * u
    BY <1>5, <2>3, <2>4 DEF SideOf
  <2>7. SideOf(p, box[2], box[3]) = -(a * r)
    BY <1>5, <2>3, <2>4 DEF SideOf
  <2>8. SideOf(p, box[3], box[4]) = -(b * d)
    <3>1. SideOf(p, box[3], box[4]) = (x - (x + b)) * d - ((y + a) - (y + a)) * r
      BY <1>5, <2>3, <2>4 DEF SideOf
    <3> QED
      BY <3>1
  <2>9. SideOf(p, box[4], box[1]) = a * l
    <3>1. SideOf(p, box[4], box[1]) = (x - x) * d - (y - (y + a)) * l
      BY <1>5, <2>3, <2>4 DEF SideOf
    <3> QED
      BY <3>1
  <2>10. PICK bu \in Int, ar \in Int, bd \in Int, al \in Int :
           bu = b * u /\ ar = a * r /\ bd = b * d /\ al = a * l
    <3>1. b * u \in Int /\ a * r \in Int /\ b * d \in Int /\ a * l \in Int
      OBVIOUS
    <3> QED
      BY <3>1
  <2>11. bu >= 0 /\ ar <= 0 /\ bd <= 0 /\ al >= 0
    BY <2>5, <2>10, Signs
  <2> QED
    BY <2>6, <2>7, <2>8, <2>9, <2>10, <2>11, FourSides
<1> QED
  BY <1>4, <1>9, <1>10 DEF ScoredRight

\* A leaning box is not taken for an upright one.
LEMMA LeansNotUpright ==
  ASSUME NEW box, NEW i \in 1 .. 4, NEW j \in 1 .. 4, NEW k \in 1 .. 4,
         NEW x \in Int, NEW y \in Int, NEW z \in Int,
         box[i][1] = x, box[j][1] = y, box[k][1] = z, x < y, y < z
  PROVE  ~IsAxisAligned(box)
<1> DEFINE xs == {box[n][1] : n \in 1 .. 4}
<1>1. IsFiniteSet(xs) /\ Cardinality(xs) \in Nat
  <2>1. xs = {box[1][1], box[2][1]} \union {box[3][1], box[4][1]}
    <3>1. \A n \in 1 .. 4 : n = 1 \/ n = 2 \/ n = 3 \/ n = 4
      OBVIOUS
    <3>2. 1 \in 1 .. 4 /\ 2 \in 1 .. 4 /\ 3 \in 1 .. 4 /\ 4 \in 1 .. 4
      OBVIOUS
    <3> QED
      BY <3>1, <3>2
  <2>2. \A u, v : IsFiniteSet({u, v})
    BY TwoAtMost
  <2>3. IsFiniteSet({box[1][1], box[2][1]}) /\ IsFiniteSet({box[3][1], box[4][1]})
    BY <2>2
  <2>4. IsFiniteSet({box[1][1], box[2][1]} \union {box[3][1], box[4][1]})
    BY <2>3, FS_Union
  <2> QED
    BY <2>1, <2>4, FS_CardinalityType
<1>2. {x, y, z} \subseteq xs
  OBVIOUS
<1>3. Cardinality({x, y, z}) = 3
  <2>1. PICK A : A = {x} /\ IsFiniteSet(A) /\ Cardinality(A) = 1
    BY FS_Singleton
  <2>2. PICK B : B = A \union {y} /\ IsFiniteSet(B) /\ Cardinality(B) = 2
    <3>1. y \notin A
      BY <2>1
    <3>2. IsFiniteSet(A \union {y}) /\ Cardinality(A \union {y}) = Cardinality(A) + 1
      BY <2>1, <3>1, FS_AddElement
    <3>3. Cardinality(A \union {y}) = 2
      BY <2>1, <3>2
    <3> QED
      BY <3>2, <3>3
  <2>3. z \notin B
    BY <2>1, <2>2
  <2>4. Cardinality(B \union {z}) = Cardinality(B) + 1
    BY <2>2, <2>3, FS_AddElement
  <2>5. {x, y, z} = B \union {z}
    BY <2>1, <2>2
  <2>6. Cardinality(B \union {z}) = 3
    BY <2>2, <2>4
  <2> QED
    BY <2>5, <2>6
<1>4. Cardinality({x, y, z}) <= Cardinality(xs)
  BY <1>1, <1>2, FS_Subset
<1>5. Cardinality(xs) > 2
  BY <1>1, <1>3, <1>4
<1> QED
  BY <1>1, <1>5 DEF IsAxisAligned

\* A side up from the leftmost corner to the second, and one down.
LEMMA LeaningScored ==
  ASSUME NEW c, \A i \in 1 .. 4 : c[i] \in Int \X Int,
         NEW a1 \in Int, NEW a2 \in Int, NEW b1 \in Int, NEW b2 \in Int,
         a1 > 0, b1 > 0, (a2 > 0 /\ b2 < 0) \/ (a2 < 0 /\ b2 > 0),
         c[2][1] = c[1][1] + a1, c[2][2] = c[1][2] + a2,
         c[3][1] = c[1][1] + b1, c[3][2] = c[1][2] + b2,
         c[4][1] = c[1][1] + a1 + b1, c[4][2] = c[1][2] + a2 + b2,
         NEW w \in Int, NEW h \in Int
  PROVE  ScoredRight(MiniBox(c), BoundingPixels(MiniBox(c), w, h), ScoredPixels(MiniBox(c), w, h))
<1>0. c[1] \in Int \X Int /\ c[2] \in Int \X Int /\ c[3] \in Int \X Int /\ c[4] \in Int \X Int
  OBVIOUS
<1>1. PICK box : box = MiniBox(c)
  OBVIOUS
<1>2. /\ a2 > 0 => box[1] = c[1] /\ box[2] = c[3] /\ box[3] = c[4] /\ box[4] = c[2]
      /\ a2 < 0 => box[1] = c[2] /\ box[2] = c[4] /\ box[3] = c[3] /\ box[4] = c[1]
  <2>1. ASSUME a2 > 0
        PROVE  MiniBox(c) = <<c[1], c[3], c[4], c[2]>>
    <3>1. c[2][2] > c[1][2] /\ c[4][2] > c[3][2]
      BY <1>0, <2>1
    <3> QED
      BY <3>1 DEF MiniBox
  <2>2. ASSUME a2 < 0
        PROVE  MiniBox(c) = <<c[2], c[4], c[3], c[1]>>
    <3>1. ~(c[2][2] > c[1][2]) /\ ~(c[4][2] > c[3][2])
      BY <1>0, <2>2
    <3> QED
      BY <3>1 DEF MiniBox
  <2> QED
    BY <1>1, <2>1, <2>2
<1>3. ~IsAxisAligned(box)
  <2>1. PICK x \in Int, y \in Int, z \in Int :
          x = c[1][1] /\ y = c[2][1] /\ z = c[4][1] /\ x < y /\ y < z
    BY <1>0
  <2>2. 1 \in 1 .. 4 /\ 2 \in 1 .. 4 /\ 3 \in 1 .. 4 /\ 4 \in 1 .. 4
    OBVIOUS
  <2>3. CASE a2 > 0
    <3>1. box[1][1] = x /\ box[4][1] = y /\ box[3][1] = z
      BY <1>2, <2>1, <2>3
    <3> QED
      BY <2>1, <2>2, <3>1, LeansNotUpright
  <2>4. CASE a2 < 0
    <3>1. box[4][1] = x /\ box[1][1] = y /\ box[2][1] = z
      BY <1>2, <2>1, <2>4
    <3> QED
      BY <2>1, <2>2, <3>1, LeansNotUpright
  <2> QED
    BY <2>3, <2>4
<1>4. ScoredPixels(box, w, h) = {p \in BoundingPixels(box, w, h) : PointInPolygon(p, box)}
  BY <1>3 DEF ScoredPixels
<1>5. \A i \in 1 .. 4 : box[i] \in Int \X Int
  <2>1. \A i \in 1 .. 4 : i = 1 \/ i = 2 \/ i = 3 \/ i = 4
    OBVIOUS
  <2> QED
    BY <1>0, <1>2, <2>1
<1>6. ASSUME NEW p \in BoundingPixels(box, w, h)
      PROVE  LET inside == PointInPolygon(p, box)
                 s1 == SideOf(p, box[1], box[2])
                 s2 == SideOf(p, box[2], box[3])
                 s3 == SideOf(p, box[3], box[4])
                 s4 == SideOf(p, box[4], box[1])
             IN /\ s1 > 0 /\ s2 > 0 /\ s3 > 0 /\ s4 > 0 => inside
                /\ inside => s1 >= 0 /\ s2 >= 0 /\ s3 >= 0 /\ s4 >= 0
  <2>1. p \in Int \X Int
    BY <1>5, <1>6, PixelsAreOnTheGrid
  <2>2. PointInPolygon(p, box) <=>
          OddOf(CrossesEdge(p, box[2], box[1]), CrossesEdge(p, box[3], box[2]),
                CrossesEdge(p, box[4], box[3]), CrossesEdge(p, box[1], box[4]))
    BY MaskOf
  <2>3. CASE a2 > 0
    <3>1. b2 < 0
      BY <2>3
    <3>2. Leaning(c[1], c[3], c[4], c[2], a1, a2, b1, b2)
      BY <2>3, <3>1 DEF Leaning
    <3>3. Masked(p, c[1], c[3], c[4], c[2])
      BY <1>0, <2>1, <3>2, MaskOfRectangle
    <3> QED
      BY <1>2, <2>2, <2>3, <3>3 DEF Masked
  <2>4. CASE a2 < 0
    <3>1. b2 > 0
      BY <2>4
    <3>2. Leaning(c[1], c[2], c[4], c[3], b1, b2, a1, a2)
      BY <1>0, <2>4, <3>1 DEF Leaning
    <3>3. Masked(p, c[1], c[2], c[4], c[3])
      BY <1>0, <2>1, <3>2, MaskOfRectangle
    <3>4. \A k1, k2, k3, k4 \in BOOLEAN : OddOf(k1, k2, k3, k4) <=> OddOf(k2, k3, k4, k1)
      BY DEF OddOf
    <3>5. \A q, r : CrossesEdge(p, q, r) \in BOOLEAN
      BY DEF CrossesEdge
    <3> QED
      BY <1>2, <2>2, <2>4, <3>3, <3>4, <3>5 DEF Masked
  <2> QED
    BY <2>3, <2>4
<1> QED
  BY <1>1, <1>4, <1>6, FourSides DEF ScoredRight

\* FastPathAgrees for every rectangle with corners on the grid and for every
\* size of the map (BoxScoreFast after GetMiniBoxes).
THEOREM EveryBoxIsScoredInside ==
  ASSUME \A c \in Calls : c.of = "score" =>
           RectangleCorners(c.corners) /\ c.width \in Int /\ c.height \in Int
  PROVE  AlgSpec => []FastPathAgrees
<1>1. ASSUME AlgInv, Answered("score")
      PROVE  FastPathAgrees
  <2>1. PICK c, w, h : c = call.corners /\ w = call.width /\ h = call.height
    OBVIOUS
  <2>2. /\ RectangleCorners(c) /\ w \in Int /\ h \in Int
        /\ answer = ScoredPixels(MiniBox(c), w, h)
    BY <1>1, <2>1 DEF AlgInv, Answered, Result
  <2>3. ScoredRight(MiniBox(c), BoundingPixels(MiniBox(c), w, h), ScoredPixels(MiniBox(c), w, h))
    <3>1. PICK a1 \in Int, a2 \in Int, b1 \in Int, b2 \in Int :
            /\ \A i \in 1 .. 4 : c[i] \in Int \X Int
            /\ c[2][1] = c[1][1] + a1 /\ c[2][2] = c[1][2] + a2
            /\ c[3][1] = c[1][1] + b1 /\ c[3][2] = c[1][2] + b2
            /\ c[4][1] = c[1][1] + a1 + b1 /\ c[4][2] = c[1][2] + a2 + b2
            /\ \/ a1 = 0 /\ a2 > 0 /\ b1 > 0 /\ b2 = 0
               \/ a1 > 0 /\ b1 > 0 /\ a2 > 0 /\ b2 < 0
               \/ a1 > 0 /\ b1 > 0 /\ a2 < 0 /\ b2 > 0
      BY <2>2, SidesOfRectangle
    <3>2. CASE a1 = 0
      <4>1. /\ a2 > 0 /\ b1 > 0
            /\ c[2][1] = c[1][1] /\ c[2][2] = c[1][2] + a2
            /\ c[3][1] = c[1][1] + b1 /\ c[3][2] = c[1][2]
            /\ c[4][1] = c[1][1] + b1 /\ c[4][2] = c[1][2] + a2
        BY <3>1, <3>2
      <4> QED
        BY <2>2, <3>1, <4>1, UprightScored
    <3>3. CASE a1 # 0
      BY <2>2, <3>1, <3>3, LeaningScored
    <3> QED
      BY <3>2, <3>3
  <2> QED
    BY <2>1, <2>2, <2>3 DEF FastPathAgrees, ScoredRight, SideOf
<1>2. AlgInv => FastPathAgrees
  BY <1>1 DEF FastPathAgrees
<1> QED
  BY <1>2, AlgInvHolds, PTL
-----------------------------------------------------------------------------
(* A finite set as a sequence, by an order R.                               *)

Orders(R, S) ==
  /\ \A p, q \in S : <<p, q>> \in R \/ <<q, p>> \in R
  /\ \A p, q \in S : <<p, q>> \in R /\ <<q, p>> \in R => p = q
  /\ \A p, q, r \in S : <<p, q>> \in R /\ <<q, r>> \in R => <<p, r>> \in R

RankIn(R, S, p) == Cardinality({q \in S : <<q, p>> \in R})

Distinct(s) == \A i, j \in DOMAIN s : s[i] = s[j] => i = j

\* The rank grows with the order, so that no two elements have the same.
LEMMA RankGrows ==
  ASSUME NEW S, IsFiniteSet(S), NEW R, Orders(R, S),
         NEW p \in S, NEW q \in S, <<p, q>> \in R
  PROVE  /\ RankIn(R, S, p) \in Nat /\ RankIn(R, S, q) \in Nat
         /\ RankIn(R, S, p) <= RankIn(R, S, q)
         /\ RankIn(R, S, p) = RankIn(R, S, q) => p = q
<1> DEFINE A == {r \in S : <<r, p>> \in R}
           B == {r \in S : <<r, q>> \in R}
<1>1. A \in SUBSET B /\ B \in SUBSET S
  BY DEF Orders
<1>2. q \in B /\ (q \in A => p = q)
  BY DEF Orders
<1>3. IsFiniteSet(B)
  BY <1>1, FS_Subset
<1>4. RankIn(R, S, p) = Cardinality(A) /\ RankIn(R, S, q) = Cardinality(B)
  BY DEF RankIn
<1> HIDE DEF A, B
<1>5. /\ IsFiniteSet(A) /\ Cardinality(A) <= Cardinality(B)
      /\ Cardinality(A) = Cardinality(B) => A = B
  BY <1>1, <1>3, FS_Subset
<1>6. Cardinality(A) \in Nat /\ Cardinality(B) \in Nat
  BY <1>3, <1>5, FS_CardinalityType
<1> QED
  BY <1>2, <1>4, <1>5, <1>6

LEMMA RanksAreDistinct ==
  ASSUME NEW S, IsFiniteSet(S), NEW R, Orders(R, S),
         NEW p \in S, NEW q \in S, RankIn(R, S, p) = RankIn(R, S, q)
  PROVE  p = q
<1>1. <<p, q>> \in R \/ <<q, p>> \in R
  BY DEF Orders
<1> QED
  BY <1>1, RankGrows

LEMMA RankBounds ==
  ASSUME NEW S, IsFiniteSet(S), NEW R, Orders(R, S), NEW p \in S
  PROVE  RankIn(R, S, p) \in 1 .. Cardinality(S)
<1> DEFINE A == {r \in S : <<r, p>> \in R}
<1>1. A \in SUBSET S /\ p \in A
  BY DEF Orders
<1>2. Cardinality(A) = RankIn(R, S, p)
  BY DEF RankIn
<1> HIDE DEF A
<1>3. IsFiniteSet(A) /\ Cardinality(A) <= Cardinality(S)
  BY <1>1, FS_Subset
<1>4. Cardinality(A) \in Nat /\ Cardinality(S) \in Nat /\ Cardinality(A) # 0
  BY <1>1, <1>3, FS_CardinalityType, FS_EmptySet
<1> QED
  BY <1>2, <1>3, <1>4

LEMMA RanksAreTaken ==
  ASSUME NEW S, IsFiniteSet(S), NEW R, Orders(R, S), NEW i \in 1 .. Cardinality(S)
  PROVE  \E p \in S : RankIn(R, S, p) = i
<1>1. PICK n \in Nat : n = Cardinality(S)
  BY FS_CardinalityType
<1>2. PICK f : f = [p \in S |-> RankIn(R, S, p)]
  OBVIOUS
<1>3. f \in Injection(S, 1 .. n)
  <2>1. f \in [S -> 1 .. n]
    BY <1>1, <1>2, RankBounds
  <2>2. \A p, q \in S : f[p] = f[q] => p = q
    BY <1>2, RanksAreDistinct
  <2> QED
    BY <2>1, <2>2 DEF Injection, IsInjective
<1>4. f \in Surjection(S, 1 .. n)
  <2>1. PICK m \in Int : m = 1
    OBVIOUS
  <2>2. IsFiniteSet(m .. n) /\ Cardinality(m .. n) = n
    <3>1. IsFiniteSet(m .. n) /\ Cardinality(m .. n) = IF m > n THEN 0 ELSE n - m + 1
      BY FS_Interval
    <3>2. (IF m > n THEN 0 ELSE n - m + 1) = n
      BY <2>1
    <3> QED
      BY <3>1, <3>2
  <2> QED
    BY <1>1, <1>3, <2>1, <2>2, FS_Injection
<1> QED
  BY <1>1, <1>2, <1>4 DEF Surjection

\* The sequence of the elements by their ranks has each once, in their order.
Ascending(R, S, s, n) ==
  /\ s \in Seq(S) /\ Distinct(s) /\ ToSet(s) = S
  /\ \A i, j \in 1 .. n : i < j => <<s[i], s[j]>> \in R /\ s[i] # s[j]

LEMMA RankedLists ==
  ASSUME NEW S, IsFiniteSet(S), NEW R, Orders(R, S), NEW s, NEW n \in Nat, n = Cardinality(S),
         s \in [1 .. n -> S], \A i \in 1 .. n : RankIn(R, S, s[i]) = i
  PROVE  Ascending(R, S, s, n)
<1>1. s \in Seq(S) /\ DOMAIN s = 1 .. n
  OBVIOUS
<1>2. Distinct(s)
  BY <1>1 DEF Distinct
<1>3. \A p \in S : p = s[RankIn(R, S, p)] /\ RankIn(R, S, p) \in 1 .. n
  BY RankBounds, RanksAreDistinct
<1>4. ToSet(s) = S
  BY <1>1, <1>3 DEF ToSet
<1>5. ASSUME NEW i \in 1 .. n, NEW j \in 1 .. n, i < j
      PROVE  <<s[i], s[j]>> \in R /\ s[i] # s[j]
  <2>1. PICK p \in S, q \in S : p = s[i] /\ q = s[j]
    OBVIOUS
  <2>2. RankIn(R, S, p) = i /\ RankIn(R, S, q) = j
    BY <2>1
  <2>3. <<q, p>> \in R => j <= i
    BY <2>2, RankGrows
  <2>4. <<p, q>> \in R \/ <<q, p>> \in R
    BY DEF Orders
  <2> QED
    BY <1>5, <2>1, <2>2, <2>3, <2>4
<1> QED
  BY <1>1, <1>2, <1>4, <1>5 DEF Ascending

\* Pixels row by row.
LEMMA BeforeIsOrder ==
  /\ \A p, q \in Int \X Int : Before(p, q) \/ Before(q, p)
  /\ \A p, q \in Int \X Int : Before(p, q) /\ Before(q, p) => p = q
  /\ \A p, q, r \in Int \X Int : Before(p, q) /\ Before(q, r) => Before(p, r)
<1>1. \A p, q \in Int \X Int : p[1] = q[1] /\ p[2] = q[2] => p = q
  OBVIOUS
<1>2. \A p \in Int \X Int : p[1] \in Int /\ p[2] \in Int
  OBVIOUS
<1> QED
  BY <1>1, <1>2 DEF Before

LEMMA InOrderLists ==
  ASSUME NEW S, S \subseteq Int \X Int, IsFiniteSet(S)
  PROVE  /\ InOrder(S, Before) \in Seq(S)
         /\ Distinct(InOrder(S, Before))
         /\ ToSet(InOrder(S, Before)) = S
<1>1. PICK R : R = {pq \in S \X S : Before(pq[1], pq[2])}
  OBVIOUS
<1>2. \A p, q \in S : <<p, q>> \in R <=> Before(p, q)
  BY <1>1
<1>3. Orders(R, S)
  <2>1. \A p \in S : p \in Int \X Int
    OBVIOUS
  <2> QED
    BY <1>2, <2>1, BeforeIsOrder DEF Orders
<1>4. \A p \in S : RankIn(R, S, p) = Cardinality({q \in S : Before(q, p)})
  <2> SUFFICES ASSUME NEW p \in S
               PROVE  RankIn(R, S, p) = Cardinality({q \in S : Before(q, p)})
    OBVIOUS
  <2>1. {q \in S : <<q, p>> \in R} = {q \in S : Before(q, p)}
    BY <1>2
  <2> QED
    BY <2>1 DEF RankIn
<1>5. PICK n \in Nat : n = Cardinality(S)
  BY FS_CardinalityType
<1>6. \A i \in 1 .. n : \E p \in S : Cardinality({q \in S : Before(q, p)}) = i
  BY <1>3, <1>4, <1>5, RanksAreTaken
<1>7. PICK s : s = InOrder(S, Before)
  OBVIOUS
<1>8. s = [i \in 1 .. n |-> CHOOSE p \in S : Cardinality({q \in S : Before(q, p)}) = i]
  BY <1>5, <1>7 DEF InOrder
<1>9. s \in [1 .. n -> S] /\ \A i \in 1 .. n : RankIn(R, S, s[i]) = i
  BY <1>4, <1>6, <1>8
<1> QED
  BY <1>3, <1>5, <1>7, <1>9, RankedLists DEF Ascending

LEMMA FrontOfDistinct ==
  ASSUME NEW E, NEW s \in Seq(E), s # <<>>, Distinct(s)
  PROVE  /\ Front(s) \in Seq(E) /\ Last(s) \in E /\ Distinct(Front(s))
         /\ Last(s) \in ToSet(s)
         /\ ToSet(Front(s)) = ToSet(s) \ {Last(s)}
<1>1. PICK n \in Nat : Len(s) = n + 1 /\ DOMAIN s = 1 .. n + 1
  BY Len(s) - 1 \in Nat
<1>2. PICK t : t = Front(s)
  OBVIOUS
<1>3. PICK e \in E : e = Last(s) /\ e = s[n + 1]
  BY <1>1 DEF Last
<1>4. t \in Seq(E) /\ DOMAIN t = 1 .. n /\ \A i \in 1 .. n : t[i] = s[i]
  BY <1>1, <1>2 DEF Front
<1>5. \A i \in 1 .. n : i \in 1 .. n + 1 /\ i # n + 1
  OBVIOUS
<1>6. \A i \in 1 .. n + 1 : i \in 1 .. n \/ i = n + 1
  OBVIOUS
<1>7. n + 1 \in 1 .. n + 1
  OBVIOUS
<1>8. Distinct(t)
  BY <1>1, <1>4, <1>5 DEF Distinct
<1>9. \A i \in 1 .. n : s[i] # e
  BY <1>1, <1>3, <1>5, <1>7 DEF Distinct
<1>10. ToSet(t) = ToSet(s) \ {e}
  BY <1>1, <1>3, <1>4, <1>5, <1>6, <1>9 DEF ToSet
<1>11. e \in ToSet(s)
  BY <1>1, <1>3, <1>7 DEF ToSet
<1> QED
  BY <1>2, <1>3, <1>4, <1>8, <1>10, <1>11

LEMMA DistinctJoined ==
  ASSUME NEW E, NEW s \in Seq(E), NEW t \in Seq(E), Distinct(s), Distinct(t),
         ToSet(s) \intersect ToSet(t) = {}
  PROVE  /\ s \o t \in Seq(E) /\ Distinct(s \o t)
         /\ ToSet(s \o t) = ToSet(s) \union ToSet(t)
<1>1. PICK m \in Nat, n \in Nat : m = Len(s) /\ n = Len(t)
  OBVIOUS
<1>2. DOMAIN s = 1 .. m /\ DOMAIN t = 1 .. n
  BY <1>1
<1>3. PICK u : u = s \o t
  OBVIOUS
<1>4. /\ u \in Seq(E) /\ DOMAIN u = 1 .. m + n
      /\ \A i \in 1 .. m : u[i] = s[i]
      /\ \A i \in 1 .. m + n : i > m => u[i] = t[i - m]
  BY <1>1, <1>3
<1>5. \A i \in 1 .. m + n : i \in 1 .. m \/ (i > m /\ i - m \in 1 .. n)
  OBVIOUS
<1>6. \A i \in 1 .. m : i \in 1 .. m + n
  OBVIOUS
<1>7. \A i \in 1 .. n : i + m \in 1 .. m + n /\ i + m > m /\ (i + m) - m = i
  OBVIOUS
<1>8. \A i \in 1 .. m : s[i] \in ToSet(s)
  BY <1>2 DEF ToSet
<1>9. \A i \in 1 .. n : t[i] \in ToSet(t)
  BY <1>2 DEF ToSet
<1>10. ASSUME NEW i \in 1 .. m + n, NEW j \in 1 .. m + n, u[i] = u[j]
       PROVE  i = j
  <2>1. CASE i \in 1 .. m /\ j \in 1 .. m
    BY <1>2, <1>4, <1>10, <2>1 DEF Distinct
  <2>2. CASE i \in 1 .. m /\ j > m
    <3>1. u[i] = s[i] /\ s[i] \in ToSet(s)
      BY <1>4, <1>8, <2>2
    <3>2. u[j] = t[j - m] /\ j - m \in 1 .. n
      BY <1>4, <1>5, <2>2
    <3>3. u[j] \in ToSet(t)
      BY <1>9, <3>2
    <3> QED
      BY <1>10, <3>1, <3>3
  <2>3. CASE i > m /\ j \in 1 .. m
    <3>1. u[j] = s[j] /\ s[j] \in ToSet(s)
      BY <1>4, <1>8, <2>3
    <3>2. u[i] = t[i - m] /\ i - m \in 1 .. n
      BY <1>4, <1>5, <2>3
    <3>3. u[i] \in ToSet(t)
      BY <1>9, <3>2
    <3> QED
      BY <1>10, <3>1, <3>3
  <2>4. CASE i > m /\ j > m
    <3>1. i - m \in 1 .. n /\ j - m \in 1 .. n
      BY <1>5, <2>4
    <3>2. t[i - m] = t[j - m]
      BY <1>4, <1>10, <2>4
    <3>3. i - m = j - m
      BY <1>2, <3>1, <3>2 DEF Distinct
    <3> QED
      BY <3>3
  <2> QED
    BY <1>5, <2>1, <2>2, <2>3, <2>4
<1>11. Distinct(u)
  BY <1>4, <1>10 DEF Distinct
<1>12. ToSet(u) \subseteq ToSet(s) \union ToSet(t)
  BY <1>4, <1>5, <1>8, <1>9, SMTT(30) DEF ToSet
<1>13. ToSet(s) \subseteq ToSet(u)
  BY <1>2, <1>4, <1>6 DEF ToSet
<1>14. ToSet(t) \subseteq ToSet(u)
  <2>1. \A i \in 1 .. n : u[i + m] = t[i] /\ i + m \in DOMAIN u
    BY <1>4, <1>7
  <2> QED
    BY <1>2, <2>1 DEF ToSet
<1> QED
  BY <1>3, <1>4, <1>11, <1>12, <1>13, <1>14

\* Pixels as far as the flood fill has come.
VisitStates(text) == [visited : SUBSET text, stack : Seq(text)]
FillStart(p) == [visited |-> {p}, stack |-> <<p>>]

\* The pixels that the one on top of the stack brings in.
NewOnes(st, text) == (Neighbours(Last(st.stack)) \intersect text) \ st.visited

LEMMA FillStartType ==
  ASSUME NEW text, NEW p \in text
  PROVE  FillStart(p) \in VisitStates(text)
<1>1. <<p>> \in Seq(text) /\ {p} \in SUBSET text
  OBVIOUS
<1> QED
  BY <1>1 DEF FillStart, VisitStates

LEMMA VisitEffect ==
  ASSUME NEW text, text \subseteq Int \X Int, IsFiniteSet(text),
         NEW st \in VisitStates(text), st.stack # <<>>, Distinct(st.stack)
  PROVE  LET new == Visit(st, text)
             more == NewOnes(st, text)
             order == InOrder(more, Before)
         IN /\ new.visited = st.visited \union more
            /\ new.stack = Front(st.stack) \o order
            /\ order \in Seq(text) /\ Distinct(order) /\ ToSet(order) = more
            /\ more \subseteq text /\ more \intersect st.visited = {}
<1>1. PICK more : more = NewOnes(st, text)
  OBVIOUS
<1>2. more \subseteq text /\ more \intersect st.visited = {}
  BY <1>1 DEF NewOnes
<1>3. IsFiniteSet(more) /\ more \subseteq Int \X Int
  BY <1>2, FS_Subset
<1>4. PICK order : order = InOrder(more, Before)
  OBVIOUS
<1>5. order \in Seq(more) /\ Distinct(order) /\ ToSet(order) = more
  BY <1>3, <1>4, InOrderLists
<1>6. order \in Seq(text)
  BY <1>2, <1>5
<1>7. Visit(st, text) = [visited |-> st.visited \union more, stack |-> Front(st.stack) \o order]
  BY <1>1, <1>4 DEF Visit, NewOnes
<1> QED
  BY <1>1, <1>2, <1>4, <1>5, <1>6, <1>7

LEMMA VisitType ==
  ASSUME NEW text, text \subseteq Int \X Int, IsFiniteSet(text),
         NEW st \in VisitStates(text)
  PROVE  Visit(st, text) \in VisitStates(text)
<1>1. st.visited \subseteq text /\ st.stack \in Seq(text)
  BY DEF VisitStates
<1>2. CASE st.stack = <<>>
  BY <1>2 DEF Visit
<1>3. CASE st.stack # <<>>
  <2>1. PICK more : more = NewOnes(st, text)
    OBVIOUS
  <2>2. more \subseteq text
    BY <2>1 DEF NewOnes
  <2>3. IsFiniteSet(more) /\ more \subseteq Int \X Int
    BY <2>2, FS_Subset
  <2>4. PICK order : order = InOrder(more, Before)
    OBVIOUS
  <2>5. order \in Seq(more)
    BY <2>3, <2>4, InOrderLists
  <2>6. order \in Seq(text)
    BY <2>2, <2>5
  <2>7. Visit(st, text) = [visited |-> st.visited \union more, stack |-> Front(st.stack) \o order]
    BY <1>3, <2>1, <2>4 DEF Visit, NewOnes
  <2>8. Front(st.stack) \in Seq(text)
    BY <1>1, <1>3, FrontThenLast
  <2>9. Front(st.stack) \o order \in Seq(text)
    BY <2>6, <2>8
  <2>10. st.visited \union more \in SUBSET text
    BY <1>1, <2>2
  <2> QED
    BY <2>7, <2>9, <2>10 DEF VisitStates
<1> QED
  BY <1>2, <1>3

\* What is reached from T within S without leaving T; S hangs together.
Closed(T, S) == \A p \in T, q \in S : Touch(p, q) => q \in T
Tied(S) == \A T \in SUBSET S : T # {} /\ Closed(T, S) => T = S

LEMMA TouchIs ==
  /\ \A p, q \in Int \X Int : Touch(p, q) => Touch(q, p)
  /\ \A p \in Int \X Int : Touch(p, p)
  /\ \A p, q \in Int \X Int : q \in Neighbours(p) <=> Touch(p, q) /\ q # p
<1>1. \A p \in Int \X Int : p[1] \in Int /\ p[2] \in Int /\ p = <<p[1], p[2]>>
  OBVIOUS
<1>2. ASSUME NEW p \in Int \X Int, NEW q \in Int \X Int
      PROVE  Touch(p, q) <=> /\ p[1] - 1 <= q[1] /\ q[1] <= p[1] + 1
                             /\ p[2] - 1 <= q[2] /\ q[2] <= p[2] + 1
  BY <1>1 DEF Touch
<1>3. ASSUME NEW p \in Int \X Int, NEW q \in Int \X Int
      PROVE  q \in Neighbours(p) <=> /\ p[1] - 1 <= q[1] /\ q[1] <= p[1] + 1
                                     /\ p[2] - 1 <= q[2] /\ q[2] <= p[2] + 1
                                     /\ q # p
  <2>1. q \in Neighbours(p) <=>
          q \in (p[1] - 1 .. p[1] + 1) \X (p[2] - 1 .. p[2] + 1) /\ q # p
    BY DEF Neighbours
  <2>2. q \in (p[1] - 1 .. p[1] + 1) \X (p[2] - 1 .. p[2] + 1) <=>
          q[1] \in p[1] - 1 .. p[1] + 1 /\ q[2] \in p[2] - 1 .. p[2] + 1
    <3>1. q = <<q[1], q[2]>>
      BY <1>1
    <3> QED
      BY <3>1
  <2> QED
    BY <1>1, <2>1, <2>2
<1>4. \A p, q \in Int \X Int : Touch(p, q) => Touch(q, p)
  <2>1. TAKE p, q \in Int \X Int
  <2>2. PICK a \in Int, b \in Int, c \in Int, d \in Int :
          a = p[1] /\ b = p[2] /\ c = q[1] /\ d = q[2]
    OBVIOUS
  <2> QED
    BY <1>2, <2>2
<1>5. \A p \in Int \X Int : Touch(p, p)
  BY <1>1, <1>2
<1> QED
  BY <1>2, <1>3, <1>4, <1>5

\* What touches a pixel of a piece belongs to the piece.
LEMMA TiedGrows ==
  ASSUME NEW S, S \subseteq Int \X Int, Tied(S), NEW q \in S,
         NEW N, N \subseteq Int \X Int, \A y \in N : Touch(q, y)
  PROVE  Tied(S \union N)
<1> SUFFICES ASSUME NEW T \in SUBSET (S \union N), T # {}, Closed(T, S \union N)
             PROVE  T = S \union N
  BY DEF Tied
<1>1. q \in T
  <2>1. CASE T \intersect S # {}
    <3>1. Closed(T \intersect S, S)
      BY DEF Closed
    <3>2. T \intersect S = S
      BY <2>1, <3>1 DEF Tied
    <3> QED
      BY <3>2
  <2>2. CASE T \intersect S = {}
    <3>1. PICK y \in T : y \in N
      BY <2>2
    <3>2. Touch(y, q)
      BY <3>1, TouchIs
    <3> QED
      BY <3>1, <3>2 DEF Closed
  <2> QED
    BY <2>1, <2>2
<1>2. Closed(T \intersect S, S) /\ T \intersect S # {}
  BY <1>1 DEF Closed
<1>3. T \intersect S = S
  BY <1>2 DEF Tied
<1>4. N \subseteq T
  BY <1>1 DEF Closed
<1> QED
  BY <1>3, <1>4

Expanded(st) == st.visited \ ToSet(st.stack)

\* After k rounds from p: the pixels marked hang together, those on the stack
\* are marked once, and every other has all its neighbours marked; a round
\* that finds a pixel on the stack takes it off for good.
Filling(st, text, p, k) ==
  /\ p \in st.visited
  /\ ToSet(st.stack) \subseteq st.visited
  /\ Distinct(st.stack)
  /\ \A q \in Expanded(st) : Neighbours(q) \intersect text \subseteq st.visited
  /\ Tied(st.visited)
  /\ st.stack # <<>> => Cardinality(Expanded(st)) = k

LEMMA FillBegins ==
  ASSUME NEW text, text \subseteq Int \X Int, NEW p \in text
  PROVE  Filling(FillStart(p), text, p, 0)
<1>0. PICK st : st = FillStart(p)
  OBVIOUS
<1>1. st.visited = {p} /\ st.stack = <<p>>
  BY <1>0 DEF FillStart
<1>2. ToSet(st.stack) = {p} /\ Distinct(st.stack)
  <2>1. DOMAIN <<p>> = 1 .. 1 /\ <<p>>[1] = p
    OBVIOUS
  <2>2. \A i \in 1 .. 1 : i = 1
    OBVIOUS
  <2> QED
    BY <1>1, <2>1, <2>2 DEF ToSet, Distinct
<1>3. Expanded(st) = {}
  BY <1>1, <1>2 DEF Expanded
<1>4. Tied(st.visited)
  BY <1>1 DEF Tied
<1>5. Cardinality(Expanded(st)) = 0
  BY <1>3, FS_EmptySet
<1> QED
  BY <1>0, <1>1, <1>2, <1>3, <1>4, <1>5 DEF Filling

LEMMA FillStep ==
  ASSUME NEW text, text \subseteq Int \X Int, IsFiniteSet(text),
         NEW p \in text, NEW k \in Nat,
         NEW st \in VisitStates(text), Filling(st, text, p, k)
  PROVE  Filling(Visit(st, text), text, p, k + 1)
<1>1. st.visited \subseteq text /\ st.stack \in Seq(text)
  BY DEF VisitStates
<1>2. CASE st.stack = <<>>
  <2>1. Visit(st, text) = st
    BY <1>2 DEF Visit
  <2> QED
    BY <1>2, <2>1 DEF Filling
<1>3. CASE st.stack # <<>>
  <2>1. PICK new : new = Visit(st, text)
    OBVIOUS
  <2>2. PICK more : more = NewOnes(st, text)
    OBVIOUS
  <2>3. PICK order : order = InOrder(more, Before)
    OBVIOUS
  <2>4. /\ p \in st.visited /\ ToSet(st.stack) \subseteq st.visited /\ Distinct(st.stack)
        /\ \A q \in Expanded(st) : Neighbours(q) \intersect text \subseteq st.visited
        /\ Tied(st.visited) /\ Cardinality(Expanded(st)) = k
    BY <1>3 DEF Filling
  <2>5. /\ new.visited = st.visited \union more
        /\ new.stack = Front(st.stack) \o order
        /\ order \in Seq(text) /\ Distinct(order) /\ ToSet(order) = more
        /\ more \subseteq text /\ more \intersect st.visited = {}
    BY <1>3, <2>1, <2>2, <2>3, <2>4, VisitEffect
  <2>6. PICK q : q = Last(st.stack)
    OBVIOUS
  <2>7. PICK front : front = Front(st.stack)
    OBVIOUS
  <2>8. /\ front \in Seq(text) /\ q \in text /\ Distinct(front)
        /\ q \in ToSet(st.stack) /\ ToSet(front) = ToSet(st.stack) \ {q}
    BY <1>1, <1>3, <2>4, <2>6, <2>7, FrontOfDistinct
  <2>9. ToSet(front) \intersect ToSet(order) = {}
    BY <2>4, <2>5, <2>8
  <2>10. Distinct(new.stack) /\ ToSet(new.stack) = ToSet(front) \union more
    <3>1. /\ front \in Seq(text) /\ Distinct(front)
          /\ order \in Seq(text) /\ Distinct(order)
      BY <2>5, <2>8
    <3>2. /\ Distinct(front \o order)
          /\ ToSet(front \o order) = ToSet(front) \union ToSet(order)
      BY <2>9, <3>1, DistinctJoined
    <3> QED
      BY <2>5, <2>7, <3>2
  <2>11. Expanded(new) = Expanded(st) \union {q} /\ q \notin Expanded(st)
    BY <2>4, <2>5, <2>8, <2>10 DEF Expanded
  <2>12. ToSet(new.stack) \subseteq new.visited
    BY <2>4, <2>5, <2>8, <2>10
  <2>13. Neighbours(q) \intersect text \subseteq new.visited
    BY <2>2, <2>5, <2>6 DEF NewOnes
  <2>14. \A r \in Expanded(new) : Neighbours(r) \intersect text \subseteq new.visited
    BY <2>4, <2>5, <2>11, <2>13
  <2>15. Tied(new.visited)
    <3>1. \A y \in more : Touch(q, y)
      <4>1. \A y \in more : y \in Neighbours(q) /\ y \in Int \X Int
        BY <2>2, <2>5, <2>6 DEF NewOnes
      <4> QED
        BY <2>8, <4>1, TouchIs
    <3>2. st.visited \subseteq Int \X Int /\ more \subseteq Int \X Int /\ q \in st.visited
      BY <1>1, <2>4, <2>5, <2>8
    <3>3. Tied(st.visited \union more)
      BY <2>4, <3>1, <3>2, TiedGrows
    <3> QED
      BY <2>5, <3>3
  <2>16. Cardinality(Expanded(new)) = k + 1
    <3>1. IsFiniteSet(Expanded(st))
      <4>1. Expanded(st) \in SUBSET text
        BY <1>1 DEF Expanded
      <4> QED
        BY <4>1, FS_Subset
    <3>2. Cardinality(Expanded(st) \union {q}) = Cardinality(Expanded(st)) + 1
      BY <2>11, <3>1, FS_AddElement
    <3> QED
      BY <2>4, <2>11, <3>2
  <2>17. p \in new.visited
    BY <2>4, <2>5
  <2>18. Filling(new, text, p, k + 1)
    BY <2>10, <2>12, <2>14, <2>15, <2>16, <2>17 DEF Filling
  <2> QED
    BY <2>1, <2>18
<1> QED
  BY <1>2, <1>3

\* What the flood fill from p ends with, over a sequence of rounds.
FilledBy(s, text, p) == FoldLeft(LAMBDA st, k : Visit(st, text), FillStart(p), s)

VisitRun(run, s, text, p) ==
  /\ run[0] = FillStart(p)
  /\ \A k \in 1 .. Len(s) : run[k] = Visit(run[k - 1], text)
  /\ run[Len(s)] = FilledBy(s, text, p)

LEMMA VisitRuns ==
  ASSUME NEW text, text \subseteq Int \X Int, IsFiniteSet(text), NEW p \in text, NEW s \in Seq(Nat)
  PROVE  \E run \in [0 .. Len(s) -> VisitStates(text)] : VisitRun(run, s, text, p)
<1> DEFINE F == [r \in VisitStates(text) \X Nat |-> Visit(r[1], text)]
           Def(it) == it = [T \in SUBSET DOMAIN s |->
                              IF T = {} THEN FillStart(p)
                              ELSE Visit(it[T \ {Max(T)}], text)]
           fold == CHOOSE it : Def(it)
           m == Len(s)
<1>1. DOMAIN s = 1 .. m /\ m \in Nat /\ s \in [1 .. m -> Nat]
  OBVIOUS
<1>2. FilledBy(s, text, p) = fold[DOMAIN s]
  BY DEF FilledBy, FillStart, FoldLeft, MapThenFoldSet
<1>3. FillStart(p) \in VisitStates(text)
  BY FillStartType
<1>4. Def(fold)
  <2>1. F \in [VisitStates(text) \X Nat -> VisitStates(text)]
    BY VisitType
  <2>2. \E it \in [SUBSET (1 .. m) -> VisitStates(text)] : Iterates(it, F, FillStart(p), s, m)
    <3> HIDE DEF F, Def, m
    <3> QED
      BY <1>1, <1>3, <2>1, FoldExists
  <2>3. PICK it \in [SUBSET (1 .. m) -> VisitStates(text)] : Iterates(it, F, FillStart(p), s, m)
    BY <2>2
  <2>4. ASSUME NEW T \in SUBSET (1 .. m), T # {}
        PROVE  it[T] = Visit(it[T \ {Max(T)}], text)
    BY <1>1, <2>3, <2>4, MaxOfSubset DEF Iterates
  <2>5. Def(it)
    BY <1>1, <2>3, <2>4 DEF Iterates
  <2> HIDE DEF Def
  <2> QED
    BY <2>5
<1> HIDE DEF fold
<1> DEFINE run == [k \in 0 .. m |-> fold[1 .. k]]
<1>5. run[0] = FillStart(p)
  BY <1>1, <1>4, 1 .. 0 = {}
<1>6. ASSUME NEW k \in 1 .. m
      PROVE  run[k] = Visit(run[k - 1], text)
  <2>1. /\ Max(1 .. k) = k /\ (1 .. k) \ {k} = 1 .. k - 1
        /\ 1 .. k # {} /\ 1 .. k \in SUBSET (1 .. m)
    BY <1>1, Prefix
  <2>2. fold[1 .. k] = Visit(fold[(1 .. k) \ {Max(1 .. k)}], text)
    BY <1>1, <1>4, <2>1
  <2>3. k \in 0 .. m /\ k - 1 \in 0 .. m
    BY <1>1
  <2> QED
    BY <2>1, <2>2, <2>3
<1>7. run[m] = FilledBy(s, text, p)
  BY <1>1, <1>2
<1>8. ASSUME NEW k \in Nat, k + 1 <= m, run[k] \in VisitStates(text)
      PROVE  run[k + 1] \in VisitStates(text)
  <2>1. k + 1 \in 1 .. m /\ (k + 1) - 1 = k /\ s[k + 1] \in Nat
    BY <1>1, <1>8, SMTT(30)
  <2>2. run[k + 1] = Visit(run[k], text)
    BY <1>6, <2>1
  <2> HIDE DEF run
  <2> QED
    BY <1>8, <2>1, <2>2, VisitType
<1> HIDE DEF run
<1>9. run \in [0 .. m -> VisitStates(text)]
  <2> DEFINE D == {k \in Nat : run[k] \in VisitStates(text)}
  <2>1. 0 \in D
    BY <1>3, <1>5
  <2>2. \A k \in Nat : k + 1 <= m /\ k \in D => k + 1 \in D
    BY <1>8
  <2>3. 0 .. m \subseteq D
    <3> HIDE DEF D, m
    <3> QED
      BY <1>1, <2>1, <2>2, IntervalInduction
  <2> QED
    BY <2>3 DEF run
<1> QED
  BY <1>5, <1>6, <1>7, <1>9 DEF VisitRun

\* A piece of text: it hangs together, and none of the text around it is left
\* out.
Piece(C, text) ==
  /\ C \subseteq text /\ C # {} /\ Tied(C)
  /\ \A q \in C : Neighbours(q) \intersect text \subseteq C

LEMMA FillEnds ==
  ASSUME NEW text, text \subseteq Int \X Int, IsFiniteSet(text), NEW p \in text
  PROVE  Piece(FloodFill(text, p), text) /\ p \in FloodFill(text, p)
<1>1. PICK n \in Nat : n = Cardinality(text)
  BY FS_CardinalityType
<1>2. PICK s \in Seq(Nat) : s = [k \in 1 .. n |-> k] /\ Len(s) = n
  <2>1. [k \in 1 .. n |-> k] \in Seq(Nat) /\ Len([k \in 1 .. n |-> k]) = n
    OBVIOUS
  <2> QED
    BY <2>1
<1>3. FloodFill(text, p) = FilledBy(s, text, p).visited
  BY <1>1, <1>2 DEF FloodFill, FilledBy, FillStart
<1>4. PICK run \in [0 .. Len(s) -> VisitStates(text)] : VisitRun(run, s, text, p)
  BY VisitRuns
<1> DEFINE D == {k \in Nat : Filling(run[k], text, p, k)}
<1>5. 0 \in D
  BY <1>4, FillBegins DEF VisitRun
<1>6. ASSUME NEW k \in Nat, k + 1 <= n, k \in D
      PROVE  k + 1 \in D
  <2>1. k \in 0 .. n /\ k + 1 \in 1 .. n /\ (k + 1) - 1 = k
    BY <1>6
  <2>2. run[k] \in VisitStates(text) /\ Filling(run[k], text, p, k)
    BY <1>2, <1>4, <1>6, <2>1
  <2>3. run[k + 1] = Visit(run[k], text)
    BY <1>2, <1>4, <2>1 DEF VisitRun
  <2>4. Filling(run[k + 1], text, p, k + 1)
    BY <2>2, <2>3, FillStep
  <2> QED
    BY <2>4
<1>7. n \in D
  <2>1. 0 .. n \subseteq D
    <3> HIDE DEF D
    <3> QED
      BY <1>5, <1>6, IntervalInduction
  <2> QED
    BY <2>1
<1>8. PICK st \in VisitStates(text) : st = run[n] /\ st = FilledBy(s, text, p)
  BY <1>2, <1>4 DEF VisitRun
<1>9. Filling(st, text, p, n)
  BY <1>7, <1>8
<1>10. st.visited \subseteq text /\ st.stack \in Seq(text)
  BY DEF VisitStates
<1>11. st.stack = <<>>
  <2> SUFFICES ASSUME st.stack # <<>>
               PROVE  FALSE
    OBVIOUS
  <2>1. Cardinality(Expanded(st)) = n /\ Distinct(st.stack) /\ ToSet(st.stack) \subseteq st.visited
    BY <1>9 DEF Filling
  <2>2. Expanded(st) \in SUBSET text
    BY <1>10 DEF Expanded
  <2>3. Expanded(st) = text
    BY <1>1, <2>1, <2>2, FS_Subset
  <2>4. Last(st.stack) \in ToSet(st.stack)
    BY <1>10, <2>1, FrontOfDistinct
  <2>5. Last(st.stack) \notin Expanded(st) /\ Last(st.stack) \in text
    BY <1>10, <2>1, <2>4 DEF Expanded
  <2> QED
    BY <2>3, <2>5
<1>12. Expanded(st) = st.visited
  BY <1>11 DEF Expanded, ToSet
<1>13. Piece(st.visited, text) /\ p \in st.visited
  BY <1>9, <1>10, <1>12 DEF Filling, Piece
<1> QED
  BY <1>3, <1>8, <1>13

\* Two pieces are the same or do not touch.
LEMMA PiecesApart ==
  ASSUME NEW text, text \subseteq Int \X Int, NEW C, NEW D, Piece(C, text), Piece(D, text),
         NEW x \in C, NEW y \in D, Touch(x, y)
  PROVE  C = D
<1>1. /\ C \subseteq text /\ Tied(C) /\ \A q \in C : Neighbours(q) \intersect text \subseteq C
      /\ D \subseteq text /\ Tied(D) /\ \A q \in D : Neighbours(q) \intersect text \subseteq D
  BY DEF Piece
<1>2. \A q \in C, r \in text : Touch(q, r) => r \in C
  <2>1. \A q \in C, r \in text : q \in Int \X Int /\ r \in Int \X Int
    BY <1>1
  <2> QED
    BY <1>1, <2>1, TouchIs
<1>3. \A q \in D, r \in text : Touch(q, r) => r \in D
  <2>1. \A q \in D, r \in text : q \in Int \X Int /\ r \in Int \X Int
    BY <1>1
  <2> QED
    BY <1>1, <2>1, TouchIs
<1>4. y \in C \intersect D
  BY <1>1, <1>2
<1>5. Closed(C \intersect D, C) /\ Closed(C \intersect D, D)
  BY <1>1, <1>2, <1>3 DEF Closed
<1>6. C \intersect D = C
  BY <1>1, <1>4, <1>5 DEF Tied
<1>7. C \intersect D = D
  BY <1>1, <1>4, <1>5 DEF Tied
<1> QED
  BY <1>6, <1>7

PartsOf(S) == SUBSET S
Seed(S) == {CHOOSE p \in S : TRUE}

LEMMA SeedType ==
  ASSUME NEW S, S # {}
  PROVE  Seed(S) \in PartsOf(S)
BY DEF Seed, PartsOf

LEMMA ReachedType ==
  ASSUME NEW S, NEW T \in PartsOf(S)
  PROVE  Reached(T, S) \in PartsOf(S)
BY DEF Reached, PartsOf

\* What is reached over a sequence of rounds.
GrownBy(s, S) == FoldLeft(LAMBDA T, k : Reached(T, S), Seed(S), s)

GrowthRun(run, s, S) ==
  /\ run[0] = Seed(S)
  /\ \A k \in 1 .. Len(s) : run[k] = Reached(run[k - 1], S)
  /\ run[Len(s)] = GrownBy(s, S)

LEMMA GrowthRuns ==
  ASSUME NEW S, S # {}, NEW s \in Seq(Nat)
  PROVE  \E run \in [0 .. Len(s) -> PartsOf(S)] : GrowthRun(run, s, S)
<1> DEFINE F == [p \in PartsOf(S) \X Nat |-> Reached(p[1], S)]
           Def(it) == it = [T \in SUBSET DOMAIN s |->
                              IF T = {} THEN Seed(S)
                              ELSE Reached(it[T \ {Max(T)}], S)]
           fold == CHOOSE it : Def(it)
           m == Len(s)
<1>1. DOMAIN s = 1 .. m /\ m \in Nat /\ s \in [1 .. m -> Nat]
  OBVIOUS
<1>2. GrownBy(s, S) = fold[DOMAIN s]
  BY DEF GrownBy, FoldLeft, MapThenFoldSet
<1>3. Seed(S) \in PartsOf(S)
  BY SeedType
<1>4. Def(fold)
  <2>1. F \in [PartsOf(S) \X Nat -> PartsOf(S)]
    BY ReachedType
  <2>2. \E it \in [SUBSET (1 .. m) -> PartsOf(S)] : Iterates(it, F, Seed(S), s, m)
    <3> HIDE DEF F, Def, m
    <3> QED
      BY <1>1, <1>3, <2>1, FoldExists
  <2>3. PICK it \in [SUBSET (1 .. m) -> PartsOf(S)] : Iterates(it, F, Seed(S), s, m)
    BY <2>2
  <2>4. ASSUME NEW T \in SUBSET (1 .. m), T # {}
        PROVE  it[T] = Reached(it[T \ {Max(T)}], S)
    BY <1>1, <2>3, <2>4, MaxOfSubset DEF Iterates
  <2>5. Def(it)
    BY <1>1, <2>3, <2>4 DEF Iterates
  <2> HIDE DEF Def
  <2> QED
    BY <2>5
<1> HIDE DEF fold
<1> DEFINE run == [k \in 0 .. m |-> fold[1 .. k]]
<1>5. run[0] = Seed(S)
  BY <1>1, <1>4, 1 .. 0 = {}
<1>6. ASSUME NEW k \in 1 .. m
      PROVE  run[k] = Reached(run[k - 1], S)
  <2>1. /\ Max(1 .. k) = k /\ (1 .. k) \ {k} = 1 .. k - 1
        /\ 1 .. k # {} /\ 1 .. k \in SUBSET (1 .. m)
    BY <1>1, Prefix
  <2>2. fold[1 .. k] = Reached(fold[(1 .. k) \ {Max(1 .. k)}], S)
    BY <1>1, <1>4, <2>1
  <2>3. k \in 0 .. m /\ k - 1 \in 0 .. m
    BY <1>1
  <2> QED
    BY <2>1, <2>2, <2>3
<1>7. run[m] = GrownBy(s, S)
  BY <1>1, <1>2
<1>8. ASSUME NEW k \in Nat, k + 1 <= m, run[k] \in PartsOf(S)
      PROVE  run[k + 1] \in PartsOf(S)
  <2>1. k + 1 \in 1 .. m /\ (k + 1) - 1 = k /\ s[k + 1] \in Nat
    BY <1>1, <1>8
  <2>2. run[k + 1] = Reached(run[k], S)
    BY <1>6, <2>1
  <2> HIDE DEF run
  <2> QED
    BY <1>8, <2>1, <2>2, ReachedType
<1> HIDE DEF run
<1>9. run \in [0 .. m -> PartsOf(S)]
  <2> DEFINE D == {k \in Nat : run[k] \in PartsOf(S)}
  <2>1. 0 \in D
    BY <1>3, <1>5
  <2>2. \A k \in Nat : k + 1 <= m /\ k \in D => k + 1 \in D
    BY <1>8
  <2>3. 0 .. m \subseteq D
    <3> HIDE DEF D, m
    <3> QED
      BY <1>1, <2>1, <2>2, IntervalInduction
  <2> QED
    BY <2>3 DEF run
<1> QED
  BY <1>5, <1>6, <1>7, <1>9 DEF GrowthRun

\* Each round reaches more, until what is reached is all that can be.
LEMMA ReachedGrows ==
  ASSUME NEW S, S \subseteq Int \X Int, IsFiniteSet(S), NEW T \in SUBSET S, NEW k \in Nat,
         T # {}, Closed(T, S) \/ Cardinality(T) > k
  PROVE  /\ Reached(T, S) # {}
         /\ Closed(Reached(T, S), S) \/ Cardinality(Reached(T, S)) > k + 1
<1>1. PICK R : R = Reached(T, S)
  OBVIOUS
<1>2. T \subseteq R /\ R \in SUBSET S
  BY <1>1, TouchIs DEF Reached
<1>3. CASE R = T
  <2>1. Closed(T, S)
    BY <1>1, <1>3 DEF Closed, Reached
  <2> QED
    BY <1>1, <1>3, <2>1
<1>4. CASE R # T
  <2>1. ~Closed(T, S)
    BY <1>1, <1>2, <1>4 DEF Closed, Reached
  <2>2. IsFiniteSet(R) /\ IsFiniteSet(T)
    BY <1>2, FS_Subset
  <2>3. Cardinality(T) <= Cardinality(R) /\ Cardinality(T) # Cardinality(R)
    BY <1>2, <1>4, <2>2, FS_Subset
  <2>4. Cardinality(T) \in Nat /\ Cardinality(R) \in Nat
    BY <2>2, FS_CardinalityType
  <2>5. Cardinality(R) > k + 1
    BY <2>1, <2>3, <2>4
  <2> QED
    BY <1>1, <1>2, <2>5
<1> QED
  BY <1>3, <1>4

LEMMA TiedIsLinked ==
  ASSUME NEW S, S \subseteq Int \X Int, IsFiniteSet(S), S # {}, Tied(S)
  PROVE  Linked(S)
<1>1. PICK n \in Nat : n = Cardinality(S)
  BY FS_CardinalityType
<1>2. PICK s \in Seq(Nat) : s = [k \in 1 .. n |-> k] /\ Len(s) = n
  <2>1. [k \in 1 .. n |-> k] \in Seq(Nat) /\ Len([k \in 1 .. n |-> k]) = n
    OBVIOUS
  <2> QED
    BY <2>1
<1>3. Linked(S) <=> GrownBy(s, S) = S
  BY <1>1, <1>2 DEF Linked, GrownBy, Seed
<1>4. PICK run \in [0 .. Len(s) -> PartsOf(S)] : GrowthRun(run, s, S)
  BY GrowthRuns
<1> DEFINE D == {k \in Nat : run[k] # {} /\ (Closed(run[k], S) \/ Cardinality(run[k]) > k)}
<1>5. 0 \in D
  <2>1. PICK p : Seed(S) = {p}
    BY DEF Seed
  <2>2. Cardinality({p}) = 1 /\ {p} # {}
    BY FS_Singleton
  <2>3. run[0] = {p}
    BY <1>4, <2>1 DEF GrowthRun
  <2> QED
    BY <2>2, <2>3
<1>6. ASSUME NEW k \in Nat, k + 1 <= n, k \in D
      PROVE  k + 1 \in D
  <2>1. k \in 0 .. n /\ k + 1 \in 1 .. n /\ (k + 1) - 1 = k
    BY <1>6
  <2>2. run[k] \in SUBSET S /\ run[k + 1] = Reached(run[k], S)
    BY <1>2, <1>4, <2>1 DEF GrowthRun, PartsOf
  <2>3. run[k] # {} /\ (Closed(run[k], S) \/ Cardinality(run[k]) > k)
    BY <1>6
  <2>4. run[k + 1] # {} /\ (Closed(run[k + 1], S) \/ Cardinality(run[k + 1]) > k + 1)
    BY <2>2, <2>3, ReachedGrows
  <2> QED
    BY <2>4
<1>7. n \in D
  <2>1. 0 .. n \subseteq D
    <3> HIDE DEF D
    <3> QED
      BY <1>5, <1>6, IntervalInduction
  <2> QED
    BY <2>1
<1>8. PICK T \in SUBSET S : T = run[n] /\ T = GrownBy(s, S)
  <2>1. n \in 0 .. n /\ run[n] \in PartsOf(S)
    BY <1>2, <1>4
  <2> QED
    BY <1>2, <1>4, <2>1 DEF GrowthRun, PartsOf
<1>9. T # {} /\ (Closed(T, S) \/ Cardinality(T) > n)
  BY <1>7, <1>8
<1>10. Closed(T, S)
  <2>1. Cardinality(T) <= n /\ Cardinality(T) \in Nat
    BY <1>1, FS_Subset, FS_CardinalityType
  <2> QED
    BY <1>9, <2>1
<1>11. T = S
  BY <1>9, <1>10 DEF Tied
<1> QED
  BY <1>3, <1>8, <1>11

FoundStates(text) == Seq(SUBSET text)

LEMMA NothingFound == ASSUME NEW text PROVE <<>> \in FoundStates(text)
BY DEF FoundStates

LEMMA ScanType ==
  ASSUME NEW text, text \subseteq Int \X Int, IsFiniteSet(text), NEW limit,
         NEW found \in FoundStates(text), NEW p \in text
  PROVE  Scan(found, p, text, limit) \in FoundStates(text)
<1>1. FloodFill(text, p) \in SUBSET text
  BY FillEnds DEF Piece
<1>2. Append(found, FloodFill(text, p)) \in FoundStates(text)
  BY <1>1 DEF FoundStates
<1> QED
  BY <1>2 DEF Scan

\* What has been found over a sequence of pixels.
ScannedBy(s, text, limit) ==
  FoldLeft(LAMBDA found, p : Scan(found, p, text, limit), <<>>, s)

ScanRun(run, s, text, limit) ==
  /\ run[0] = <<>>
  /\ \A k \in 1 .. Len(s) : run[k] = Scan(run[k - 1], s[k], text, limit)
  /\ run[Len(s)] = ScannedBy(s, text, limit)

LEMMA ScanRuns ==
  ASSUME NEW text, text \subseteq Int \X Int, IsFiniteSet(text), NEW limit, NEW s \in Seq(text)
  PROVE  \E run \in [0 .. Len(s) -> FoundStates(text)] : ScanRun(run, s, text, limit)
<1> DEFINE F == [p \in FoundStates(text) \X text |-> Scan(p[1], p[2], text, limit)]
           Def(it) == it = [T \in SUBSET DOMAIN s |->
                              IF T = {} THEN <<>>
                              ELSE Scan(it[T \ {Max(T)}], s[Max(T)], text, limit)]
           fold == CHOOSE it : Def(it)
           m == Len(s)
<1>1. DOMAIN s = 1 .. m /\ m \in Nat /\ s \in [1 .. m -> text]
  OBVIOUS
<1>2. ScannedBy(s, text, limit) = fold[DOMAIN s]
  BY DEF ScannedBy, FoldLeft, MapThenFoldSet
<1>3. <<>> \in FoundStates(text)
  BY NothingFound
<1>4. Def(fold)
  <2>1. F \in [FoundStates(text) \X text -> FoundStates(text)]
    BY ScanType
  <2>2. \E it \in [SUBSET (1 .. m) -> FoundStates(text)] : Iterates(it, F, <<>>, s, m)
    <3> HIDE DEF F, Def, m
    <3> QED
      BY <1>1, <1>3, <2>1, FoldExists
  <2>3. PICK it \in [SUBSET (1 .. m) -> FoundStates(text)] : Iterates(it, F, <<>>, s, m)
    BY <2>2
  <2>4. ASSUME NEW T \in SUBSET (1 .. m), T # {}
        PROVE  it[T] = Scan(it[T \ {Max(T)}], s[Max(T)], text, limit)
    BY <1>1, <2>3, <2>4, MaxOfSubset DEF Iterates
  <2>5. Def(it)
    BY <1>1, <2>3, <2>4 DEF Iterates
  <2> HIDE DEF Def
  <2> QED
    BY <2>5
<1> HIDE DEF fold
<1> DEFINE run == [k \in 0 .. m |-> fold[1 .. k]]
<1>5. run[0] = <<>>
  BY <1>1, <1>4, 1 .. 0 = {}
<1>6. ASSUME NEW k \in 1 .. m
      PROVE  run[k] = Scan(run[k - 1], s[k], text, limit)
  <2>1. /\ Max(1 .. k) = k /\ (1 .. k) \ {k} = 1 .. k - 1
        /\ 1 .. k # {} /\ 1 .. k \in SUBSET (1 .. m)
    BY <1>1, Prefix
  <2>2. fold[1 .. k] = Scan(fold[(1 .. k) \ {Max(1 .. k)}], s[Max(1 .. k)], text, limit)
    BY <1>1, <1>4, <2>1
  <2>3. k \in 0 .. m /\ k - 1 \in 0 .. m
    BY <1>1
  <2> QED
    BY <2>1, <2>2, <2>3
<1>7. run[m] = ScannedBy(s, text, limit)
  BY <1>1, <1>2
<1>8. ASSUME NEW k \in Nat, k + 1 <= m, run[k] \in FoundStates(text)
      PROVE  run[k + 1] \in FoundStates(text)
  <2>1. k + 1 \in 1 .. m /\ (k + 1) - 1 = k /\ s[k + 1] \in text
    BY <1>1, <1>8
  <2>2. run[k + 1] = Scan(run[k], s[k + 1], text, limit)
    BY <1>6, <2>1
  <2> HIDE DEF run
  <2> QED
    BY <1>8, <2>1, <2>2, ScanType
<1> HIDE DEF run
<1>9. run \in [0 .. m -> FoundStates(text)]
  <2> DEFINE D == {k \in Nat : run[k] \in FoundStates(text)}
  <2>1. 0 \in D
    BY <1>3, <1>5
  <2>2. \A k \in Nat : k + 1 <= m /\ k \in D => k + 1 \in D
    BY <1>8
  <2>3. 0 .. m \subseteq D
    <3> HIDE DEF D, m
    <3> QED
      BY <1>1, <2>1, <2>2, IntervalInduction
  <2> QED
    BY <2>3 DEF run
<1> QED
  BY <1>5, <1>6, <1>7, <1>9 DEF ScanRun

\* After k pixels of a sequence s of the text: each set found is a piece, none
\* is found twice, and each pixel is in one unless there are too many.
Finding(found, s, text, limit, k) ==
  /\ \A i \in DOMAIN found : Piece(found[i], text)
  /\ Distinct(found)
  /\ Len(found) < limit => \A i \in 1 .. k : \E j \in DOMAIN found : s[i] \in found[j]

LEMMA FindStep ==
  ASSUME NEW text, text \subseteq Int \X Int, IsFiniteSet(text), NEW limit \in Int,
         NEW s \in Seq(text), NEW k \in Nat, k + 1 \in DOMAIN s,
         NEW found \in Seq(SUBSET text), Finding(found, s, text, limit, k)
  PROVE  Finding(Scan(found, s[k + 1], text, limit), s, text, limit, k + 1)
<1>1. PICK p \in text : p = s[k + 1]
  OBVIOUS
<1>2. PICK n \in Nat : n = Len(found) /\ DOMAIN found = 1 .. n
  OBVIOUS
<1>3. /\ \A i \in 1 .. n : Piece(found[i], text)
      /\ Distinct(found)
      /\ n < limit => \A i \in 1 .. k : \E j \in 1 .. n : s[i] \in found[j]
  BY <1>2 DEF Finding
<1>4. \A i \in 1 .. k + 1 : i \in 1 .. k \/ i = k + 1
  OBVIOUS
<1>5. CASE n >= limit
  <2>1. Scan(found, p, text, limit) = found
    BY <1>2, <1>5 DEF Scan
  <2>2. ~(n < limit)
    BY <1>5
  <2> QED
    BY <1>1, <1>2, <1>3, <2>1, <2>2 DEF Finding
<1>6. CASE n < limit /\ \E i \in 1 .. n : p \in found[i]
  <2>1. Scan(found, p, text, limit) = found
    BY <1>2, <1>6 DEF Scan
  <2> QED
    BY <1>1, <1>2, <1>3, <1>4, <1>6, <2>1 DEF Finding
<1>7. CASE n < limit /\ ~\E i \in 1 .. n : p \in found[i]
  <2>1. PICK C \in SUBSET text : C = FloodFill(text, p) /\ Piece(C, text) /\ p \in C
    BY FillEnds DEF Piece
  <2>2. PICK new : new = Append(found, C)
    OBVIOUS
  <2>3. Scan(found, p, text, limit) = new
    <3>1. ~(n >= limit)
      BY <1>7
    <3> QED
      BY <1>2, <1>7, <2>1, <2>2, <3>1 DEF Scan
  <2>4. /\ Len(new) = n + 1 /\ DOMAIN new = 1 .. n + 1
        /\ new[n + 1] = C /\ \A i \in 1 .. n : new[i] = found[i]
    BY <1>2, <2>2
  <2>5. \A i \in 1 .. n + 1 : i \in 1 .. n \/ i = n + 1
    OBVIOUS
  <2>6. \A i \in 1 .. n : i \in 1 .. n + 1
    OBVIOUS
  <2>7. n + 1 \in 1 .. n + 1
    OBVIOUS
  <2>8. \A i \in 1 .. n + 1 : Piece(new[i], text)
    BY <1>3, <2>1, <2>4, <2>5
  <2>9. \A i \in 1 .. n : new[i] # C
    BY <1>7, <2>1, <2>4
  <2>10. Distinct(new)
    <3>1. \A i, j \in 1 .. n : found[i] = found[j] => i = j
      BY <1>2, <1>3 DEF Distinct
    <3>2. \A i, j \in 1 .. n + 1 : new[i] = new[j] => i = j
      BY <2>4, <2>5, <2>9, <3>1
    <3> QED
      BY <2>4, <3>2 DEF Distinct
  <2>11. \A i \in 1 .. k + 1 : \E j \in 1 .. n + 1 : s[i] \in new[j]
    <3>1. \A i \in 1 .. k : \E j \in 1 .. n + 1 : s[i] \in new[j]
      BY <1>3, <1>7, <2>4, <2>6
    <3>2. s[k + 1] \in new[n + 1]
      BY <1>1, <2>1, <2>4
    <3> QED
      BY <1>4, <2>7, <3>1, <3>2
  <2> QED
    BY <1>1, <2>3, <2>4, <2>8, <2>10, <2>11 DEF Finding
<1> QED
  BY <1>5, <1>6, <1>7

LEMMA ContoursFind ==
  ASSUME NEW text, text \subseteq Int \X Int, IsFiniteSet(text), NEW limit \in Int
  PROVE  LET found == Contours(text, limit)
         IN /\ found \in Seq(SUBSET text)
            /\ \A i \in DOMAIN found : Piece(found[i], text)
            /\ Distinct(found)
            /\ Len(found) < limit => \A p \in text : \E i \in DOMAIN found : p \in found[i]
<1>1. PICK s \in Seq(text) : s = InOrder(text, Before) /\ ToSet(s) = text
  BY InOrderLists
<1>2. PICK n \in Nat : n = Len(s) /\ DOMAIN s = 1 .. n
  OBVIOUS
<1>3. PICK run \in [0 .. Len(s) -> FoundStates(text)] : ScanRun(run, s, text, limit)
  BY ScanRuns
<1> DEFINE D == {k \in Nat : Finding(run[k], s, text, limit, k)}
<1>4. 0 \in D
  <2>1. run[0] = <<>>
    BY <1>3 DEF ScanRun
  <2>2. DOMAIN <<>> = {} /\ \A i \in 1 .. 0 : FALSE
    OBVIOUS
  <2>3. Finding(<<>>, s, text, limit, 0)
    BY <2>2 DEF Finding, Distinct
  <2> QED
    BY <2>1, <2>3
<1>5. ASSUME NEW k \in Nat, k + 1 <= n, k \in D
      PROVE  k + 1 \in D
  <2>1. k \in 0 .. n /\ k + 1 \in 1 .. n /\ (k + 1) - 1 = k
    BY <1>5
  <2>2. run[k] \in FoundStates(text) /\ Finding(run[k], s, text, limit, k)
    BY <1>2, <1>3, <1>5, <2>1
  <2>3. run[k + 1] = Scan(run[k], s[k + 1], text, limit)
    BY <1>2, <1>3, <2>1 DEF ScanRun
  <2>4. Finding(run[k + 1], s, text, limit, k + 1)
    BY <1>2, <2>1, <2>2, <2>3, FindStep DEF FoundStates
  <2> QED
    BY <2>4
<1>6. n \in D
  <2>1. 0 .. n \subseteq D
    <3> HIDE DEF D
    <3> QED
      BY <1>4, <1>5, IntervalInduction
  <2> QED
    BY <2>1
<1>7. PICK found \in FoundStates(text) : found = run[n] /\ found = Contours(text, limit)
  <2>1. n \in 0 .. n /\ run[n] \in FoundStates(text)
    BY <1>2, <1>3
  <2>2. run[n] = ScannedBy(s, text, limit)
    BY <1>2, <1>3 DEF ScanRun
  <2>3. ScannedBy(s, text, limit) = Contours(text, limit)
    BY <1>1 DEF ScannedBy, Contours
  <2> QED
    BY <2>1, <2>2, <2>3
<1>8. Finding(found, s, text, limit, n)
  BY <1>6, <1>7
<1>9. \A p \in text : \E i \in 1 .. n : s[i] = p
  BY <1>1, <1>2 DEF ToSet
<1>10. Len(found) < limit => \A p \in text : \E i \in DOMAIN found : p \in found[i]
  <2>1. ASSUME Len(found) < limit
        PROVE  \A i \in 1 .. n : \E j \in DOMAIN found : s[i] \in found[j]
    BY <1>8, <2>1 DEF Finding
  <2> SUFFICES ASSUME Len(found) < limit, NEW p \in text
               PROVE  \E j \in DOMAIN found : p \in found[j]
    OBVIOUS
  <2>2. PICK i \in 1 .. n : s[i] = p
    BY <1>9
  <2>3. PICK j \in DOMAIN found : s[i] \in found[j]
    BY <2>1, <2>2
  <2> QED
    BY <2>2, <2>3
<1> QED
  BY <1>7, <1>8, <1>10 DEF Finding, FoundStates

\* Text is found once and whole for every set of text pixels, however many
\* there are and whatever shapes they make, and every limit on the number of
\* its pieces (ExtractTextBoxes).
THEOREM EveryTextIsFoundOnceAndWhole ==
  ASSUME \A c \in Calls : c.of = "boxes" =>
           c.pixels \subseteq Int \X Int /\ IsFiniteSet(c.pixels) /\ c.limit \in Int
  PROVE  AlgSpec => []TextFoundOnceAndWhole
<1>1. ASSUME AlgInv, Answered("boxes")
      PROVE  TextFoundOnceAndWhole
  <2>1. PICK text : text = call.pixels
    OBVIOUS
  <2>2. PICK limit \in Int : limit = call.limit
    BY <1>1 DEF AlgInv, Answered
  <2>3. PICK found : found = Contours(text, limit)
    OBVIOUS
  <2>4. /\ text \subseteq Int \X Int /\ IsFiniteSet(text)
        /\ answer = [i \in DOMAIN found |-> [pixels |-> found[i], box |-> MinAreaRect(found[i])]]
    BY <1>1, <2>1, <2>2, <2>3 DEF AlgInv, Answered, Result
  <2>5. /\ found \in Seq(SUBSET text)
        /\ \A i \in DOMAIN found : Piece(found[i], text)
        /\ Distinct(found)
        /\ Len(found) < limit => \A p \in text : \E i \in DOMAIN found : p \in found[i]
    BY <2>3, <2>4, ContoursFind
  <2>6. PICK n \in Nat : n = Len(found) /\ DOMAIN found = 1 .. n
    BY <2>5
  <2>7. DOMAIN answer = 1 .. n /\ \A i \in 1 .. n : answer[i].pixels = found[i]
    BY <2>4, <2>6
  <2>8. Len(answer) = n
    BY <2>4, <2>6
  <2>9. PICK all : all = UNION {answer[i].pixels : i \in DOMAIN answer}
    OBVIOUS
  <2>10. all \subseteq text
    BY <2>5, <2>6, <2>7, <2>9
  <2>11. n < limit => all = text
    <3>1. \A i \in 1 .. n : answer[i].pixels \subseteq all
      BY <2>7, <2>9
    <3>2. n < limit => text \subseteq all
      BY <2>5, <2>6, <2>7, <3>1
    <3> QED
      BY <2>10, <3>2
  <2>12. ASSUME NEW i \in 1 .. n
         PROVE  /\ found[i] # {} /\ Linked(found[i])
                /\ \A j \in 1 .. n : j # i => \A p \in found[i], q \in found[j] : ~Touch(p, q)
    <3>1. Piece(found[i], text)
      BY <2>5, <2>6
    <3>2. found[i] # {} /\ Tied(found[i]) /\ found[i] \in SUBSET text
      BY <3>1 DEF Piece
    <3>3. IsFiniteSet(found[i]) /\ found[i] \subseteq Int \X Int
      BY <2>4, <3>2, FS_Subset
    <3>4. Linked(found[i])
      BY <3>2, <3>3, TiedIsLinked
    <3>5. ASSUME NEW j \in 1 .. n, j # i, NEW p \in found[i], NEW q \in found[j], Touch(p, q)
          PROVE  FALSE
      <4>1. Piece(found[j], text)
        BY <2>5, <2>6
      <4>2. found[i] = found[j]
        BY <2>4, <3>1, <3>5, <4>1, PiecesApart
      <4> QED
        BY <2>5, <2>6, <3>5, <4>2 DEF Distinct
    <3> QED
      BY <3>2, <3>4, <3>5
  <2> QED
    BY <2>1, <2>2, <2>7, <2>8, <2>9, <2>10, <2>11, <2>12 DEF TextFoundOnceAndWhole
<1>2. AlgInv => TextFoundOnceAndWhole
  BY <1>1 DEF TextFoundOnceAndWhole
<1> QED
  BY <1>2, AlgInvHolds, PTL
-----------------------------------------------------------------------------
(* The convex hull.                                                        *)

\* Pixels from left to right, and upwards in a column.
LEMMA LeftToRightIsOrder ==
  /\ \A p, q \in Int \X Int : XThenY(p, q) \/ XThenY(q, p)
  /\ \A p, q \in Int \X Int : XThenY(p, q) /\ XThenY(q, p) => p = q
  /\ \A p, q, r \in Int \X Int : XThenY(p, q) /\ XThenY(q, r) => XThenY(p, r)
<1>1. \A p, q \in Int \X Int : p[1] = q[1] /\ p[2] = q[2] => p = q
  OBVIOUS
<1>2. \A p \in Int \X Int : p[1] \in Int /\ p[2] \in Int
  OBVIOUS
<1> QED
  BY <1>1, <1>2 DEF XThenY

LEMMA LeftToRightLists ==
  ASSUME NEW S, S \subseteq Int \X Int, IsFiniteSet(S)
  PROVE  \E s : /\ s = InOrder(S, XThenY)
                /\ s \in Seq(S) /\ ToSet(s) = S /\ Len(s) = Cardinality(S)
                /\ \A i, j \in 1 .. Len(s) : i < j => XThenY(s[i], s[j]) /\ s[i] # s[j]
<1>1. PICK R : R = {pq \in S \X S : XThenY(pq[1], pq[2])}
  OBVIOUS
<1>2. \A p, q \in S : <<p, q>> \in R <=> XThenY(p, q)
  BY <1>1
<1>3. Orders(R, S)
  <2>1. \A p \in S : p \in Int \X Int
    OBVIOUS
  <2> QED
    BY <1>2, <2>1, LeftToRightIsOrder DEF Orders
<1>4. \A p \in S : RankIn(R, S, p) = Cardinality({q \in S : XThenY(q, p)})
  <2> SUFFICES ASSUME NEW p \in S
               PROVE  RankIn(R, S, p) = Cardinality({q \in S : XThenY(q, p)})
    OBVIOUS
  <2>1. {q \in S : <<q, p>> \in R} = {q \in S : XThenY(q, p)}
    BY <1>2
  <2> QED
    BY <2>1 DEF RankIn
<1>5. PICK n \in Nat : n = Cardinality(S)
  BY FS_CardinalityType
<1>6. \A i \in 1 .. n : \E p \in S : Cardinality({q \in S : XThenY(q, p)}) = i
  BY <1>3, <1>4, <1>5, RanksAreTaken
<1>7. PICK s : s = InOrder(S, XThenY)
  OBVIOUS
<1>8. s = [i \in 1 .. n |-> CHOOSE p \in S : Cardinality({q \in S : XThenY(q, p)}) = i]
  BY <1>5, <1>7 DEF InOrder
<1>9. s \in [1 .. n -> S] /\ \A i \in 1 .. n : RankIn(R, S, s[i]) = i
  BY <1>4, <1>6, <1>8
<1>10. /\ s \in Seq(S) /\ ToSet(s) = S
       /\ \A i, j \in 1 .. n : i < j => <<s[i], s[j]>> \in R /\ s[i] # s[j]
  <2>1. n = Cardinality(S) /\ s \in [1 .. n -> S]
    BY <1>5, <1>9
  <2>2. \A i \in 1 .. n : RankIn(R, S, s[i]) = i
    BY <1>9
  <2>3. Ascending(R, S, s, n)
    BY <1>3, <2>1, <2>2, RankedLists
  <2> QED
    BY <2>3 DEF Ascending
<1>11. Len(s) = n /\ \A i \in 1 .. n : s[i] \in S
  BY <1>9, <1>10
<1> QED
  BY <1>2, <1>5, <1>7, <1>10, <1>11

\* A vector is positive if it points to the right, or straight up; vectors
\* turn left if their product is not negative.
Positive(x, y) == x > 0 \/ (x = 0 /\ y >= 0)

LEMMA Products ==
  ASSUME NEW x \in Int, NEW y \in Int
  PROVE  /\ x * y \in Int
         /\ x >= 0 /\ y >= 0 => x * y >= 0
         /\ x >= 0 /\ y <= 0 => x * y <= 0
         /\ x > 0 /\ x * y >= 0 => y >= 0
         /\ x > 0 /\ x * y <= 0 => y <= 0
         /\ x > 0 /\ y > 0 => x * y > 0
OBVIOUS

\* Left turns of positive vectors make a left turn.
LEMMA TurnsAdd ==
  ASSUME NEW ux \in Int, NEW uy \in Int, NEW vx \in Int, NEW vy \in Int,
         NEW wx \in Int, NEW wy \in Int,
         Positive(ux, uy), Positive(vx, vy), Positive(wx, wy), vx # 0 \/ vy # 0,
         ux * vy - uy * vx >= 0, vx * wy - vy * wx >= 0
  PROVE  ux * wy - uy * wx >= 0
<1>1. CASE vx > 0
  <2>1. PICK a \in Int : a = ux * vy - uy * vx
    BY Products
  <2>2. PICK b \in Int : b = vx * wy - vy * wx
    BY Products
  <2>3. PICK k \in Int : k = ux * wy - uy * wx
    BY Products
  <2>4. vx * k = ux * b + wx * a
    BY <2>1, <2>2, <2>3
  <2>5. ux * b >= 0 /\ wx * a >= 0
    BY <2>1, <2>2, Products DEF Positive
  <2>6. ux * b \in Int /\ wx * a \in Int
    BY Products
  <2> QED
    BY <1>1, <2>3, <2>4, <2>5, <2>6, Products
<1>2. CASE vx = 0
  <2>1. vy > 0 /\ wx >= 0 /\ ux >= 0
    BY <1>2 DEF Positive
  <2>2. vy * wx <= 0
    BY <1>2, Products
  <2>3. wx = 0
    BY <2>1, <2>2, Products
  <2>4. wy >= 0
    BY <2>3 DEF Positive
  <2>5. ux * wy >= 0
    BY <2>1, <2>4, Products
  <2> QED
    BY <2>3, <2>5
<1> QED
  BY <1>1, <1>2 DEF Positive

\* Along a direction that does not point up, a vector q between 0 and b and
\* not below b is not beyond both.
LEMMA BetweenEnds ==
  ASSUME NEW bx \in Int, NEW by \in Int, NEW qx \in Int, NEW qy \in Int,
         NEW ex \in Int, NEW ey \in Int,
         Positive(qx, qy), Positive(bx - qx, by - qy), bx # 0 \/ by # 0,
         bx * qy - by * qx >= 0, ey <= 0
  PROVE  ex * qx + ey * qy <= 0 \/ ex * qx + ey * qy <= ex * bx + ey * by
<1>1. PICK q \in Int : q = ex * qx + ey * qy
  BY Products
<1>2. PICK b \in Int : b = ex * bx + ey * by
  BY Products
<1>3. PICK c \in Int : c = bx * qy - by * qx
  BY Products
<1>4. CASE bx > 0
  <2>1. bx * q = qx * b + ey * c
    BY <1>1, <1>2, <1>3
  <2>2. bx * q \in Int /\ qx * b \in Int /\ ey * c \in Int /\ bx * b \in Int
    BY Products
  <2>3. ey * c <= 0
    <3>1. c >= 0
      BY <1>3
    <3> QED
      BY <3>1
  <2>4. 0 <= qx /\ qx <= bx
    BY DEF Positive
  <2> SUFFICES ASSUME q > 0, q > b
               PROVE  FALSE
    BY <1>1, <1>2
  <2>5. bx * q > 0
    BY <1>4, Products
  <2>6. b > 0
    <3>1. qx * b > 0
      BY <2>1, <2>2, <2>3, <2>5
    <3> QED
      BY <2>4, <3>1, Products
  <2>7. qx * b <= bx * b
    <3>1. (bx - qx) * b >= 0
      BY <2>4, <2>6, Products
    <3>2. (bx - qx) * b = bx * b - qx * b
      OBVIOUS
    <3> QED
      BY <2>2, <3>1, <3>2
  <2>8. bx * b < bx * q
    <3>1. bx * (q - b) > 0
      BY <1>4, Products
    <3>2. bx * (q - b) = bx * q - bx * b
      OBVIOUS
    <3> QED
      BY <2>2, <3>1, <3>2
  <2> QED
    BY <2>1, <2>2, <2>3, <2>7, <2>8
<1>5. CASE bx = 0
  <2>1. qx = 0 /\ qy >= 0
    BY <1>5 DEF Positive
  <2>2. ey * qy <= 0
    BY <2>1
  <2> QED
    BY <2>1, <2>2
<1>6. bx >= 0
  BY DEF Positive
<1> QED
  BY <1>4, <1>5, <1>6

\* The pixels of a bitmap of any size.
Plane == Int \X Int

LEMMA PlaneIs ==
  /\ \A p \in Plane : p[1] \in Int /\ p[2] \in Int
  /\ \A p, q \in Plane : p[1] = q[1] /\ p[2] = q[2] => p = q
BY DEF Plane

LEMMA TurnsAddBothWays ==
  ASSUME NEW d \in {-1, 1},
         NEW ux \in Int, NEW uy \in Int, NEW vx \in Int, NEW vy \in Int,
         NEW wx \in Int, NEW wy \in Int,
         Positive(d * ux, d * uy), Positive(d * vx, d * vy), Positive(d * wx, d * wy),
         vx # 0 \/ vy # 0,
         ux * vy - uy * vx >= 0, vx * wy - vy * wx >= 0
  PROVE  ux * wy - uy * wx >= 0
<1>1. CASE d = 1
  BY <1>1, TurnsAdd
<1>2. CASE d = -1
  <2>1. PICK ax \in Int, ay \in Int : ax = -ux /\ ay = -uy
    OBVIOUS
  <2>2. PICK bx \in Int, by \in Int : bx = -vx /\ by = -vy
    OBVIOUS
  <2>3. PICK cx \in Int, cy \in Int : cx = -wx /\ cy = -wy
    OBVIOUS
  <2>4. /\ ax * by - ay * bx = ux * vy - uy * vx
        /\ bx * cy - by * cx = vx * wy - vy * wx
        /\ ax * cy - ay * cx = ux * wy - uy * wx
    BY <2>1, <2>2, <2>3
  <2>5. Positive(ax, ay) /\ Positive(bx, by) /\ Positive(cx, cy) /\ (bx # 0 \/ by # 0)
    BY <1>2, <2>1, <2>2, <2>3
  <2>6. ax * cy - ay * cx >= 0
    BY <2>4, <2>5, TurnsAdd
  <2> QED
    BY <2>4, <2>6
<1> QED
  BY <1>1, <1>2

\* q comes after p on the way to the right (d = 1) or to the left (d = -1).
Ahead(d, p, q) == Positive(d * (q[1] - p[1]), d * (q[2] - p[2]))

\* q is between o and b on that way, and not to the right of it.
Beside(d, o, b, q) == Ahead(d, o, q) /\ Ahead(d, q, b) /\ Cross(o, b, q) >= 0

LEMMA AheadIsOrder ==
  ASSUME NEW d \in {-1, 1}, NEW p \in Plane, NEW q \in Plane, NEW r \in Plane
  PROVE  /\ Ahead(d, p, p)
         /\ Ahead(d, p, q) /\ Ahead(d, q, r) => Ahead(d, p, r)
         /\ Ahead(d, p, q) /\ Ahead(d, q, p) => p = q
         /\ XThenY(p, q) => Ahead(1, p, q) /\ Ahead(-1, q, p)
<1> USE DEF Plane
<1>1. p[1] \in Int /\ p[2] \in Int /\ q[1] \in Int /\ q[2] \in Int /\ r[1] \in Int /\ r[2] \in Int
  OBVIOUS
<1>2. p[1] = q[1] /\ p[2] = q[2] => p = q
  OBVIOUS
<1>3. d = 1 \/ d = -1
  OBVIOUS
<1> QED
  BY <1>1, <1>2, <1>3 DEF Ahead, Positive, XThenY

LEMMA CrossIs ==
  ASSUME NEW o \in Plane, NEW a \in Plane, NEW b \in Plane
  PROVE  /\ Cross(o, a, b) \in Int
         /\ Cross(o, b, a) = -Cross(o, a, b)
         /\ Cross(o, a, o) = 0 /\ Cross(o, a, a) = 0 /\ Cross(o, o, a) = 0
<1> USE DEF Plane
<1>1. PICK x \in Int, y \in Int : x = a[1] - o[1] /\ y = a[2] - o[2]
  OBVIOUS
<1>2. PICK v \in Int, w \in Int : v = b[1] - o[1] /\ w = b[2] - o[2]
  OBVIOUS
<1>3. x * w \in Int /\ y * v \in Int
  BY Products
<1>4. Cross(o, a, b) = x * w - y * v /\ Cross(o, b, a) = v * y - w * x
  BY <1>1, <1>2 DEF Cross
<1>5. o[1] - o[1] = 0 /\ o[2] - o[2] = 0
  OBVIOUS
<1>6. Cross(o, a, o) = x * 0 - y * 0 /\ Cross(o, a, a) = x * y - y * x /\ Cross(o, o, a) = 0 * y - 0 * x
  BY <1>1, <1>5 DEF Cross
<1> QED
  BY <1>3, <1>4, <1>6

\* Left of an edge, and left of the next: left of the edge before.
LEMMA LeftOfEarlier ==
  ASSUME NEW d \in {-1, 1}, NEW o \in Plane, NEW a \in Plane,
         NEW c \in Plane, NEW p \in Plane,
         Ahead(d, o, a), Ahead(d, a, c), a # c, Ahead(d, a, p),
         Cross(o, a, c) >= 0, Cross(a, c, p) >= 0
  PROVE  Cross(o, a, p) >= 0
<1> USE DEF Plane
<1>1. PICK ux \in Int, uy \in Int : ux = a[1] - o[1] /\ uy = a[2] - o[2]
  OBVIOUS
<1>2. PICK vx \in Int, vy \in Int : vx = c[1] - a[1] /\ vy = c[2] - a[2]
  OBVIOUS
<1>3. PICK wx \in Int, wy \in Int : wx = p[1] - a[1] /\ wy = p[2] - a[2]
  OBVIOUS
<1>4. Positive(d * ux, d * uy) /\ Positive(d * vx, d * vy) /\ Positive(d * wx, d * wy)
  BY <1>1, <1>2, <1>3 DEF Ahead
<1>5. vx # 0 \/ vy # 0
  <2>1. c[1] # a[1] \/ c[2] # a[2]
    OBVIOUS
  <2> QED
    BY <1>2, <2>1
<1>6. c[1] - o[1] = ux + vx /\ c[2] - o[2] = uy + vy /\ p[1] - o[1] = ux + wx /\ p[2] - o[2] = uy + wy
  BY <1>1, <1>2, <1>3
<1>7. Cross(o, a, c) = ux * (uy + vy) - uy * (ux + vx)
  BY <1>1, <1>6 DEF Cross
<1>8. Cross(a, c, p) = vx * wy - vy * wx
  BY <1>2, <1>3 DEF Cross
<1>9. Cross(o, a, p) = ux * (uy + wy) - uy * (ux + wx)
  BY <1>1, <1>6 DEF Cross
<1>10. ux * (uy + vy) - uy * (ux + vx) = ux * vy - uy * vx
  OBVIOUS
<1>11. ux * (uy + wy) - uy * (ux + wx) = ux * wy - uy * wx
  OBVIOUS
<1>12. ux * wy - uy * wx >= 0
  BY <1>4, <1>5, <1>7, <1>8, <1>10, TurnsAddBothWays, SMTT(60)
<1> QED
  BY <1>9, <1>11, <1>12

\* What is left of an edge and behind its end is left of the next edge.
LEMMA LeftOfNext ==
  ASSUME NEW d \in {-1, 1}, NEW o \in Plane, NEW a \in Plane,
         NEW p \in Plane, NEW q \in Plane,
         Ahead(d, o, a), o # a, Ahead(d, a, p), Ahead(d, q, a),
         Cross(o, a, q) >= 0, Cross(o, a, p) >= 0
  PROVE  Cross(a, p, q) >= 0
<1> USE DEF Plane
<1>1. PICK ux \in Int, uy \in Int : ux = a[1] - q[1] /\ uy = a[2] - q[2]
  OBVIOUS
<1>2. PICK vx \in Int, vy \in Int : vx = a[1] - o[1] /\ vy = a[2] - o[2]
  OBVIOUS
<1>3. PICK wx \in Int, wy \in Int : wx = p[1] - a[1] /\ wy = p[2] - a[2]
  OBVIOUS
<1>4. Positive(d * ux, d * uy) /\ Positive(d * vx, d * vy) /\ Positive(d * wx, d * wy)
  BY <1>1, <1>2, <1>3 DEF Ahead
<1>5. vx # 0 \/ vy # 0
  <2>1. o[1] # a[1] \/ o[2] # a[2]
    OBVIOUS
  <2> QED
    BY <1>2, <2>1
<1>6. q[1] - o[1] = vx - ux /\ q[2] - o[2] = vy - uy /\ p[1] - o[1] = vx + wx /\ p[2] - o[2] = vy + wy
      /\ q[1] - a[1] = -ux /\ q[2] - a[2] = -uy
  BY <1>1, <1>2, <1>3
<1>7. Cross(o, a, q) = vx * (vy - uy) - vy * (vx - ux)
  BY <1>2, <1>6 DEF Cross
<1>8. Cross(o, a, p) = vx * (vy + wy) - vy * (vx + wx)
  BY <1>2, <1>6 DEF Cross
<1>9. Cross(a, p, q) = wx * (-uy) - wy * (-ux)
  BY <1>3, <1>6 DEF Cross
<1>10. vx * (vy - uy) - vy * (vx - ux) = ux * vy - uy * vx
  OBVIOUS
<1>11. vx * (vy + wy) - vy * (vx + wx) = vx * wy - vy * wx
  OBVIOUS
<1>12. wx * (-uy) - wy * (-ux) = ux * wy - uy * wx
  OBVIOUS
<1>13. ux * wy - uy * wx >= 0
  BY <1>4, <1>5, <1>7, <1>8, <1>10, <1>11, TurnsAddBothWays, SMTT(60)
<1> QED
  BY <1>9, <1>12, <1>13

\* When b goes because o, b and p do not turn left, the edge from o to p has
\* beside it b and what the edges to and from b had.
LEMMA BesideWithout ==
  ASSUME NEW d \in {-1, 1}, NEW o \in Plane, NEW b \in Plane,
         NEW p \in Plane, NEW q \in Plane,
         Ahead(d, o, b), o # b, Ahead(d, b, p), b # p, Cross(o, b, p) <= 0
  PROVE  /\ Beside(d, o, p, b)
         /\ Beside(d, o, b, q) => Beside(d, o, p, q)
         /\ Beside(d, b, p, q) => Beside(d, o, p, q)
<1> USE DEF Plane
<1>1. Beside(d, o, p, b)
  <2>1. Cross(o, p, b) >= 0
    BY CrossIs
  <2> QED
    BY <2>1 DEF Beside
<1>2. Ahead(d, o, p)
  BY AheadIsOrder
<1>3. ASSUME Beside(d, o, b, q)
      PROVE  Beside(d, o, p, q)
  <2>1. Ahead(d, o, q) /\ Ahead(d, q, p) /\ Cross(o, b, q) >= 0
    BY <1>3, AheadIsOrder DEF Beside
  <2>2. PICK ux \in Int, uy \in Int : ux = p[1] - o[1] /\ uy = p[2] - o[2]
    OBVIOUS
  <2>3. PICK vx \in Int, vy \in Int : vx = b[1] - o[1] /\ vy = b[2] - o[2]
    OBVIOUS
  <2>4. PICK wx \in Int, wy \in Int : wx = q[1] - o[1] /\ wy = q[2] - o[2]
    OBVIOUS
  <2>5. Positive(d * ux, d * uy) /\ Positive(d * vx, d * vy) /\ Positive(d * wx, d * wy)
    BY <1>2, <2>1, <2>2, <2>3, <2>4 DEF Ahead
  <2>6. vx # 0 \/ vy # 0
    BY <2>3
  <2>7. Cross(o, p, b) = ux * vy - uy * vx /\ Cross(o, b, q) = vx * wy - vy * wx
        /\ Cross(o, p, q) = ux * wy - uy * wx
    BY <2>2, <2>3, <2>4 DEF Cross
  <2>8. Cross(o, p, b) >= 0
    BY <1>1 DEF Beside
  <2>9. ux * wy - uy * wx >= 0
    BY <2>1, <2>5, <2>6, <2>7, <2>8, TurnsAddBothWays, SMTT(60)
  <2> QED
    BY <2>1, <2>7, <2>9 DEF Beside
<1>4. ASSUME Beside(d, b, p, q)
      PROVE  Beside(d, o, p, q)
  <2>1. Ahead(d, o, q) /\ Ahead(d, q, p) /\ Cross(b, p, q) >= 0
    BY <1>4, AheadIsOrder DEF Beside
  <2>2. PICK ux \in Int, uy \in Int : ux = p[1] - q[1] /\ uy = p[2] - q[2]
    OBVIOUS
  <2>3. PICK vx \in Int, vy \in Int : vx = p[1] - b[1] /\ vy = p[2] - b[2]
    OBVIOUS
  <2>4. PICK wx \in Int, wy \in Int : wx = p[1] - o[1] /\ wy = p[2] - o[2]
    OBVIOUS
  <2>5. Positive(d * ux, d * uy) /\ Positive(d * vx, d * vy) /\ Positive(d * wx, d * wy)
    BY <1>2, <2>1, <2>2, <2>3, <2>4 DEF Ahead
  <2>6. vx # 0 \/ vy # 0
    BY <2>3
  <2>7. /\ q[1] - b[1] = vx - ux /\ q[2] - b[2] = vy - uy
        /\ q[1] - o[1] = wx - ux /\ q[2] - o[2] = wy - uy
        /\ b[1] - o[1] = wx - vx /\ b[2] - o[2] = wy - vy
    <3>1. \A i, j, k \in Int : /\ i - j = (k - j) - (k - i)
                               /\ i - j \in Int
      OBVIOUS
    <3>2. b[1] \in Int /\ b[2] \in Int /\ o[1] \in Int /\ o[2] \in Int
          /\ p[1] \in Int /\ p[2] \in Int /\ q[1] \in Int /\ q[2] \in Int
      OBVIOUS
    <3>3. /\ q[1] - b[1] = (p[1] - b[1]) - (p[1] - q[1])
          /\ q[2] - b[2] = (p[2] - b[2]) - (p[2] - q[2])
      BY <3>1, <3>2
    <3>4. /\ q[1] - o[1] = (p[1] - o[1]) - (p[1] - q[1])
          /\ q[2] - o[2] = (p[2] - o[2]) - (p[2] - q[2])
      BY <3>1, <3>2
    <3>5. /\ b[1] - o[1] = (p[1] - o[1]) - (p[1] - b[1])
          /\ b[2] - o[2] = (p[2] - o[2]) - (p[2] - b[2])
      BY <3>1, <3>2
    <3> QED
      BY <2>2, <2>3, <2>4, <3>3, <3>4, <3>5
  <2>8. Cross(b, p, q) = vx * (vy - uy) - vy * (vx - ux)
    BY <2>3, <2>7 DEF Cross
  <2>9. Cross(o, b, p) = (wx - vx) * wy - (wy - vy) * wx
    BY <2>4, <2>7 DEF Cross
  <2>10. Cross(o, p, q) = wx * (wy - uy) - wy * (wx - ux)
    BY <2>4, <2>7 DEF Cross
  <2>11. vx * (vy - uy) - vy * (vx - ux) = ux * vy - uy * vx
    OBVIOUS
  <2>12. (wx - vx) * wy - (wy - vy) * wx = -(vx * wy - vy * wx)
    OBVIOUS
  <2>13. wx * (wy - uy) - wy * (wx - ux) = ux * wy - uy * wx
    OBVIOUS
  <2>14. vx * wy - vy * wx \in Int
    BY Products
  <2>15. ux * wy - uy * wx >= 0
    <3>1. ux * vy - uy * vx >= 0 /\ vx * wy - vy * wx >= 0
      BY <2>1, <2>8, <2>9, <2>11, <2>12, <2>14
    <3> QED
      BY <2>5, <2>6, <3>1, TurnsAddBothWays, SMTT(60)
  <2> QED
    BY <2>1, <2>10, <2>13, <2>15 DEF Beside
<1> QED
  BY <1>1, <1>3, <1>4

\* A chain goes one way; a pixel is spanned if it is on the chain or beside one
\* of its edges.
Climbs(d, h) == \A i, j \in 1 .. Len(h) : i < j => Ahead(d, h[i], h[j]) /\ h[i] # h[j]
Spans(d, h, q) ==
  \E i \in 1 .. Len(h) : q = h[i] \/ (i < Len(h) /\ Beside(d, h[i], h[i + 1], q))
LeftOfAll(h, q) == \A i \in 1 .. Len(h) : i < Len(h) => Cross(h[i], h[i + 1], q) >= 0

\* The first n points of a chain, and then p.
CutTo(h, n, p) == [i \in 1 .. n + 1 |-> IF i = n + 1 THEN p ELSE h[i]]

LEMMA MaxOfNats ==
  ASSUME NEW n \in Nat, NEW T, T \subseteq 0 .. n, T # {}
  PROVE  Max(T) \in T /\ \A y \in T : y <= Max(T)
<1> DEFINE D == {d \in Nat : n - d \in T}
<1>1. D # {}
  <2>1. PICK t \in T : TRUE
    OBVIOUS
  <2>2. n - t \in Nat /\ n - (n - t) = t
    BY <2>1
  <2> QED
    BY <2>1, <2>2
<1>2. PICK d \in D : \A e \in D : d <= e
  <2> HIDE DEF D
  <2>1. D \subseteq Nat
    BY DEF D
  <2> QED
    BY <1>1, <2>1, LeastOfNat
<1>3. \A y \in T : n - y \in Nat /\ n - (n - y) = y
  OBVIOUS
<1>4. \A y \in T : y <= n - d
  BY <1>2, <1>3
<1>5. \E x \in T : \A y \in T : x >= y
  BY <1>2, <1>4
<1>6. Max(T) \in T /\ \A y \in T : Max(T) >= y
  BY <1>5 DEF Max
<1> QED
  BY <1>6

LEMMA CutToIs ==
  ASSUME NEW h \in Seq(Plane), NEW n \in Nat, n <= Len(h), NEW p \in Plane
  PROVE  /\ CutTo(h, n, p) \in Seq(Plane) /\ Len(CutTo(h, n, p)) = n + 1
         /\ CutTo(h, n, p)[n + 1] = p
         /\ \A i \in 1 .. n : CutTo(h, n, p)[i] = h[i]
         /\ Append(SubSeq(h, 1, n), p) = CutTo(h, n, p)
<1>1. PICK t : t = SubSeq(h, 1, n)
  OBVIOUS
<1>2. t \in Seq(Plane) /\ Len(t) = n /\ \A i \in 1 .. n : t[i] = h[i]
  BY <1>1
<1>3. PICK u : u = Append(t, p)
  OBVIOUS
<1>4. u \in Seq(Plane) /\ Len(u) = n + 1 /\ u[n + 1] = p /\ \A i \in 1 .. n : u[i] = t[i]
  BY <1>2, <1>3
<1>5. u = [i \in 1 .. n + 1 |-> u[i]]
  BY <1>4
<1>6. \A i \in 1 .. n + 1 : u[i] = IF i = n + 1 THEN p ELSE h[i]
  BY <1>2, <1>4
<1>7. u = CutTo(h, n, p)
  BY <1>5, <1>6 DEF CutTo
<1> QED
  BY <1>1, <1>2, <1>3, <1>4, <1>7

\* The chain u is h cut after n points, with p behind them.
IsCut(u, h, n, p) == Len(u) = n + 1 /\ u[n + 1] = p /\ \A i \in 1 .. n : u[i] = h[i]
Cuts(h, n, p) == h \in Seq(Plane) /\ n \in Nat /\ n <= Len(h) /\ p \in Plane

LEMMA CutHas ==
  ASSUME NEW h, NEW n, NEW p, Cuts(h, n, p)
  PROVE  IsCut(CutTo(h, n, p), h, n, p)
BY CutToIs DEF Cuts, IsCut

LEMMA StayingIs ==
  ASSUME NEW h \in Seq(Plane), NEW p \in Plane, NEW m, m = Staying(h, p)
  PROVE  /\ m \in Nat /\ m <= Len(h) /\ (Len(h) >= 1 => m >= 1)
         /\ m >= 2 => Cross(h[m - 1], h[m], p) > 0
         /\ \A k \in Nat : m < k /\ k <= Len(h) => k >= 2 /\ Cross(h[k - 1], h[k], p) <= 0
         /\ Extended(h, p) = CutTo(h, m, p) /\ Extended(h, p) \in Seq(Plane)
<1>1. PICK n \in Nat : n = Len(h)
  OBVIOUS
<1>2. PICK T : T = {k \in 0 .. n : k < 2 \/ Cross(h[k - 1], h[k], p) > 0}
  OBVIOUS
<1>3. T \subseteq 0 .. n /\ 0 \in T /\ (n >= 1 => 1 \in T)
  BY <1>2
<1>4. m = Max(T)
  BY <1>1, <1>2 DEF Staying
<1>5. m \in T /\ \A y \in T : y <= m
  BY <1>3, <1>4, MaxOfNats
<1>6. m \in Nat /\ m <= n /\ (n >= 1 => m >= 1)
  BY <1>3, <1>5
<1>7. m >= 2 => Cross(h[m - 1], h[m], p) > 0
  BY <1>2, <1>5
<1>8. ASSUME NEW k \in Nat, m < k, k <= n
      PROVE  k >= 2 /\ Cross(h[k - 1], h[k], p) <= 0
  <2>1. k \notin T /\ k \in 0 .. n
    BY <1>5, <1>6, <1>8
  <2>2. k >= 2 /\ ~(Cross(h[k - 1], h[k], p) > 0)
    BY <1>2, <2>1
  <2>3. h[k - 1] \in Plane /\ h[k] \in Plane
    BY <1>1, <1>8, <2>2
  <2>4. Cross(h[k - 1], h[k], p) \in Int
    BY <2>3, CrossIs
  <2> QED
    BY <2>2, <2>4
<1>9. Extended(h, p) = CutTo(h, m, p) /\ CutTo(h, m, p) \in Seq(Plane)
  BY <1>1, <1>6, CutToIs DEF Extended
<1> QED
  BY <1>1, <1>6, <1>7, <1>8, <1>9

\* One more point goes: what was spanned still is.
LEMMA CutOneMore ==
  ASSUME NEW d \in {-1, 1}, NEW h \in Seq(Plane), Climbs(d, h), NEW p \in Plane,
         \A i \in 1 .. Len(h) : Ahead(d, h[i], p) /\ h[i] # p,
         NEW n \in Nat, n >= 1, n + 1 <= Len(h), Cross(h[n], h[n + 1], p) <= 0,
         NEW q \in Plane, Spans(d, CutTo(h, n + 1, p), q)
  PROVE  Spans(d, CutTo(h, n, p), q)
<1>1. PICK t : t = CutTo(h, n + 1, p)
  OBVIOUS
<1>2. PICK u : u = CutTo(h, n, p)
  OBVIOUS
<1> SUFFICES Spans(d, u, q)
  BY <1>2
<1>3. Len(t) = n + 2 /\ t[n + 2] = p /\ \A i \in 1 .. n + 1 : t[i] = h[i]
  <2>1. n + 1 \in Nat /\ (n + 1) + 1 = n + 2
    OBVIOUS
  <2> QED
    <3>1. Cuts(h, n + 1, p)
      BY <2>1 DEF Cuts
    <3>2. IsCut(t, h, n + 1, p)
      BY <1>1, <3>1, CutHas
    <3> QED
      BY <2>1, <3>2 DEF IsCut
<1>4. Len(u) = n + 1 /\ u[n + 1] = p /\ \A i \in 1 .. n : u[i] = h[i]
  <2>1. n <= Len(h)
    OBVIOUS
  <2> QED
    <3>1. Cuts(h, n, p)
      BY <2>1 DEF Cuts
    <3>2. IsCut(u, h, n, p)
      BY <1>2, <3>1, CutHas
    <3> QED
      BY <3>2 DEF IsCut
<1>5. PICK o \in Plane, b \in Plane : o = h[n] /\ b = h[n + 1]
  OBVIOUS
<1>6. /\ Ahead(d, o, b) /\ o # b /\ Ahead(d, b, p) /\ b # p
      /\ u[n] = o /\ t[n] = o /\ t[n + 1] = b
  <2>1. n \in 1 .. Len(h) /\ n + 1 \in 1 .. Len(h) /\ n \in 1 .. n + 1 /\ n + 1 \in 1 .. n + 1 /\ n \in 1 .. n
    OBVIOUS
  <2> QED
    BY <1>3, <1>4, <1>5, <2>1 DEF Climbs
<1>7. /\ Beside(d, o, p, b)
      /\ Beside(d, o, b, q) => Beside(d, o, p, q)
      /\ Beside(d, b, p, q) => Beside(d, o, p, q)
  BY <1>5, <1>6, BesideWithout
<1>8. Beside(d, o, p, q) => Spans(d, u, q)
  BY <1>4, <1>6 DEF Spans
<1>9. PICK i \in 1 .. n + 2 : q = t[i] \/ (i < n + 2 /\ Beside(d, t[i], t[i + 1], q))
  BY <1>1, <1>3 DEF Spans
<1>10. CASE q = t[i]
  <2>1. CASE i <= n
    BY <1>3, <1>4, <1>10, <2>1 DEF Spans
  <2>2. CASE i = n + 1
    BY <1>6, <1>7, <1>8, <1>10, <2>2
  <2>3. CASE i = n + 2
    <3>1. q = u[n + 1] /\ n + 1 \in 1 .. Len(u)
      BY <1>3, <1>4, <1>10, <2>3
    <3> QED
      BY <3>1 DEF Spans
  <2> QED
    BY <2>1, <2>2, <2>3
<1>11. CASE i < n + 2 /\ Beside(d, t[i], t[i + 1], q)
  <2>1. CASE i < n
    <3>1. u[i] = t[i] /\ u[i + 1] = t[i + 1] /\ i \in 1 .. Len(u) /\ i < Len(u)
      BY <1>3, <1>4, <2>1
    <3> QED
      BY <1>11, <3>1 DEF Spans
  <2>2. CASE i = n
    BY <1>6, <1>7, <1>8, <1>11, <2>2
  <2>3. CASE i = n + 1
    BY <1>3, <1>6, <1>7, <1>8, <1>11, <2>3
  <2> QED
    BY <1>11, <2>1, <2>2, <2>3
<1> QED
  BY <1>9, <1>10, <1>11

LEMMA CutSpans ==
  ASSUME NEW d \in {-1, 1}, NEW h \in Seq(Plane), Climbs(d, h), NEW p \in Plane,
         \A i \in 1 .. Len(h) : Ahead(d, h[i], p) /\ h[i] # p,
         NEW m \in Nat, m >= 1, m <= Len(h),
         \A k \in Nat : m < k /\ k <= Len(h) => k >= 2 /\ Cross(h[k - 1], h[k], p) <= 0,
         NEW q \in Plane, Spans(d, h, q)
  PROVE  Spans(d, CutTo(h, m, p), q)
<1>1. PICK n \in Nat : n = Len(h)
  OBVIOUS
<1> DEFINE D == {i \in Nat : i <= n - m => Spans(d, CutTo(h, n - i, p), q)}
<1>2. 0 \in D
  <2>1. PICK u : u = CutTo(h, n, p)
    OBVIOUS
  <2>2. Len(u) = n + 1 /\ \A i \in 1 .. n : u[i] = h[i]
    <3>1. n <= Len(h)
      BY <1>1
    <3> QED
      BY <2>1, <3>1, CutToIs
  <2>3. PICK i \in 1 .. n : q = h[i] \/ (i < n /\ Beside(d, h[i], h[i + 1], q))
    BY <1>1 DEF Spans
  <2>4. i \in 1 .. Len(u) /\ u[i] = h[i] /\ (i < n => i < Len(u) /\ u[i + 1] = h[i + 1])
    BY <2>2, <2>3
  <2>5. Spans(d, u, q)
    BY <2>3, <2>4 DEF Spans
  <2>6. n - 0 = n
    OBVIOUS
  <2> QED
    BY <2>1, <2>5, <2>6
<1>3. ASSUME NEW i \in Nat, i + 1 <= n - m, i \in D
      PROVE  i + 1 \in D
  <2>1. PICK k \in Nat : k = n - (i + 1) /\ k + 1 = n - i /\ k >= m
    <3>1. n - (i + 1) \in Nat /\ (n - (i + 1)) + 1 = n - i /\ n - (i + 1) >= m
      BY <1>3
    <3> QED
      BY <3>1
  <2>2. Spans(d, CutTo(h, k + 1, p), q)
    BY <1>3, <2>1
  <2>3. k + 1 \in Nat /\ m < k + 1 /\ k + 1 <= n /\ (k + 1) - 1 = k
    BY <2>1
  <2>4. Cross(h[k], h[k + 1], p) <= 0
    BY <1>1, <2>3
  <2>5. Spans(d, CutTo(h, k, p), q)
    <3>1. k >= 1 /\ k + 1 <= Len(h)
      BY <1>1, <2>1, <2>3
    <3> QED
      BY <2>2, <2>4, <3>1, CutOneMore
  <2> QED
    BY <2>1, <2>5
<1>4. n - m \in D
  <2>1. n - m \in Nat
    BY <1>1
  <2>2. 0 .. (n - m) \subseteq D
    <3> HIDE DEF D
    <3> QED
      BY <1>2, <1>3, <2>1, IntervalInduction
  <2> QED
    BY <2>1, <2>2
<1>5. n - (n - m) = m /\ n - m <= n - m
  BY <1>1
<1> QED
  BY <1>4, <1>5

\* h is the chain of the first k points of s.
Chained(d, h, s, k) ==
  /\ h \in Seq(Plane) /\ Climbs(d, h)
  /\ \A i \in 1 .. Len(h) : \E x \in 1 .. k : h[i] = s[x]
  /\ \A x \in 1 .. k : Spans(d, h, s[x]) /\ LeftOfAll(h, s[x])
  /\ k > 0 => Len(h) > 0 /\ h[1] = s[1] /\ h[Len(h)] = s[k]

\* A point left of the last edge that stays is left of all edges before.
LEMMA LeftOfStaying ==
  ASSUME NEW d \in {-1, 1}, NEW h \in Seq(Plane), Climbs(d, h), NEW p \in Plane,
         \A i \in 1 .. Len(h) : LeftOfAll(h, h[i]) /\ Ahead(d, h[i], p),
         NEW m \in Nat, m <= Len(h), m >= 2 => Cross(h[m - 1], h[m], p) > 0,
         NEW i \in Nat, 1 <= i, i < m
  PROVE  Cross(h[i], h[i + 1], p) >= 0
<1> DEFINE D == {j \in Nat : j <= m - 2 => Cross(h[(m - 1) - j], h[m - j], p) >= 0}
<1>1. 0 \in D
  <2>1. (m - 1) - 0 = m - 1 /\ m - 0 = m
    OBVIOUS
  <2>2. h[m - 1] \in Plane /\ h[m] \in Plane
    OBVIOUS
  <2>3. Cross(h[m - 1], h[m], p) >= 0
    <3>1. PICK o \in Plane, a \in Plane : o = h[m - 1] /\ a = h[m]
      BY <2>2
    <3>2. Cross(o, a, p) \in Int
      BY CrossIs
    <3>3. Cross(o, a, p) > 0
      BY <3>1
    <3> QED
      BY <3>1, <3>2, <3>3
  <2> QED
    BY <2>1, <2>3
<1>2. ASSUME NEW j \in Nat, j + 1 <= m - 2, j \in D
      PROVE  j + 1 \in D
  <2>1. PICK k \in Nat : k = (m - 1) - (j + 1)
    BY <1>2
  <2>2. k >= 1 /\ k + 2 <= Len(h) /\ k + 1 = m - (j + 1) /\ k + 1 = (m - 1) - j /\ k + 2 = m - j
    BY <1>2, <2>1
  <2>3. PICK o \in Plane, a \in Plane, c \in Plane : o = h[k] /\ a = h[k + 1] /\ c = h[k + 2]
    BY <2>2
  <2>4. Ahead(d, o, a) /\ Ahead(d, a, c) /\ a # c /\ Ahead(d, a, p)
    BY <2>2, <2>3 DEF Climbs
  <2>5. Cross(o, a, c) >= 0
    <3>1. LeftOfAll(h, c)
      BY <2>2, <2>3
    <3> QED
      BY <2>2, <2>3, <3>1 DEF LeftOfAll
  <2>6. Cross(a, c, p) >= 0
    BY <1>2, <2>2, <2>3
  <2>7. Cross(o, a, p) >= 0
    BY <2>4, <2>5, <2>6, LeftOfEarlier
  <2> QED
    BY <2>1, <2>2, <2>3, <2>7
<1>3. 0 .. m \subseteq D
  <2>1. ASSUME NEW j \in Nat, j + 1 <= m, j \in D
        PROVE  j + 1 \in D
    <3>1. CASE j + 1 <= m - 2
      BY <1>2, <2>1, <3>1
    <3>2. CASE ~(j + 1 <= m - 2)
      BY <3>2
    <3> QED
      BY <3>1, <3>2
  <2> HIDE DEF D
  <2> QED
    BY <1>1, <2>1, IntervalInduction
<1>4. PICK j \in Nat : j = (m - 1) - i
  OBVIOUS
<1>5. j \in 0 .. m /\ j <= m - 2 /\ (m - 1) - j = i /\ m - j = i + 1
  BY <1>4
<1>6. j \in D
  BY <1>3, <1>5
<1> QED
  BY <1>5, <1>6

\* The edge to the new point has all earlier ones on its left.
LEMMA LeftOfNewEdge ==
  ASSUME NEW d \in {-1, 1}, NEW h \in Seq(Plane), Climbs(d, h), NEW p \in Plane,
         NEW m \in Nat, 1 <= m, m <= Len(h), m >= 2 => Cross(h[m - 1], h[m], p) > 0,
         Ahead(d, h[m], p),
         NEW q \in Plane, LeftOfAll(h, q), Spans(d, CutTo(h, m, p), q)
  PROVE  Cross(h[m], p, q) >= 0
<1>1. PICK u : u = CutTo(h, m, p)
  OBVIOUS
<1>2. Len(u) = m + 1 /\ u[m + 1] = p /\ \A i \in 1 .. m : u[i] = h[i]
  BY <1>1, CutToIs
<1>3. PICK a \in Plane : a = h[m]
  OBVIOUS
<1>4. Cross(a, p, a) = 0 /\ Cross(a, p, p) = 0
  BY CrossIs
<1>5. ASSUME m >= 2, Ahead(d, q, a)
      PROVE  Cross(a, p, q) >= 0
  <2>1. PICK o \in Plane : o = h[m - 1]
    BY <1>5
  <2>2. m - 1 \in 1 .. Len(h) /\ m - 1 < Len(h) /\ (m - 1) + 1 = m /\ m - 1 < m /\ m \in 1 .. Len(h)
    BY <1>5
  <2>3. Ahead(d, o, a) /\ o # a
    BY <1>3, <2>1, <2>2 DEF Climbs
  <2>4. Cross(o, a, q) >= 0
    BY <1>3, <2>1, <2>2 DEF LeftOfAll
  <2>5. Cross(o, a, p) >= 0
    <3>1. Cross(o, a, p) \in Int
      BY CrossIs
    <3>2. Cross(o, a, p) > 0
      BY <1>3, <1>5, <2>1
    <3> QED
      BY <3>1, <3>2
  <2> QED
    BY <1>3, <1>5, <2>3, <2>4, <2>5, LeftOfNext
<1>6. PICK i \in 1 .. m + 1 : q = u[i] \/ (i < m + 1 /\ Beside(d, u[i], u[i + 1], q))
  BY <1>1, <1>2 DEF Spans
<1>7. \A j \in 1 .. m : Ahead(d, h[j], a)
  BY <1>3, AheadIsOrder DEF Climbs
<1>8. CASE q = u[i]
  <2>1. CASE i = m + 1
    BY <1>2, <1>3, <1>4, <1>8, <2>1
  <2>2. CASE i = m
    BY <1>2, <1>3, <1>4, <1>8, <2>2
  <2>3. CASE i < m
    BY <1>2, <1>3, <1>5, <1>7, <1>8, <2>3
  <2> QED
    BY <2>1, <2>2, <2>3
<1>9. CASE i < m + 1 /\ Beside(d, u[i], u[i + 1], q)
  <2>1. CASE i = m
    BY <1>2, <1>3, <1>9, <2>1 DEF Beside
  <2>2. CASE i < m
    <3>1. PICK c \in Plane : c = h[i + 1]
      BY <2>2
    <3>2. Ahead(d, q, c)
      BY <1>2, <1>9, <2>2, <3>1 DEF Beside
    <3>3. Ahead(d, q, a)
      BY <1>7, <2>2, <3>1, <3>2, AheadIsOrder
    <3> QED
      BY <1>3, <1>5, <2>2, <3>3
  <2> QED
    BY <1>9, <2>1, <2>2
<1> QED
  BY <1>6, <1>8, <1>9

LEMMA ChainStep ==
  ASSUME NEW d \in {-1, 1}, NEW s \in Seq(Plane), Climbs(d, s),
         NEW k \in Nat, k + 1 <= Len(s), NEW h, Chained(d, h, s, k)
  PROVE  Chained(d, Extended(h, s[k + 1]), s, k + 1)
<1>1. PICK p \in Plane : p = s[k + 1]
  OBVIOUS
<1>2. h \in Seq(Plane) /\ Climbs(d, h)
  BY DEF Chained
<1>3. PICK n \in Nat : n = Len(h)
  BY <1>2
<1>4. \A i \in 1 .. n : \E x \in 1 .. k : h[i] = s[x]
  BY <1>3 DEF Chained
<1>5. \A i \in 1 .. n : Ahead(d, h[i], p) /\ h[i] # p
  BY <1>1, <1>4, SMTT(30) DEF Climbs
<1>6. PICK m : m = Staying(h, p)
  OBVIOUS
<1>7. PICK u : u = Extended(h, p)
  OBVIOUS
<1>8. /\ m \in Nat /\ m <= n /\ (n >= 1 => m >= 1)
      /\ m >= 2 => Cross(h[m - 1], h[m], p) > 0
      /\ \A x \in Nat : m < x /\ x <= n => x >= 2 /\ Cross(h[x - 1], h[x], p) <= 0
      /\ u = CutTo(h, m, p) /\ u \in Seq(Plane)
  BY <1>2, <1>3, <1>6, <1>7, StayingIs
<1>9. Len(u) = m + 1 /\ u[m + 1] = p /\ \A i \in 1 .. m : u[i] = h[i]
  <2>1. Cuts(h, m, p)
    BY <1>1, <1>2, <1>3, <1>8 DEF Cuts
  <2>2. IsCut(u, h, m, p)
    BY <1>8, <2>1, CutHas
  <2> QED
    BY <2>2 DEF IsCut
<1>10. Climbs(d, u)
  <2> SUFFICES ASSUME NEW i \in 1 .. m + 1, NEW j \in 1 .. m + 1, i < j
               PROVE  Ahead(d, u[i], u[j]) /\ u[i] # u[j]
    BY <1>9 DEF Climbs
  <2>1. CASE j = m + 1
    BY <1>5, <1>8, <1>9, <2>1
  <2>2. CASE j < m + 1
    <3>1. i \in 1 .. n /\ j \in 1 .. n /\ u[i] = h[i] /\ u[j] = h[j]
      BY <1>8, <1>9, <2>2
    <3> QED
      BY <1>2, <1>3, <3>1 DEF Climbs
  <2> QED
    BY <1>8, <2>1, <2>2
<1>11. ASSUME NEW i \in 1 .. m + 1
       PROVE  \E x \in 1 .. k + 1 : u[i] = s[x]
  <2>1. CASE i = m + 1
    <3>1. u[i] = s[k + 1] /\ k + 1 \in 1 .. k + 1
      BY <1>1, <1>9, <2>1
    <3> QED
      BY <3>1
  <2>2. CASE i < m + 1
    <3>1. i \in 1 .. m /\ i \in 1 .. n
      BY <1>8, <2>2
    <3>2. PICK x \in 1 .. k : h[i] = s[x]
      BY <1>4, <3>1
    <3>3. u[i] = s[x] /\ x \in 1 .. k + 1
      BY <1>9, <3>1, <3>2
    <3> QED
      BY <3>3
  <2> QED
    BY <1>8, <2>1, <2>2
<1>12. u[1] = s[1]
  <2>1. CASE k = 0
    <3>1. n = 0
      BY <1>4, <2>1
    <3> QED
      BY <1>1, <1>8, <1>9, <2>1, <3>1
  <2>2. CASE k > 0
    <3>1. n > 0 /\ h[1] = s[1]
      BY <1>3, <2>2 DEF Chained
    <3> QED
      BY <1>8, <1>9, <3>1
  <2> QED
    BY <2>1, <2>2
<1>13. ASSUME NEW x \in 1 .. k
       PROVE  Spans(d, u, s[x]) /\ LeftOfAll(u, s[x])
  <2>1. PICK q \in Plane : q = s[x]
    OBVIOUS
  <2>2. Spans(d, h, q) /\ LeftOfAll(h, q) /\ n > 0
    BY <1>3, <2>1 DEF Chained
  <2>3. m >= 1
    BY <1>8, <2>2
  <2>4. Spans(d, u, q)
    BY <1>2, <1>3, <1>5, <1>8, <2>2, <2>3, CutSpans
  <2>5. m \in 1 .. n
    BY <1>8, <2>3
  <2>6. Cross(h[m], p, q) >= 0
    BY <1>2, <1>3, <1>5, <1>8, <2>2, <2>3, <2>4, <2>5, LeftOfNewEdge
  <2>7. LeftOfAll(u, q)
    <3> SUFFICES ASSUME NEW i \in 1 .. m + 1, i < m + 1
                 PROVE  Cross(u[i], u[i + 1], q) >= 0
      BY <1>9 DEF LeftOfAll
    <3>1. CASE i = m
      BY <1>9, <2>3, <2>6, <3>1
    <3>2. CASE i < m
      <4>1. i \in 1 .. n /\ i < n /\ u[i] = h[i] /\ u[i + 1] = h[i + 1]
        BY <1>8, <1>9, <3>2
      <4> QED
        BY <1>3, <2>2, <4>1 DEF LeftOfAll
    <3> QED
      BY <1>8, <3>1, <3>2
  <2> QED
    BY <2>1, <2>4, <2>7
<1>14. Spans(d, u, p)
  <2>1. p = u[m + 1] /\ m + 1 \in 1 .. Len(u)
    BY <1>8, <1>9
  <2> QED
    BY <2>1 DEF Spans
<1>15. LeftOfAll(u, p)
  <2>1. \A i \in 1 .. n : LeftOfAll(h, h[i])
    BY <1>3, <1>4 DEF Chained
  <2> SUFFICES ASSUME NEW i \in 1 .. m + 1, i < m + 1
               PROVE  Cross(u[i], u[i + 1], p) >= 0
    BY <1>9 DEF LeftOfAll
  <2>2. CASE i = m
    <3>1. h[m] \in Plane
      BY <1>2, <1>3, <1>8, <2>2
    <3>2. Cross(h[m], p, p) = 0
      BY <3>1, CrossIs
    <3> QED
      BY <1>9, <2>2, <3>2
  <2>3. CASE i < m
    <3>1. i \in Nat /\ 1 <= i /\ i \in 1 .. m /\ i + 1 \in 1 .. m
      BY <1>8, <2>3
    <3>2. Cross(h[i], h[i + 1], p) >= 0
      BY <1>2, <1>3, <1>5, <1>8, <2>1, <2>3, <3>1, LeftOfStaying
    <3> QED
      BY <1>9, <3>1, <3>2
  <2> QED
    BY <1>8, <2>2, <2>3
<1>16. \A x \in 1 .. k + 1 : Spans(d, u, s[x]) /\ LeftOfAll(u, s[x])
  BY <1>1, <1>13, <1>14, <1>15
<1>17. Len(u) > 0 /\ u[Len(u)] = s[k + 1]
  BY <1>1, <1>8, <1>9
<1> QED
  BY <1>1, <1>7, <1>8, <1>9, <1>10, <1>11, <1>12, <1>16, <1>17 DEF Chained

LEMMA ExtendedType ==
  ASSUME NEW h \in Seq(Plane), NEW p \in Plane
  PROVE  Extended(h, p) \in Seq(Plane)
BY StayingIs

LEMMA NoChain == <<>> \in Seq(Plane)
OBVIOUS

ChainRun(run, s) ==
  /\ run[0] = <<>>
  /\ \A k \in 1 .. Len(s) : run[k] = Extended(run[k - 1], s[k])
  /\ run[Len(s)] = Chain(s)

LEMMA ChainRuns ==
  ASSUME NEW s \in Seq(Plane)
  PROVE  \E run \in [0 .. Len(s) -> Seq(Plane)] : ChainRun(run, s)
<1> DEFINE F == [p \in Seq(Plane) \X Plane |-> Extended(p[1], p[2])]
           Def(it) == it = [T \in SUBSET DOMAIN s |->
                              IF T = {} THEN <<>>
                              ELSE Extended(it[T \ {Max(T)}], s[Max(T)])]
           fold == CHOOSE it : Def(it)
           m == Len(s)
<1>1. DOMAIN s = 1 .. m /\ m \in Nat /\ s \in [1 .. m -> Plane]
  OBVIOUS
<1>2. Chain(s) = fold[DOMAIN s]
  BY DEF Chain, FoldLeft, MapThenFoldSet
<1>3. <<>> \in Seq(Plane)
  BY NoChain
<1>4. Def(fold)
  <2>1. F \in [Seq(Plane) \X Plane -> Seq(Plane)]
    BY ExtendedType
  <2>2. \E it \in [SUBSET (1 .. m) -> Seq(Plane)] : Iterates(it, F, <<>>, s, m)
    <3> HIDE DEF F, Def, m
    <3> QED
      BY <1>1, <1>3, <2>1, FoldExists
  <2>3. PICK it \in [SUBSET (1 .. m) -> Seq(Plane)] : Iterates(it, F, <<>>, s, m)
    BY <2>2
  <2>4. ASSUME NEW T \in SUBSET (1 .. m), T # {}
        PROVE  it[T] = Extended(it[T \ {Max(T)}], s[Max(T)])
    BY <1>1, <2>3, <2>4, MaxOfSubset DEF Iterates
  <2>5. Def(it)
    BY <1>1, <2>3, <2>4 DEF Iterates
  <2> HIDE DEF Def
  <2> QED
    BY <2>5
<1> HIDE DEF fold
<1> DEFINE run == [k \in 0 .. m |-> fold[1 .. k]]
<1>5. run[0] = <<>>
  BY <1>1, <1>4, 1 .. 0 = {}
<1>6. ASSUME NEW k \in 1 .. m
      PROVE  run[k] = Extended(run[k - 1], s[k])
  <2>1. /\ Max(1 .. k) = k /\ (1 .. k) \ {k} = 1 .. k - 1
        /\ 1 .. k # {} /\ 1 .. k \in SUBSET (1 .. m)
    BY <1>1, Prefix
  <2>2. fold[1 .. k] = Extended(fold[(1 .. k) \ {Max(1 .. k)}], s[Max(1 .. k)])
    BY <1>1, <1>4, <2>1
  <2>3. k \in 0 .. m /\ k - 1 \in 0 .. m
    BY <1>1
  <2> QED
    BY <2>1, <2>2, <2>3
<1>7. run[m] = Chain(s)
  BY <1>1, <1>2
<1>8. ASSUME NEW k \in Nat, k + 1 <= m, run[k] \in Seq(Plane)
      PROVE  run[k + 1] \in Seq(Plane)
  <2>1. k + 1 \in 1 .. m /\ (k + 1) - 1 = k /\ s[k + 1] \in Plane
    BY <1>1, <1>8
  <2>2. run[k + 1] = Extended(run[k], s[k + 1])
    BY <1>6, <2>1
  <2> HIDE DEF run
  <2> QED
    BY <1>8, <2>1, <2>2, ExtendedType
<1> HIDE DEF run
<1>9. run \in [0 .. m -> Seq(Plane)]
  <2> DEFINE D == {k \in Nat : run[k] \in Seq(Plane)}
  <2>1. 0 \in D
    BY <1>3, <1>5
  <2>2. \A k \in Nat : k + 1 <= m /\ k \in D => k + 1 \in D
    BY <1>8
  <2>3. 0 .. m \subseteq D
    <3> HIDE DEF D, m
    <3> QED
      BY <1>1, <2>1, <2>2, IntervalInduction
  <2> QED
    BY <2>3 DEF run
<1> QED
  BY <1>5, <1>6, <1>7, <1>9 DEF ChainRun

LEMMA ChainIs ==
  ASSUME NEW d \in {-1, 1}, NEW s \in Seq(Plane), Climbs(d, s)
  PROVE  Chained(d, Chain(s), s, Len(s))
<1>1. PICK run \in [0 .. Len(s) -> Seq(Plane)] : ChainRun(run, s)
  BY ChainRuns
<1>2. PICK n \in Nat : n = Len(s)
  OBVIOUS
<1>3. /\ run[0] = <<>> /\ run[n] = Chain(s)
      /\ \A k \in 1 .. n : run[k] = Extended(run[k - 1], s[k])
  BY <1>1, <1>2 DEF ChainRun
<1> DEFINE D == {k \in Nat : Chained(d, run[k], s, k)}
<1>4. 0 \in D
  <2>1. run[0] \in Seq(Plane) /\ Len(run[0]) = 0
    BY <1>3
  <2> QED
    BY <2>1 DEF Chained, Climbs
<1>5. ASSUME NEW k \in Nat, k + 1 <= n, k \in D
      PROVE  k + 1 \in D
  <2>1. k + 1 \in 1 .. n /\ (k + 1) - 1 = k
    BY <1>5
  <2>2. run[k + 1] = Extended(run[k], s[k + 1])
    BY <1>3, <2>1
  <2> QED
    <3>1. k + 1 <= Len(s) /\ Chained(d, run[k], s, k)
      BY <1>2, <1>5
    <3>2. Chained(d, Extended(run[k], s[k + 1]), s, k + 1)
      BY <3>1, ChainStep
    <3> QED
      BY <2>2, <3>2
<1>6. 0 .. n \subseteq D
  <2> HIDE DEF D
  <2> QED
    BY <1>4, <1>5, IntervalInduction
<1> QED
  BY <1>2, <1>3, <1>6

\* The same between any two points, both ways.
LEMMA BetweenPoints ==
  ASSUME NEW d \in {-1, 1}, NEW o \in Plane, NEW b \in Plane, NEW q \in Plane, o # b,
         Beside(d, o, b, q), NEW ex \in Int, NEW ey \in Int, d * ey <= 0
  PROVE  ex * q[1] + ey * q[2] <= ex * o[1] + ey * o[2] \/ ex * q[1] + ey * q[2] <= ex * b[1] + ey * b[2]
<1>0. PICK qx \in Int, qy \in Int, ox \in Int, oy \in Int, bx \in Int, by \in Int :
        qx = q[1] /\ qy = q[2] /\ ox = o[1] /\ oy = o[2] /\ bx = b[1] /\ by = b[2]
  BY PlaneIs
<1>4. /\ Positive(d * (qx - ox), d * (qy - oy))
      /\ Positive(d * (bx - qx), d * (by - qy))
      /\ (bx - ox) * (qy - oy) - (by - oy) * (qx - ox) >= 0
  BY <1>0 DEF Beside, Ahead, Cross
<1>5. ox # bx \/ oy # by
  BY <1>0, PlaneIs
<1>1. PICK eo \in Int, eq \in Int, eb \in Int :
        eo = ex * ox + ey * oy /\ eq = ex * qx + ey * qy /\ eb = ex * bx + ey * by
  <2>1. \A x, y \in Int : ex * x + ey * y \in Int
    BY Products
  <2> QED
    BY <2>1
<1>2. CASE d = 1
  <2>1. PICK u \in Int, v \in Int, w \in Int, z \in Int :
          u = bx - ox /\ v = by - oy /\ w = qx - ox /\ z = qy - oy
    OBVIOUS
  <2>2. u - w = bx - qx /\ v - z = by - qy
    BY <2>1
  <2>3. Positive(w, z) /\ Positive(u - w, v - z) /\ (u # 0 \/ v # 0) /\ ey <= 0 /\ u * z - v * w >= 0
    BY <1>2, <1>4, <1>5, <2>1, <2>2
  <2>4. ex * w + ey * z <= 0 \/ ex * w + ey * z <= ex * u + ey * v
    BY <2>3, BetweenEnds
  <2>5. ex * (qx - ox) + ey * (qy - oy) = eq - eo
    BY <1>1
  <2>6. ex * (bx - ox) + ey * (by - oy) = eb - eo
    BY <1>1
  <2> QED
    BY <1>0, <1>1, <2>1, <2>4, <2>5, <2>6
<1>3. CASE d = -1
  <2>1. PICK u \in Int, v \in Int, w \in Int, z \in Int :
          u = ox - bx /\ v = oy - by /\ w = ox - qx /\ z = oy - qy
    OBVIOUS
  <2>2. /\ u - w = (-1) * (bx - qx) /\ v - z = (-1) * (by - qy)
        /\ w = (-1) * (qx - ox) /\ z = (-1) * (qy - oy)
        /\ bx - ox = -u /\ by - oy = -v /\ qx - ox = -w /\ qy - oy = -z
    BY <2>1
  <2>3. Positive(w, z) /\ Positive(u - w, v - z) /\ (u # 0 \/ v # 0) /\ -ey <= 0
    BY <1>3, <1>4, <1>5, <2>1, <2>2
  <2>4. (-u) * (-z) - (-v) * (-w) >= 0
    BY <1>4, <2>2
  <2>5. (-u) * (-z) - (-v) * (-w) = u * z - v * w
    OBVIOUS
  <2>6. (-ex) * w + (-ey) * z <= 0 \/ (-ex) * w + (-ey) * z <= (-ex) * u + (-ey) * v
    <3>1. PICK fx \in Int, fy \in Int : fx = -ex /\ fy = -ey
      OBVIOUS
    <3>2. fy <= 0 /\ u * z - v * w >= 0
      BY <2>3, <2>4, <2>5, <3>1
    <3>3. fx * w + fy * z <= 0 \/ fx * w + fy * z <= fx * u + fy * v
      BY <2>3, <3>2, BetweenEnds
    <3> QED
      BY <3>1, <3>3
  <2>7. (-ex) * (ox - qx) + (-ey) * (oy - qy) = eq - eo
    BY <1>1
  <2>8. (-ex) * (ox - bx) + (-ey) * (oy - by) = eb - eo
    BY <1>1
  <2> QED
    BY <1>0, <1>1, <2>1, <2>6, <2>7, <2>8
<1> QED
  BY <1>2, <1>3

\* In every direction that does not point up (or down, d = -1), some point of
\* a chain reaches as far as what it spans.
LEMMA SpanReaches ==
  ASSUME NEW d \in {-1, 1}, NEW h \in Seq(Plane), Climbs(d, h),
         NEW q \in Plane, Spans(d, h, q),
         NEW ex \in Int, NEW ey \in Int, d * ey <= 0
  PROVE  \E i \in 1 .. Len(h) : ex * q[1] + ey * q[2] <= ex * h[i][1] + ey * h[i][2]
<1>1. PICK i \in 1 .. Len(h) : q = h[i] \/ (i < Len(h) /\ Beside(d, h[i], h[i + 1], q))
  BY DEF Spans
<1>2. CASE q = h[i]
  <2>1. ex * q[1] \in Int /\ ey * q[2] \in Int
    <3>1. q[1] \in Int /\ q[2] \in Int
      BY PlaneIs
    <3> QED
      BY <3>1, Products
  <2> QED
    BY <1>2, <2>1
<1>3. CASE i < Len(h) /\ Beside(d, h[i], h[i + 1], q)
  <2>1. PICK o \in Plane, b \in Plane : o = h[i] /\ b = h[i + 1] /\ o # b
    <3>1. i + 1 \in 1 .. Len(h) /\ i < i + 1
      BY <1>3
    <3> QED
      BY <3>1 DEF Climbs
  <2>4. ex * q[1] + ey * q[2] <= ex * o[1] + ey * o[2] \/ ex * q[1] + ey * q[2] <= ex * b[1] + ey * b[2]
    BY <1>3, <2>1, BetweenPoints
  <2>5. i + 1 \in 1 .. Len(h)
    BY <1>3
  <2> QED
    BY <2>1, <2>4, <2>5
<1> QED
  BY <1>1, <1>2, <1>3

\* The corners of a hull of S: no edge is empty, everything is on the left of
\* every edge, and in every direction some corner is the farthest.
NextOn(hull, i) == hull[(i % Len(hull)) + 1]
HullOf(hull, S) ==
  /\ hull \in Seq(S) /\ Len(hull) >= 2
  /\ \A i \in 1 .. Len(hull) :
       /\ NextOn(hull, i) \in S /\ hull[i] # NextOn(hull, i)
       /\ \A q \in S : Cross(hull[i], NextOn(hull, i), q) >= 0
  /\ \A ex, ey \in Int : \A q \in S :
       \E i \in 1 .. Len(hull) : ex * q[1] + ey * q[2] <= ex * hull[i][1] + ey * hull[i][2]

LEMMA NextIndex ==
  ASSUME NEW n \in Nat, NEW i \in 1 .. n
  PROVE  (i % n) + 1 = IF i = n THEN 1 ELSE i + 1
<1>1. CASE i = n
  <2>1. n % n = 0
    OBVIOUS
  <2> QED
    BY <1>1, <2>1
<1>2. CASE i < n
  <2>1. i % n = i
    BY <1>2
  <2> QED
    BY <1>2, <2>1
<1> QED
  BY <1>1, <1>2

\* Two chains between the same ends make a loop.
LoopOf(hull, n, low, a, up, b) ==
  /\ n = Len(hull) /\ n = (a + b) - 2
  /\ \A i \in 1 .. a : i \in 1 .. n /\ hull[i] = low[i]
  /\ \A i \in 1 .. b : \E j \in 1 .. n : hull[j] = up[i]
  /\ \A i \in 1 .. n :
       \/ \E j \in 1 .. a : j < a /\ hull[i] = low[j] /\ NextOn(hull, i) = low[j + 1]
       \/ \E j \in 1 .. b : j < b /\ hull[i] = up[j] /\ NextOn(hull, i) = up[j + 1]

LEMMA LoopIs ==
  ASSUME NEW S, NEW low \in Seq(S), NEW up \in Seq(S),
         NEW a \in Nat, Len(low) = a, a >= 2, NEW b \in Nat, Len(up) = b, b >= 2,
         low[1] = up[b], low[a] = up[1]
  PROVE  LET hull == Front(low) \o Front(up)
         IN hull \in Seq(S) /\ LoopOf(hull, (a + b) - 2, low, a, up, b)
<1>1. PICK f : f = Front(low)
  OBVIOUS
<1>2. f \in Seq(S) /\ Len(f) = a - 1 /\ \A i \in 1 .. a - 1 : f[i] = low[i]
  BY <1>1 DEF Front
<1>3. PICK g : g = Front(up)
  OBVIOUS
<1>4. g \in Seq(S) /\ Len(g) = b - 1 /\ \A i \in 1 .. b - 1 : g[i] = up[i]
  BY <1>3 DEF Front
<1>5. PICK n \in Nat : n = (a + b) - 2
  OBVIOUS
<1>0. PICK hull : hull = f \o g
  OBVIOUS
<1>6. hull \in Seq(S) /\ Len(hull) = n
  <2>1. f \in Seq(S) /\ g \in Seq(S)
    BY <1>2, <1>4
  <2>2. f \o g \in Seq(S) /\ Len(f \o g) = Len(f) + Len(g)
    BY <2>1
  <2> QED
    BY <1>0, <1>2, <1>4, <1>5, <2>2
<1>7. \A i \in 1 .. a - 1 : hull[i] = low[i]
  BY <1>0, <1>2, <1>4
<1>8. ASSUME NEW i \in 1 .. b - 1
      PROVE  (a - 1) + i \in 1 .. n /\ hull[(a - 1) + i] = up[i]
  <2>1. (a - 1) + i > Len(f) /\ ((a - 1) + i) - Len(f) = i /\ (a - 1) + i \in 1 .. n
    BY <1>2, <1>5
  <2>2. hull[(a - 1) + i] = g[i]
    BY <1>0, <1>2, <1>4, <1>5, <2>1
  <2> QED
    BY <1>4, <2>1, <2>2
<1>9. hull[a] = low[a]
  <2>1. 1 \in 1 .. b - 1 /\ (a - 1) + 1 = a
    OBVIOUS
  <2> QED
    BY <1>8, <2>1
<1>10. \A i \in 1 .. a : i \in 1 .. n /\ hull[i] = low[i]
  BY <1>5, <1>7, <1>9
<1>11. ASSUME NEW i \in 1 .. b
       PROVE  \E j \in 1 .. n : hull[j] = up[i]
  <2>1. CASE i = b
    BY <1>10, <2>1
  <2>2. CASE i < b
    BY <1>8, <2>2
  <2> QED
    BY <2>1, <2>2
<1>12. ASSUME NEW i \in 1 .. n
       PROVE  \/ \E j \in 1 .. a : j < a /\ hull[i] = low[j] /\ NextOn(hull, i) = low[j + 1]
              \/ \E j \in 1 .. b : j < b /\ hull[i] = up[j] /\ NextOn(hull, i) = up[j + 1]
  <2>1. NextOn(hull, i) = hull[IF i = n THEN 1 ELSE i + 1]
    BY <1>6, NextIndex DEF NextOn
  <2>2. CASE i < a
    <3>1. i + 1 \in 1 .. a /\ i \in 1 .. a /\ i # n
      BY <1>5, <2>2
    <3> QED
      BY <1>10, <2>1, <2>2, <3>1
  <2>3. CASE i >= a
    <3>1. PICK j \in 1 .. b - 1 : i = (a - 1) + j
      <4>1. i - (a - 1) \in 1 .. b - 1 /\ i = (a - 1) + (i - (a - 1))
        BY <1>5, <2>3
      <4> QED
        BY <4>1
    <3>2. hull[i] = up[j] /\ j \in 1 .. b /\ j < b
      BY <1>8, <3>1
    <3>3. CASE j = b - 1
      <4>1. i = n /\ j + 1 = b
        BY <1>5, <3>1, <3>3
      <4>2. NextOn(hull, i) = low[1]
        BY <1>10, <2>1, <4>1
      <4> QED
        BY <3>2, <4>1, <4>2
    <3>4. CASE j < b - 1
      <4>1. i # n /\ j + 1 \in 1 .. b - 1 /\ i + 1 = (a - 1) + (j + 1)
        BY <1>5, <3>1, <3>4
      <4>2. NextOn(hull, i) = up[j + 1]
        BY <1>8, <2>1, <4>1
      <4> QED
        BY <3>2, <4>2
    <3>5. j \in Int /\ j <= b - 1
      OBVIOUS
    <3>6. j = b - 1 \/ j < b - 1
      BY <3>5
    <3> QED
      BY <3>3, <3>4, <3>6
  <2>4. i < a \/ i >= a
    <3>1. i \in Int /\ a \in Int
      OBVIOUS
    <3> QED
      BY <3>1
  <2> QED
    BY <2>2, <2>3, <2>4
<1>13. LoopOf(hull, n, low, a, up, b)
  BY <1>5, <1>6, <1>10, <1>11, <1>12 DEF LoopOf
<1> QED
  BY <1>0, <1>1, <1>3, <1>5, <1>6, <1>13

LEMMA ReversedIs ==
  ASSUME NEW S, NEW s \in Seq(S), NEW n \in Nat, n = Len(s), NEW r, r = Reverse(s)
  PROVE  /\ r \in Seq(S) /\ Len(r) = n
         /\ \A i \in 1 .. n : (n - i) + 1 \in 1 .. n /\ r[i] = s[(n - i) + 1]
<1>1. \A i \in 1 .. n : (n - i) + 1 \in 1 .. n /\ s[(n - i) + 1] \in S
  OBVIOUS
<1>2. r = [i \in 1 .. n |-> s[(n - i) + 1]]
  BY DEF Reverse
<1> QED
  BY <1>1, <1>2

\* What a chain has of the points it was made of.
LEMMA ChainHas ==
  ASSUME NEW d \in {-1, 1}, NEW S, S \subseteq Plane, NEW s \in Seq(S), ToSet(s) = S,
         Climbs(d, s), Len(s) >= 2, NEW h, h = Chain(s)
  PROVE  /\ h \in Seq(S) /\ h \in Seq(Plane) /\ Climbs(d, h)
         /\ Len(h) \in Nat /\ Len(h) >= 2 /\ h[1] = s[1] /\ h[Len(h)] = s[Len(s)]
         /\ \A q \in S : Spans(d, h, q) /\ LeftOfAll(h, q)
<1>1. PICK n \in Nat : n = Len(s) /\ n >= 2
  OBVIOUS
<1>2. s \in Seq(Plane)
  OBVIOUS
<1>3. Chained(d, h, s, n)
  BY <1>1, <1>2, ChainIs
<1>4. /\ h \in Seq(Plane) /\ Climbs(d, h)
      /\ \A i \in 1 .. Len(h) : \E x \in 1 .. n : h[i] = s[x]
      /\ Len(h) > 0 /\ h[1] = s[1] /\ h[Len(h)] = s[n]
      /\ \A x \in 1 .. n : Spans(d, h, s[x]) /\ LeftOfAll(h, s[x])
  BY <1>1, <1>3 DEF Chained
<1>5. \A i \in 1 .. Len(h) : h[i] \in S
  BY <1>1, <1>4
<1>6. h \in Seq(S)
  BY <1>4, <1>5
<1>7. s[1] # s[n]
  BY <1>1 DEF Climbs
<1>8. Len(h) \in Nat /\ Len(h) >= 2
  BY <1>4, <1>7
<1>9. \A q \in S : \E x \in 1 .. n : q = s[x]
  BY <1>1 DEF ToSet
<1> QED
  BY <1>1, <1>4, <1>6, <1>8, <1>9

LEMMA ConvexHullIs ==
  ASSUME NEW S, S \subseteq Plane, IsFiniteSet(S), Cardinality(S) >= 2
  PROVE  HullOf(ConvexHull(S), S)
<1>0. S \subseteq Int \X Int
  BY DEF Plane
<1>1. PICK s : /\ s = InOrder(S, XThenY)
               /\ s \in Seq(S) /\ ToSet(s) = S /\ Len(s) = Cardinality(S)
               /\ \A i, j \in 1 .. Len(s) : i < j => XThenY(s[i], s[j]) /\ s[i] # s[j]
  BY <1>0, LeftToRightLists
<1>2. /\ s \in Seq(S) /\ ToSet(s) = S /\ Len(s) = Cardinality(S)
      /\ \A i, j \in 1 .. Len(s) : i < j => XThenY(s[i], s[j]) /\ s[i] # s[j]
  BY <1>1
<1>3. PICK n \in Nat : n = Len(s) /\ n >= 2
  BY <1>2, FS_CardinalityType
<1>4. PICK r : r = Reverse(s)
  OBVIOUS
<1>5. /\ r \in Seq(S) /\ Len(r) = n
      /\ \A i \in 1 .. n : (n - i) + 1 \in 1 .. n /\ r[i] = s[(n - i) + 1]
  BY <1>2, <1>3, <1>4, ReversedIs, SMTT(60)
<1>6. \A i \in 1 .. n : s[i] \in Plane
  BY <1>2, <1>3
<1>7. Climbs(1, s)
  <2> SUFFICES ASSUME NEW i \in 1 .. n, NEW j \in 1 .. n, i < j
               PROVE  Ahead(1, s[i], s[j]) /\ s[i] # s[j]
    BY <1>3 DEF Climbs
  <2> QED
    BY <1>2, <1>3, <1>6, AheadIsOrder
<1>8. Climbs(-1, r)
  <2> SUFFICES ASSUME NEW i \in 1 .. n, NEW j \in 1 .. n, i < j
               PROVE  Ahead(-1, r[i], r[j]) /\ r[i] # r[j]
    BY <1>5 DEF Climbs
  <2>1. PICK x \in 1 .. n, y \in 1 .. n : x = (n - i) + 1 /\ y = (n - j) + 1
    BY <1>5
  <2>2. y < x /\ r[i] = s[x] /\ r[j] = s[y]
    BY <1>5, <2>1
  <2>3. XThenY(s[y], s[x]) /\ s[y] # s[x]
    BY <1>2, <1>3, <2>2
  <2> QED
    BY <1>6, <2>2, <2>3, AheadIsOrder
<1>9. ToSet(r) = S
  <2>1. \A q \in S : \E i \in 1 .. n : q = s[i]
    BY <1>2, <1>3 DEF ToSet
  <2>2. ASSUME NEW i \in 1 .. n
        PROVE  \E j \in 1 .. n : s[i] = r[j]
    <3>1. PICK j \in 1 .. n : j = (n - i) + 1
      BY <1>5
    <3>2. (n - j) + 1 = i
      BY <3>1
    <3> QED
      BY <1>5, <3>2
  <2>3. DOMAIN r = 1 .. n
    BY <1>5
  <2>4. ASSUME NEW q \in S
        PROVE  q \in ToSet(r)
    <3>1. PICK i \in 1 .. n : q = s[i]
      BY <2>1
    <3>2. PICK j \in 1 .. n : s[i] = r[j]
      BY <2>2
    <3> QED
      BY <2>3, <3>1, <3>2 DEF ToSet
  <2>5. \A q \in ToSet(r) : q \in S
    BY <1>5 DEF ToSet
  <2> QED
    BY <2>4, <2>5
<1>10. PICK low : low = Chain(s)
  OBVIOUS
<1>11. PICK up : up = Chain(r)
  OBVIOUS
<1>12. /\ low \in Seq(S) /\ low \in Seq(Plane) /\ Climbs(1, low)
       /\ Len(low) \in Nat /\ Len(low) >= 2 /\ low[1] = s[1] /\ low[Len(low)] = s[n]
       /\ \A q \in S : Spans(1, low, q) /\ LeftOfAll(low, q)
  BY <1>2, <1>3, <1>7, <1>10, ChainHas
<1>13. /\ up \in Seq(S) /\ up \in Seq(Plane) /\ Climbs(-1, up)
       /\ Len(up) \in Nat /\ Len(up) >= 2 /\ up[1] = r[1] /\ up[Len(up)] = r[n]
       /\ \A q \in S : Spans(-1, up, q) /\ LeftOfAll(up, q)
  BY <1>3, <1>5, <1>8, <1>9, <1>11, ChainHas
<1>14. r[1] = s[n] /\ r[n] = s[1]
  <2>1. 1 \in 1 .. n /\ n \in 1 .. n /\ (n - 1) + 1 = n /\ (n - n) + 1 = 1
    BY <1>3
  <2> QED
    BY <1>5, <2>1
<1>15. PICK a \in Nat : a = Len(low) /\ a >= 2
  BY <1>12
<1>16. PICK b \in Nat : b = Len(up) /\ b >= 2
  BY <1>13
<1>17. PICK hull \in Seq(S) : hull = Front(low) \o Front(up) /\ LoopOf(hull, (a + b) - 2, low, a, up, b)
  <2>1. low[1] = up[b] /\ low[a] = up[1]
    BY <1>12, <1>13, <1>14, <1>15, <1>16
  <2>2. low \in Seq(S) /\ up \in Seq(S)
    BY <1>12, <1>13
  <2>3. Len(low) = a /\ Len(up) = b /\ a >= 2 /\ b >= 2
    BY <1>15, <1>16
  <2> QED
    BY <2>1, <2>2, <2>3, LoopIs
<1>18. /\ hull \in Seq(S) /\ Len(hull) = (a + b) - 2
       /\ \A i \in 1 .. a : i \in 1 .. Len(hull) /\ hull[i] = low[i]
       /\ \A i \in 1 .. b : \E j \in 1 .. Len(hull) : hull[j] = up[i]
       /\ \A i \in 1 .. Len(hull) :
            \/ \E j \in 1 .. a : j < a /\ hull[i] = low[j] /\ NextOn(hull, i) = low[j + 1]
            \/ \E j \in 1 .. b : j < b /\ hull[i] = up[j] /\ NextOn(hull, i) = up[j + 1]
  BY <1>17 DEF LoopOf
<1>19. hull # <<>> /\ Len(hull) >= 2
  BY <1>15, <1>16, <1>18
<1>20. ConvexHull(S) = hull
  BY <1>1, <1>3, <1>4, <1>10, <1>11, <1>17, <1>19 DEF ConvexHull
<1>21. ASSUME NEW i \in 1 .. Len(hull)
       PROVE  /\ NextOn(hull, i) \in S /\ hull[i] # NextOn(hull, i)
              /\ \A q \in S : Cross(hull[i], NextOn(hull, i), q) >= 0
  <2>1. CASE \E j \in 1 .. a : j < a /\ hull[i] = low[j] /\ NextOn(hull, i) = low[j + 1]
    <3>1. PICK j \in 1 .. a : j < a /\ hull[i] = low[j] /\ NextOn(hull, i) = low[j + 1]
      BY <2>1
    <3>2. j + 1 \in 1 .. a /\ j < j + 1
      BY <3>1
    <3> QED
      BY <1>12, <1>15, <3>1, <3>2 DEF Climbs, LeftOfAll
  <2>2. CASE \E j \in 1 .. b : j < b /\ hull[i] = up[j] /\ NextOn(hull, i) = up[j + 1]
    <3>1. PICK j \in 1 .. b : j < b /\ hull[i] = up[j] /\ NextOn(hull, i) = up[j + 1]
      BY <2>2
    <3>2. j + 1 \in 1 .. b /\ j < j + 1
      BY <3>1
    <3> QED
      BY <1>13, <1>16, <3>1, <3>2 DEF Climbs, LeftOfAll
  <2> QED
    BY <1>18, <2>1, <2>2
<1>22. ASSUME NEW ex \in Int, NEW ey \in Int, NEW q \in S
       PROVE  \E i \in 1 .. Len(hull) : ex * q[1] + ey * q[2] <= ex * hull[i][1] + ey * hull[i][2]
  <2>1. CASE ey <= 0
    <3>1. 1 * ey <= 0
      BY <2>1
    <3>2. PICK i \in 1 .. a : ex * q[1] + ey * q[2] <= ex * low[i][1] + ey * low[i][2]
      BY <1>12, <1>15, <3>1, SpanReaches
    <3> QED
      BY <1>18, <3>2
  <2>2. CASE ey >= 0
    <3>1. (-1) * ey <= 0
      BY <2>2
    <3>2. PICK i \in 1 .. b : ex * q[1] + ey * q[2] <= ex * up[i][1] + ey * up[i][2]
      BY <1>13, <1>16, <3>1, SpanReaches
    <3>3. PICK j \in 1 .. Len(hull) : hull[j] = up[i]
      BY <1>18
    <3> QED
      BY <3>2, <3>3
  <2> QED
    BY <2>1, <2>2
<1> QED
  BY <1>18, <1>19, <1>20, <1>21, <1>22 DEF HullOf
-----------------------------------------------------------------------------
(* The rectangle around text.                                               *)

LEMMA ExtentIs ==
  ASSUME NEW n \in Nat, NEW row \in [1 .. n + 1 -> Int], NEW T, T = {row[i] : i \in 1 .. n + 1}
  PROVE  /\ \E i \in 1 .. n + 1 : Min(T) = row[i]
         /\ \E i \in 1 .. n + 1 : Max(T) = row[i]
         /\ \A i \in 1 .. n + 1 : Min(T) <= row[i] /\ row[i] <= Max(T)
<1>1. PICK i \in 1 .. n + 1 : \A j \in 1 .. n + 1 : row[j] < row[i] \/ (row[j] = row[i] /\ i <= j)
  BY MaxOfRow
<1>2. row[i] \in T /\ \A x \in T : row[i] >= x
  BY <1>1
<1>3. Max(T) \in T /\ \A x \in T : Max(T) >= x
  BY <1>2 DEF Max
<1>4. PICK neg : neg = [j \in 1 .. n + 1 |-> -row[j]]
  OBVIOUS
<1>5. neg \in [1 .. n + 1 -> Int]
  BY <1>4
<1>6. PICK k \in 1 .. n + 1 : \A j \in 1 .. n + 1 : neg[j] < neg[k] \/ (neg[j] = neg[k] /\ k <= j)
  BY <1>5, MaxOfRow
<1>7. \A j \in 1 .. n + 1 : row[k] <= row[j]
  BY <1>4, <1>6
<1>8. row[k] \in T /\ \A x \in T : row[k] <= x
  BY <1>7
<1>9. Min(T) \in T /\ \A x \in T : Min(T) <= x
  BY <1>8 DEF Min
<1> QED
  BY <1>3, <1>9

\* How far p lies along and across direction e from o.
Dot(o, e, p) == (p[1] - o[1]) * e[1] + (p[2] - o[2]) * e[2]
Off(o, e, p) == (p[2] - o[2]) * e[1] - (p[1] - o[1]) * e[2]

LEMMA DotIs ==
  ASSUME NEW o \in Plane, NEW e \in Plane, NEW p \in Plane
  PROVE  Dot(o, e, p) \in Int /\ Off(o, e, p) \in Int
<1> USE DEF Plane
<1>1. PICK x \in Int, y \in Int : x = p[1] - o[1] /\ y = p[2] - o[2]
  OBVIOUS
<1>2. PICK v \in Int, w \in Int : v = e[1] /\ w = e[2]
  OBVIOUS
<1>3. x * v \in Int /\ y * w \in Int /\ y * v \in Int /\ x * w \in Int
  BY Products
<1> QED
  BY <1>1, <1>2, <1>3 DEF Dot, Off

\* The extents of a rectangle are those of two points each, and between them
\* are all others.
Fits(r, o, e, P) ==
  /\ r.o = o /\ r.e = e
  /\ \A p \in Plane : Along(r, p) = Dot(o, e, p) /\ Across(r, p) = Off(o, e, p)
  /\ \E p, q \in P :
       /\ r.u[1] = Dot(o, e, p) /\ r.u[2] = Dot(o, e, q)
       /\ \A x \in P : Dot(o, e, p) <= Dot(o, e, x) /\ Dot(o, e, x) <= Dot(o, e, q)
  /\ \E p, q \in P :
       /\ r.v[1] = Off(o, e, p) /\ r.v[2] = Off(o, e, q)
       /\ \A x \in P : Off(o, e, p) <= Off(o, e, x) /\ Off(o, e, x) <= Off(o, e, q)

LEMMA RectFits ==
  ASSUME NEW h \in Seq(Plane), Len(h) >= 1, NEW P, P = ToSet(h),
         NEW o \in Plane, NEW e \in Plane, NEW r, r = RectAlong(P, o, e)
  PROVE  Fits(r, o, e, P)
<1> USE DEF Plane
<1>1. PICK n \in Nat : Len(h) = n + 1
  <2>1. Len(h) - 1 \in Nat /\ Len(h) = (Len(h) - 1) + 1
    OBVIOUS
  <2> QED
    BY <2>1
<1>2. /\ \A i \in 1 .. n + 1 : h[i] \in P /\ h[i] \in Plane
      /\ \A x \in P : \E i \in 1 .. n + 1 : x = h[i]
  <2>1. DOMAIN h = 1 .. n + 1 /\ \A i \in 1 .. n + 1 : h[i] \in Plane
    BY <1>1
  <2>2. P = {h[i] : i \in 1 .. n + 1}
    BY <2>1 DEF ToSet
  <2> QED
    BY <2>1, <2>2
<1>3. PICK us : us = {Dot(o, e, p) : p \in P}
  OBVIOUS
<1>4. PICK vs : vs = {Off(o, e, p) : p \in P}
  OBVIOUS
<1>5. r = [o |-> o, e |-> e, u |-> <<Min(us), Max(us)>>, v |-> <<Min(vs), Max(vs)>>]
  <2>1. PICK x : x = [o |-> o, e |-> e]
    OBVIOUS
  <2>2. \A p : Along(x, p) = Dot(o, e, p) /\ Across(x, p) = Off(o, e, p)
    BY <2>1 DEF Along, Across, Dot, Off
  <2>3. us = {Along(x, p) : p \in P} /\ vs = {Across(x, p) : p \in P}
    BY <1>3, <1>4, <2>2
  <2>4. r = [o |-> o, e |-> e,
             u |-> <<Min({Along(x, p) : p \in P}), Max({Along(x, p) : p \in P})>>,
             v |-> <<Min({Across(x, p) : p \in P}), Max({Across(x, p) : p \in P})>>]
    BY <2>1 DEF RectAlong
  <2> QED
    BY <2>3, <2>4
<1>6. r.o = o /\ r.e = e /\ r.u = <<Min(us), Max(us)>> /\ r.v = <<Min(vs), Max(vs)>>
  BY <1>5
<1>7. \A p \in Plane : Along(r, p) = Dot(o, e, p) /\ Across(r, p) = Off(o, e, p)
  BY <1>6 DEF Along, Across, Dot, Off
<1>8. \E p, q \in P :
        /\ r.u[1] = Dot(o, e, p) /\ r.u[2] = Dot(o, e, q)
        /\ \A x \in P : Dot(o, e, p) <= Dot(o, e, x) /\ Dot(o, e, x) <= Dot(o, e, q)
  <2>1. PICK row : row = [i \in 1 .. n + 1 |-> Dot(o, e, h[i])]
    OBVIOUS
  <2>2. row \in [1 .. n + 1 -> Int]
    BY <1>2, <2>1, DotIs
  <2>3. us = {row[i] : i \in 1 .. n + 1}
    BY <1>2, <1>3, <2>1, SMTT(30)
  <2>4. /\ \E i \in 1 .. n + 1 : Min(us) = row[i]
        /\ \E i \in 1 .. n + 1 : Max(us) = row[i]
        /\ \A i \in 1 .. n + 1 : Min(us) <= row[i] /\ row[i] <= Max(us)
    BY <2>2, <2>3, ExtentIs, ZenonT(30)
  <2>5. PICK i \in 1 .. n + 1, j \in 1 .. n + 1 : Min(us) = Dot(o, e, h[i]) /\ Max(us) = Dot(o, e, h[j])
    BY <2>1, <2>4
  <2>6. \A x \in P : Min(us) <= Dot(o, e, x) /\ Dot(o, e, x) <= Max(us)
    BY <1>2, <2>1, <2>4
  <2>7. r.u[1] = Min(us) /\ r.u[2] = Max(us)
    BY <1>6
  <2>8. h[i] \in P /\ h[j] \in P
    BY <1>2
  <2> HIDE DEF Plane
  <2> QED
    BY <2>5, <2>6, <2>7, <2>8
<1>9. \E p, q \in P :
        /\ r.v[1] = Off(o, e, p) /\ r.v[2] = Off(o, e, q)
        /\ \A x \in P : Off(o, e, p) <= Off(o, e, x) /\ Off(o, e, x) <= Off(o, e, q)
  <2>1. PICK row : row = [i \in 1 .. n + 1 |-> Off(o, e, h[i])]
    OBVIOUS
  <2>2. row \in [1 .. n + 1 -> Int]
    BY <1>2, <2>1, DotIs
  <2>3. vs = {row[i] : i \in 1 .. n + 1}
    BY <1>2, <1>4, <2>1, SMTT(60)
  <2>4. /\ \E i \in 1 .. n + 1 : Min(vs) = row[i]
        /\ \E i \in 1 .. n + 1 : Max(vs) = row[i]
        /\ \A i \in 1 .. n + 1 : Min(vs) <= row[i] /\ row[i] <= Max(vs)
    BY <2>2, <2>3, ExtentIs, ZenonT(30)
  <2>5. PICK i \in 1 .. n + 1, j \in 1 .. n + 1 : Min(vs) = Off(o, e, h[i]) /\ Max(vs) = Off(o, e, h[j])
    BY <2>1, <2>4
  <2>6. \A x \in P : Min(vs) <= Off(o, e, x) /\ Off(o, e, x) <= Max(vs)
    BY <1>2, <2>1, <2>4
  <2>7. r.v[1] = Min(vs) /\ r.v[2] = Max(vs)
    BY <1>6
  <2>8. h[i] \in P /\ h[j] \in P
    BY <1>2
  <2> HIDE DEF Plane
  <2> QED
    BY <2>5, <2>6, <2>7, <2>8
<1> QED
  BY <1>6, <1>7, <1>8, <1>9 DEF Fits

\* The least of finitely many fractions, and the first of them.
LEMMA FractionsOrder ==
  ASSUME NEW a \in Int, NEW b \in Int, NEW c \in Int, NEW x \in Int, NEW y \in Int, NEW z \in Int,
         x > 0, y > 0, z > 0
  PROVE  /\ a * y < b * x /\ b * z <= c * y => a * z < c * x
         /\ a * y <= b * x /\ b * z <= c * y => a * z <= c * x
<1>1. PICK k \in Int : k = c * x - a * z
  BY Products
<1>2. PICK m \in Int : m = c * y - b * z
  BY Products
<1>3. PICK l \in Int : l = b * x - a * y
  BY Products
<1>4. y * k = x * m + z * l
  BY <1>1, <1>2, <1>3
<1>5. a * y \in Int /\ b * x \in Int /\ b * z \in Int /\ c * y \in Int /\ a * z \in Int /\ c * x \in Int
      /\ x * m \in Int /\ z * l \in Int /\ y * k \in Int
  BY Products
<1>6. m >= 0 => x * m >= 0
  BY Products
<1>7. /\ l > 0 => z * l > 0
      /\ l >= 0 => z * l >= 0
  BY Products
<1>8. /\ m >= 0 /\ l > 0 => k > 0
  <2> SUFFICES ASSUME m >= 0, l > 0
               PROVE  k > 0
    OBVIOUS
  <2>1. y * k > 0
    BY <1>4, <1>5, <1>6, <1>7
  <2>2. k >= 0 /\ k # 0
    BY <2>1, Products
  <2> QED
    BY <2>2
<1>9. m >= 0 /\ l >= 0 => k >= 0
  <2> SUFFICES ASSUME m >= 0, l >= 0
               PROVE  k >= 0
    OBVIOUS
  <2>1. y * k >= 0
    BY <1>4, <1>5, <1>6, <1>7
  <2> QED
    BY <2>1, Products
<1> QED
  BY <1>1, <1>2, <1>3, <1>5, <1>8, <1>9

LEMMA LeastFraction ==
  ASSUME NEW n \in Nat, NEW num \in [1 .. n + 1 -> Int], NEW den \in [1 .. n + 1 -> Int],
         \A i \in 1 .. n + 1 : den[i] > 0
  PROVE  \E i \in 1 .. n + 1 : \A j \in 1 .. n + 1 :
           IF j < i THEN num[i] * den[j] < num[j] * den[i] ELSE num[i] * den[j] <= num[j] * den[i]
<1> DEFINE Best(i, k) ==
             \A j \in 1 .. k :
               IF j < i THEN num[i] * den[j] < num[j] * den[i] ELSE num[i] * den[j] <= num[j] * den[i]
           D == {k \in Nat : \E i \in 1 .. k + 1 : Best(i, k + 1)}
<1>1. 0 \in D
  <2>1. 1 \in 1 .. n + 1 /\ \A j \in 1 .. 0 + 1 : j = 1
    OBVIOUS
  <2>2. num[1] * den[1] \in Int
    BY <2>1, Products
  <2>3. Best(1, 0 + 1)
    BY <2>1, <2>2
  <2>4. 1 \in 1 .. 0 + 1
    OBVIOUS
  <2> HIDE DEF Best
  <2> QED
    BY <2>3, <2>4
<1>2. ASSUME NEW k \in Nat, k + 1 <= n, k \in D
      PROVE  k + 1 \in D
  <2>1. PICK i \in 1 .. k + 1 : Best(i, k + 1)
    BY <1>2
  <2>2. PICK top : top = (k + 1) + 1
    OBVIOUS
  <2>3. top \in 1 .. n + 1 /\ i \in 1 .. n + 1 /\ i \in 1 .. top /\ top \in 1 .. top
    BY <1>2, <2>2
  <2>4. \A j \in 1 .. top : j \in 1 .. n + 1 /\ (j = top \/ (j \in 1 .. k + 1 /\ j < top))
    BY <1>2, <2>2
  <2>5. \A j \in 1 .. n + 1 : num[j] \in Int /\ den[j] \in Int /\ den[j] > 0
    OBVIOUS
  <2>6. \A p, q \in 1 .. n + 1 : num[p] * den[q] \in Int
    BY <2>5, Products
  <2>7. CASE num[top] * den[i] < num[i] * den[top]
    <3>1. Best(top, top)
      <4> SUFFICES ASSUME NEW j \in 1 .. top
                   PROVE  IF j < top THEN num[top] * den[j] < num[j] * den[top]
                          ELSE num[top] * den[j] <= num[j] * den[top]
        OBVIOUS
      <4>1. CASE j = top
        BY <2>3, <2>6, <4>1
      <4>2. CASE j \in 1 .. k + 1 /\ j < top
        <5>1. num[i] * den[j] <= num[j] * den[i]
          <6>1. i \in 1 .. n + 1 /\ j \in 1 .. n + 1
            BY <2>3, <2>4
          <6>2. num[i] * den[j] \in Int /\ num[j] * den[i] \in Int
            BY <2>6, <6>1
          <6> QED
            BY <2>1, <4>2, <6>2
        <5>2. num[top] * den[j] < num[j] * den[top]
          BY <2>3, <2>4, <2>5, <2>7, <5>1, FractionsOrder
        <5> QED
          BY <4>2, <5>2
      <4> QED
        BY <2>4, <4>1, <4>2
    <3> HIDE DEF Best
    <3> QED
      BY <2>2, <2>3, <3>1
  <2>8. CASE ~(num[top] * den[i] < num[i] * den[top])
    <3>1. Best(i, top)
      <4> SUFFICES ASSUME NEW j \in 1 .. top
                   PROVE  IF j < i THEN num[i] * den[j] < num[j] * den[i]
                          ELSE num[i] * den[j] <= num[j] * den[i]
        OBVIOUS
      <4>1. CASE j = top
        <5>1. ~(top < i)
          BY <2>2, i <= k + 1, k + 1 \in Int
        <5> QED
          <6>1. num[top] * den[i] \in Int /\ num[i] * den[top] \in Int
            BY <2>3, <2>6
          <6> QED
            BY <2>8, <4>1, <5>1, <6>1
      <4>2. CASE j \in 1 .. k + 1 /\ j < top
        BY <2>1, <4>2
      <4> QED
        BY <2>4, <4>1, <4>2
    <3> HIDE DEF Best
    <3> QED
      BY <2>2, <2>3, <3>1
  <2> QED
    BY <2>7, <2>8
<1>3. n \in D
  <2>1. 0 .. n \subseteq D
    <3> HIDE DEF D
    <3> QED
      BY <1>1, <1>2, IntervalInduction
  <2>2. n \in 0 .. n
    OBVIOUS
  <2> HIDE DEF D
  <2> QED
    BY <2>1, <2>2
<1> QED
  BY <1>3

LEMMA HullPoints ==
  ASSUME NEW S, S \subseteq Plane, NEW hull, HullOf(hull, S)
  PROVE  /\ hull \in Seq(S) /\ hull \in Seq(Plane) /\ Len(hull) \in Nat /\ Len(hull) >= 2
         /\ DOMAIN hull = 1 .. Len(hull)
         /\ \A i \in 1 .. Len(hull) : hull[i] \in S /\ hull[i] \in Plane
         /\ ToSet(hull) \subseteq S
<1>1. hull \in Seq(S) /\ Len(hull) >= 2
  BY DEF HullOf
<1>2. Len(hull) \in Nat /\ DOMAIN hull = 1 .. Len(hull)
      /\ \A i \in 1 .. Len(hull) : hull[i] \in S /\ hull[i] \in Plane
  BY <1>1
<1>3. hull \in Seq(Plane)
  BY <1>1
<1>4. ToSet(hull) \subseteq S
  BY <1>2 DEF ToSet
<1> QED
  BY <1>1, <1>2, <1>3, <1>4

\* From a corner, some edge leads on (d = 1) or back (d = -1), by the vector w.
Leads(S, hull, d, c, i, w) ==
  /\ EdgeOf(hull, i) = <<d * w[1], d * w[2]>>
  /\ w[1] # 0 \/ w[2] # 0
  /\ <<c[1] + w[1], c[2] + w[2]>> \in S
  /\ \A q \in S : d * (w[1] * (q[2] - c[2]) - w[2] * (q[1] - c[1])) >= 0

LEMMA CornerEdges ==
  ASSUME NEW S, S \subseteq Plane, NEW hull, HullOf(hull, S), NEW d \in {-1, 1},
         NEW c \in 1 .. Len(hull)
  PROVE  \E i \in 1 .. Len(hull), w \in Plane : Leads(S, hull, d, hull[c], i, w)
<1> USE DEF Plane
<1>1. /\ hull \in Seq(S) /\ Len(hull) >= 2
      /\ \A i \in 1 .. Len(hull) :
           /\ NextOn(hull, i) \in S /\ hull[i] # NextOn(hull, i)
           /\ \A q \in S : Cross(hull[i], NextOn(hull, i), q) >= 0
  BY DEF HullOf
<1>2. PICK n \in Nat : n = Len(hull) /\ n >= 2
  BY <1>1
<1>3. ASSUME NEW i \in 1 .. n, NEW o \in Plane, NEW a \in Plane,
             o = hull[i], a = NextOn(hull, i)
      PROVE  /\ EdgeOf(hull, i) = <<a[1] - o[1], a[2] - o[2]>>
             /\ a[1] - o[1] # 0 \/ a[2] - o[2] # 0
             /\ \A q \in S : (a[1] - o[1]) * (q[2] - o[2]) - (a[2] - o[2]) * (q[1] - o[1]) >= 0
  <2>1. EdgeOf(hull, i) = <<a[1] - o[1], a[2] - o[2]>>
    BY <1>3 DEF EdgeOf, NextOn
  <2>2. o # a
    BY <1>1, <1>2, <1>3
  <2>3. \A q \in S : Cross(o, a, q) >= 0
    BY <1>1, <1>2, <1>3
  <2> QED
    BY <2>1, <2>2, <2>3 DEF Cross
<1>4. CASE d = 1
  <2>1. PICK o \in Plane, a \in Plane : o = hull[c] /\ a = NextOn(hull, c)
    BY <1>1, SMTT(30)
  <2>2. PICK x \in Int, y \in Int : x = a[1] - o[1] /\ y = a[2] - o[2]
    OBVIOUS
  <2>3. PICK w \in Plane : w[1] = x /\ w[2] = y
    <3>1. <<x, y>> \in Plane
      OBVIOUS
    <3> QED
      BY <3>1
  <2>4. /\ EdgeOf(hull, c) = <<x, y>> /\ (x # 0 \/ y # 0)
        /\ \A q \in S : x * (q[2] - o[2]) - y * (q[1] - o[1]) >= 0
    BY <1>2, <1>3, <2>1, <2>2
  <2>5. 1 * x = x /\ 1 * y = y /\ o[1] + x = a[1] /\ o[2] + y = a[2]
    BY <2>2
  <2>6. <<o[1] + w[1], o[2] + w[2]>> = a
    BY <2>3, <2>5
  <2>7. a \in S
    BY <1>1, <2>1
  <2>8. ASSUME NEW q \in S
        PROVE  d * (w[1] * (q[2] - o[2]) - w[2] * (q[1] - o[1])) >= 0
    <3>1. PICK v \in Int : v = x * (q[2] - o[2]) - y * (q[1] - o[1])
      <4>1. q[2] - o[2] \in Int /\ q[1] - o[1] \in Int
        OBVIOUS
      <4>2. x * (q[2] - o[2]) \in Int /\ y * (q[1] - o[1]) \in Int
        BY <4>1, Products
      <4> QED
        BY <4>2, SMTT(30)
    <3>2. v >= 0 /\ d * v = v
      BY <1>4, <2>4, <3>1
    <3> QED
      BY <2>3, <3>1, <3>2
  <2>9. EdgeOf(hull, c) = <<d * w[1], d * w[2]>>
    BY <1>4, <2>3, <2>4, <2>5
  <2>10. Leads(S, hull, d, hull[c], c, w)
    BY <2>1, <2>3, <2>4, <2>6, <2>7, <2>8, <2>9 DEF Leads
  <2> HIDE DEF Plane
  <2> QED
    BY <2>10
<1>5. CASE d = -1
  <2>1. PICK i \in 1 .. n : NextOn(hull, i) = hull[c]
    <3>1. CASE c = 1
      <4>1. n \in 1 .. n
        BY <1>2
      <4>2. (n % n) + 1 = 1
        BY <4>1, NextIndex
      <4> QED
        BY <1>2, <3>1, <4>1, <4>2 DEF NextOn
    <3>2. CASE c > 1
      <4>1. c - 1 \in 1 .. n /\ c - 1 # n /\ (c - 1) + 1 = c
        BY <1>2, <3>2
      <4>2. ((c - 1) % n) + 1 = c
        BY <4>1, NextIndex
      <4> QED
        BY <1>2, <4>1, <4>2 DEF NextOn
    <3> QED
      BY <3>1, <3>2
  <2>2. PICK o \in Plane, a \in Plane : o = hull[i] /\ a = hull[c]
    BY <1>1, <1>2
  <2>3. PICK x \in Int, y \in Int : x = o[1] - a[1] /\ y = o[2] - a[2]
    OBVIOUS
  <2>4. PICK w \in Plane : w[1] = x /\ w[2] = y
    <3>1. <<x, y>> \in Plane
      OBVIOUS
    <3> QED
      BY <3>1
  <2>5. a[1] - o[1] = -x /\ a[2] - o[2] = -y /\ d * x = -x /\ d * y = -y
    BY <1>5, <2>3, SMTT(30)
  <2>6. /\ EdgeOf(hull, i) = <<-x, -y>> /\ (-x # 0 \/ -y # 0)
        /\ \A q \in S : (-x) * (q[2] - o[2]) - (-y) * (q[1] - o[1]) >= 0
    BY <1>3, <2>1, <2>2, <2>5, ZenonT(30)
  <2>7. <<a[1] + w[1], a[2] + w[2]>> = o
    BY <2>3, <2>4
  <2>8. o \in S
    BY <1>1, <1>2, <2>2
  <2>9. ASSUME NEW q \in S
        PROVE  d * (w[1] * (q[2] - a[2]) - w[2] * (q[1] - a[1])) >= 0
    <3>1. PICK u \in Int, v \in Int : u = q[1] - o[1] /\ v = q[2] - o[2]
      OBVIOUS
    <3>2. q[1] - a[1] = u + x /\ q[2] - a[2] = v + y
      <4>1. \A m1, m2, m3 \in Int : m1 - m2 = (m1 - m3) + (m3 - m2)
        OBVIOUS
      <4>2. q[1] \in Int /\ q[2] \in Int /\ a[1] \in Int /\ a[2] \in Int /\ o[1] \in Int /\ o[2] \in Int
        OBVIOUS
      <4>3. q[1] - a[1] = (q[1] - o[1]) + (o[1] - a[1]) /\ q[2] - a[2] = (q[2] - o[2]) + (o[2] - a[2])
        BY <4>1, <4>2, SMTT(60)
      <4> QED
        BY <2>3, <3>1, <4>3
    <3>3. x * v \in Int /\ y * u \in Int
      BY Products
    <3>4. (-x) * v - (-y) * u >= 0
      BY <2>6, <3>1
    <3>5. (-x) * v - (-y) * u = y * u - x * v
      OBVIOUS
    <3>6. x * (v + y) - y * (u + x) = x * v - y * u
      OBVIOUS
    <3>7. (-1) * (x * v - y * u) = y * u - x * v
      BY <3>3
    <3> QED
      BY <1>5, <2>4, <3>2, <3>4, <3>5, <3>6, <3>7
  <2>10. EdgeOf(hull, i) = <<d * w[1], d * w[2]>>
    BY <2>4, <2>5, <2>6
  <2>11. w[1] # 0 \/ w[2] # 0
    BY <2>4, <2>6
  <2>12. Leads(S, hull, d, hull[c], i, w)
    BY <2>2, <2>7, <2>8, <2>9, <2>10, <2>11 DEF Leads
  <2> HIDE DEF Plane
  <2> QED
    BY <1>2, <2>12
<1> QED
  BY <1>4, <1>5

\* The four sides of a box, by the direction f along each: how far vector v
\* leads along it, turning with d, and how far inside.
BoxSides == {<<1, 0>>, <<0, 1>>, <<-1, 0>>, <<0, -1>>}
AlongSide(f, d, x, y) == d * (f[1] * x + f[2] * y)
InsideSide(f, x, y) == f[1] * y - f[2] * x

\* One of the four directions at right angles to, or along, <<x, y>>.
Quarter(e, x, y) == e \in {<<x, y>>, <<-x, -y>>, <<-y, x>>, <<y, -x>>}

\* The corner c on side f of the box around S: <<x, y>> is the way to the next
\* corner, and <<X, Y>> the same to within right angles, in the first quarter.
Corner(S, c, f, d, x, y, X, Y) ==
  /\ x # 0 \/ y # 0
  /\ y >= 0 /\ X > 0 /\ Y >= 0
  /\ \/ x > 0 /\ X = x /\ Y = y
     \/ x <= 0 /\ y > 0 /\ X = y /\ Y = -x
     \/ x < 0 /\ y = 0 /\ X = -x /\ Y = 0
  /\ \A q \in S :
       LET a == AlongSide(f, d, q[1] - c[1], q[2] - c[2])
           h == InsideSide(f, q[1] - c[1], q[2] - c[2])
       IN h >= 0 /\ x * h - y * a >= 0

\* A point that is inside and left of the way to the next corner is left of
\* every direction that turns no more.
LEMMA StaysLeft ==
  ASSUME NEW x \in Int, NEW y \in Int, NEW a \in Int, NEW h \in Int, NEW X \in Int, NEW Y \in Int,
         h >= 0, x * h - y * a >= 0, y >= 0, X > 0, Y >= 0,
         x # 0 \/ y # 0, x > 0 => Y * x <= y * X, x < 0 /\ y = 0 => Y = 0
  PROVE  X * h - Y * a >= 0
<1>1. X * h \in Int /\ Y * a \in Int /\ x * h \in Int /\ y * a \in Int /\ Y * x \in Int /\ y * X \in Int
  BY Products
<1>2. X * h >= 0
  BY Products
<1>3. CASE a <= 0
  <2>1. Y * a <= 0
    BY <1>3, Products
  <2> QED
    BY <1>1, <1>2, <2>1
<1>4. CASE a > 0 /\ x > 0
  <2>1. PICK k \in Int : k = X * h - Y * a
    BY <1>1
  <2>2. PICK m \in Int : m = x * h - y * a
    BY <1>1
  <2>3. PICK l \in Int : l = y * X - Y * x
    BY <1>1
  <2>4. x * k = X * m + a * l
    BY <2>1, <2>2, <2>3
  <2>5. m >= 0 /\ l >= 0
    BY <1>1, <1>4, <2>2, <2>3
  <2>6. X * m >= 0 /\ a * l >= 0 /\ X * m \in Int /\ a * l \in Int
    BY <1>4, <2>5, Products
  <2>7. x * k >= 0
    BY <2>4, <2>6
  <2> QED
    BY <1>4, <2>1, <2>7, Products
<1>5. CASE a > 0 /\ x <= 0 /\ y > 0
  <2>1. h * x <= 0 /\ h * x = x * h
    BY <1>5, Products
  <2>2. y * a > 0
    BY <1>5, Products
  <2> QED
    BY <1>1, <2>1, <2>2
<1>6. CASE a > 0 /\ x < 0 /\ y = 0
  <2>1. Y * a = 0
    BY <1>6
  <2> QED
    BY <1>2, <2>1
<1> QED
  BY <1>3, <1>4, <1>5, <1>6

\* A corner c on side f of the box around S, and the same when the box turns
\* by <<U, V>>: nothing of S is outside.
Inside(S, c, f) == \A q \in S : InsideSide(f, q[1] - c[1], q[2] - c[2]) >= 0
InsideTurned(S, c, f, d, U, V) ==
  \A q \in S : U * InsideSide(f, q[1] - c[1], q[2] - c[2])
                 - V * AlongSide(f, d, q[1] - c[1], q[2] - c[2]) >= 0

CornerMeets(S, hull, c, f, d, i, x, y, X, Y) ==
  Corner(S, c, f, d, x, y, X, Y) /\ Quarter(EdgeOf(hull, i), X, d * Y)

\* What the four sides are.
SideTerms(f, d, p, r) ==
  /\ f = <<1, 0>> => AlongSide(f, d, p, r) = d * p /\ InsideSide(f, p, r) = r
  /\ f = <<0, 1>> => AlongSide(f, d, p, r) = d * r /\ InsideSide(f, p, r) = -p
  /\ f = <<-1, 0>> => AlongSide(f, d, p, r) = d * (-p) /\ InsideSide(f, p, r) = -r
  /\ f = <<0, -1>> => AlongSide(f, d, p, r) = d * (-r) /\ InsideSide(f, p, r) = p

LEMMA SideIs ==
  ASSUME NEW d \in {-1, 1}, NEW p \in Int, NEW r \in Int, NEW f
  PROVE  SideTerms(f, d, p, r)
<1>1. /\ AlongSide(<<1, 0>>, d, p, r) = d * p /\ InsideSide(<<1, 0>>, p, r) = r
      /\ AlongSide(<<0, 1>>, d, p, r) = d * r /\ InsideSide(<<0, 1>>, p, r) = -p
      /\ AlongSide(<<-1, 0>>, d, p, r) = d * (-p) /\ InsideSide(<<-1, 0>>, p, r) = -r
      /\ AlongSide(<<0, -1>>, d, p, r) = d * (-r) /\ InsideSide(<<0, -1>>, p, r) = p
  BY DEF AlongSide, InsideSide
<1> QED
  BY <1>1 DEF SideTerms

SidesAlike(d, v, u, p, r) ==
  /\ (d * v) * r - u * (d * p) = d * (v * r - u * p)
  /\ (d * u) * (-p) - (-v) * (d * r) = d * (v * r - u * p)
  /\ (d * (-v)) * (-r) - (-u) * (d * (-p)) = d * (v * r - u * p)
  /\ (d * (-u)) * p - v * (d * (-r)) = d * (v * r - u * p)

LEMMA SidesTurn ==
  ASSUME NEW d \in {-1, 1}, NEW v \in Int, NEW u \in Int, NEW p \in Int, NEW r \in Int
  PROVE  SidesAlike(d, v, u, p, r)
<1>1. CASE d = 1
  BY <1>1 DEF SidesAlike
<1>2. CASE d = -1
  BY <1>2 DEF SidesAlike
<1> QED
  BY <1>1, <1>2

LEMMA CornerOn ==
  ASSUME NEW S, S \subseteq Plane, NEW hull, HullOf(hull, S), NEW d \in {-1, 1},
         NEW k \in 1 .. Len(hull), NEW c \in Plane, c = hull[k], NEW f \in BoxSides,
         Inside(S, c, f)
  PROVE  \E i \in 1 .. Len(hull), x, y, X, Y \in Int : CornerMeets(S, hull, c, f, d, i, x, y, X, Y)
<1> USE DEF Plane
<1>0. PICK i \in 1 .. Len(hull), w \in Plane : Leads(S, hull, d, c, i, w)
  <2> HIDE DEF Plane
  <2> QED
    BY CornerEdges
<1>1. /\ EdgeOf(hull, i) = <<d * w[1], d * w[2]>>
      /\ w[1] # 0 \/ w[2] # 0
      /\ <<c[1] + w[1], c[2] + w[2]>> \in S
      /\ \A q \in S : d * (w[1] * (q[2] - c[2]) - w[2] * (q[1] - c[1])) >= 0
  BY <1>0 DEF Leads
<1>2. PICK v \in Int, u \in Int : v = w[1] /\ u = w[2]
  OBVIOUS
<1>3. f = <<1, 0>> \/ f = <<0, 1>> \/ f = <<-1, 0>> \/ f = <<0, -1>>
  BY DEF BoxSides
<1>4. d = 1 \/ d = -1
  OBVIOUS
<1>5. \A p, r \in Int : SideTerms(f, d, p, r)
  BY SideIs
<1>5a. SideTerms(f, d, v, u)
  BY <1>5
<1>6. PICK x \in Int : x = AlongSide(f, d, v, u)
  BY <1>3, <1>4, <1>5a DEF SideTerms
<1>7. PICK y \in Int : y = InsideSide(f, v, u)
  BY <1>3, <1>5a DEF SideTerms
<1>8. x # 0 \/ y # 0
  <2>1. v # 0 \/ u # 0
    BY <1>1, <1>2
  <2>2. d * v # 0 \/ d * u # 0
    BY <1>4, <2>1
  <2>3. \/ x = d * v /\ y = u
        \/ x = d * u /\ y = -v
        \/ x = d * (-v) /\ y = -u
        \/ x = d * (-u) /\ y = v
    BY <1>3, <1>5a, <1>6, <1>7 DEF SideTerms
  <2>4. CASE d = 1
    BY <2>1, <2>3, <2>4
  <2>5. CASE d = -1
    BY <2>1, <2>3, <2>5
  <2> QED
    BY <1>4, <2>4, <2>5
<1>9. y >= 0
  <2>1. PICK q \in S : q[1] = c[1] + v /\ q[2] = c[2] + u
    BY <1>1, <1>2
  <2>2. q[1] - c[1] = v /\ q[2] - c[2] = u
    BY <2>1, SMTT(30)
  <2> QED
    BY <1>7, <2>2 DEF Inside
<1>10. ASSUME NEW q \in S
       PROVE  LET a == AlongSide(f, d, q[1] - c[1], q[2] - c[2])
                  h == InsideSide(f, q[1] - c[1], q[2] - c[2])
              IN h >= 0 /\ x * h - y * a >= 0
  <2>1. PICK p \in Int, r \in Int : p = q[1] - c[1] /\ r = q[2] - c[2]
    OBVIOUS
  <2>2. PICK a \in Int, h \in Int : a = AlongSide(f, d, p, r) /\ h = InsideSide(f, p, r)
    <3>1. d * p \in Int /\ d * r \in Int /\ d * (-p) \in Int /\ d * (-r) \in Int
      BY <1>4
    <3>2. InsideSide(f, p, r) \in {r, -p, -r, p}
      BY <1>3, <1>5 DEF SideTerms
    <3>3. AlongSide(f, d, p, r) \in {d * p, d * r, d * (-p), d * (-r)}
      BY <1>3, <1>5 DEF SideTerms
    <3>4. AlongSide(f, d, p, r) \in Int
      BY <3>1, <3>3
    <3>5. InsideSide(f, p, r) \in Int
      BY <3>2
    <3> QED
      BY <3>4, <3>5
  <2>3. h >= 0
    BY <2>1, <2>2 DEF Inside
  <2>4. d * (v * r - u * p) >= 0
    BY <1>1, <1>2, <2>1
  <2>5. x * h - y * a = d * (v * r - u * p)
    <3>0. SidesAlike(d, v, u, p, r)
      BY SidesTurn
    <3>0a. SideTerms(f, d, p, r)
      BY <1>5
    <3>1. CASE f = <<1, 0>>
      <4>1. x = d * v /\ y = u /\ a = d * p /\ h = r
        BY <1>5a, <1>6, <1>7, <2>2, <3>0a, <3>1 DEF SideTerms
      <4>2. (d * v) * r - u * (d * p) = d * (v * r - u * p)
        BY <3>0 DEF SidesAlike
      <4> QED
        BY <4>1, <4>2
    <3>2. CASE f = <<0, 1>>
      <4>1. x = d * u /\ y = -v /\ a = d * r /\ h = -p
        BY <1>5a, <1>6, <1>7, <2>2, <3>0a, <3>2 DEF SideTerms
      <4>2. (d * u) * (-p) - (-v) * (d * r) = d * (v * r - u * p)
        BY <3>0 DEF SidesAlike
      <4> QED
        BY <4>1, <4>2
    <3>3. CASE f = <<-1, 0>>
      <4>1. x = d * (-v) /\ y = -u /\ a = d * (-p) /\ h = -r
        BY <1>5a, <1>6, <1>7, <2>2, <3>0a, <3>3 DEF SideTerms
      <4>2. (d * (-v)) * (-r) - (-u) * (d * (-p)) = d * (v * r - u * p)
        BY <3>0 DEF SidesAlike
      <4> QED
        BY <4>1, <4>2
    <3>4. CASE f = <<0, -1>>
      <4>1. x = d * (-u) /\ y = v /\ a = d * (-r) /\ h = p
        BY <1>5a, <1>6, <1>7, <2>2, <3>0a, <3>4 DEF SideTerms
      <4>2. (d * (-u)) * p - v * (d * (-r)) = d * (v * r - u * p)
        BY <3>0 DEF SidesAlike
      <4> QED
        BY <4>1, <4>2
    <3> QED
      BY <1>3, <3>1, <3>2, <3>3, <3>4
  <2> QED
    BY <2>1, <2>2, <2>3, <2>4, <2>5
<1>11. \E X, Y \in Int :
         /\ X > 0 /\ Y >= 0
         /\ \/ x > 0 /\ X = x /\ Y = y
            \/ x <= 0 /\ y > 0 /\ X = y /\ Y = -x
            \/ x < 0 /\ y = 0 /\ X = -x /\ Y = 0
  <2>1. x > 0 \/ (x <= 0 /\ y > 0) \/ (x < 0 /\ y = 0)
    BY <1>8, <1>9
  <2>2. CASE x > 0
    BY <1>9, <2>2
  <2>3. CASE x <= 0 /\ y > 0
    <3>1. y \in Int /\ -x \in Int /\ -x >= 0
      BY <2>3
    <3> QED
      BY <2>3, <3>1
  <2>4. CASE x < 0 /\ y = 0
    <3>1. -x \in Int /\ -x > 0 /\ 0 \in Int
      BY <2>4
    <3> QED
      BY <2>4, <3>1
  <2> QED
    BY <2>1, <2>2, <2>3, <2>4
<1>12. PICK X \in Int, Y \in Int :
         /\ X > 0 /\ Y >= 0
         /\ \/ x > 0 /\ X = x /\ Y = y
            \/ x <= 0 /\ y > 0 /\ X = y /\ Y = -x
            \/ x < 0 /\ y = 0 /\ X = -x /\ Y = 0
  BY <1>11
<1>13. Corner(S, c, f, d, x, y, X, Y)
  BY <1>8, <1>9, <1>10, <1>12 DEF Corner
<1>14. Quarter(EdgeOf(hull, i), X, d * Y)
  <2>1. PICK g \in Int : g = d * Y
    BY <1>4
  <2>2. PICK e1 \in Int, e2 \in Int : e1 = d * v /\ e2 = d * u
    BY <1>4
  <2>3. EdgeOf(hull, i) = <<e1, e2>>
    BY <1>1, <1>2, <2>2
  <2>4. \/ f = <<1, 0>> /\ x = d * v /\ y = u
        \/ f = <<0, 1>> /\ x = d * u /\ y = -v
        \/ f = <<-1, 0>> /\ x = d * (-v) /\ y = -u
        \/ f = <<0, -1>> /\ x = d * (-u) /\ y = v
    BY <1>3, <1>5a, <1>6, <1>7 DEF SideTerms
  <2>5. \/ e1 = X /\ e2 = g
        \/ e1 = -X /\ e2 = -g
        \/ e1 = -g /\ e2 = X
        \/ e1 = g /\ e2 = -X
    <3>1. CASE d = 1
      BY <1>12, <2>1, <2>2, <2>4, <3>1
    <3>2. CASE d = -1
      BY <1>12, <2>1, <2>2, <2>4, <3>2
    <3> QED
      BY <1>4, <3>1, <3>2
  <2> QED
    BY <2>1, <2>3, <2>5 DEF Quarter
<1>15. CornerMeets(S, hull, c, f, d, i, x, y, X, Y)
  BY <1>13, <1>14 DEF CornerMeets
<1> HIDE DEF Plane
<1> QED
  BY <1>15

\* <<U, V>> turns no more than <<X, Y>>.
Allows(X, Y, U, V) == U > 0 /\ V >= 0 /\ V * X <= Y * U

\* Nothing is outside a corner when the box turns by no more than its corner
\* allows.
LEMMA CornerHolds ==
  ASSUME NEW S, S \subseteq Plane, NEW c \in Plane, NEW f \in BoxSides, NEW d \in {-1, 1},
         NEW x \in Int, NEW y \in Int, NEW X \in Int, NEW Y \in Int,
         Corner(S, c, f, d, x, y, X, Y),
         NEW U \in Int, NEW V \in Int, Allows(X, Y, U, V)
  PROVE  InsideTurned(S, c, f, d, U, V)
<1> SUFFICES ASSUME NEW q \in S
             PROVE  U * InsideSide(f, q[1] - c[1], q[2] - c[2])
                      - V * AlongSide(f, d, q[1] - c[1], q[2] - c[2]) >= 0
  BY DEF InsideTurned
<1>0. U > 0 /\ V >= 0 /\ V * X <= Y * U
  BY DEF Allows
<1> USE DEF Plane
<1>1. PICK p \in Int, r \in Int : p = q[1] - c[1] /\ r = q[2] - c[2]
  OBVIOUS
<1>2. f = <<1, 0>> \/ f = <<0, 1>> \/ f = <<-1, 0>> \/ f = <<0, -1>>
  BY DEF BoxSides
<1>3. PICK h \in Int : h = InsideSide(f, p, r)
  BY <1>2 DEF InsideSide
<1>4. PICK a \in Int : a = AlongSide(f, d, p, r)
  <2>1. d = 1 \/ d = -1
    OBVIOUS
  <2> QED
    BY <1>2, <2>1 DEF AlongSide
<1>5. h >= 0 /\ x * h - y * a >= 0
  BY <1>1, <1>3, <1>4 DEF Corner
<1>6. x > 0 => V * x <= y * U
  BY <1>0 DEF Corner
<1>7. x < 0 /\ y = 0 => V = 0
  <2> SUFFICES ASSUME x < 0, y = 0
               PROVE  V = 0
    OBVIOUS
  <2>1. X = -x /\ Y = 0
    BY DEF Corner
  <2>2. X > 0 /\ V * X <= 0
    BY <1>0, <2>1
  <2>3. X * V <= 0
    BY <2>2
  <2>4. V <= 0
    BY <2>2, <2>3, Products
  <2> QED
    BY <1>0, <2>4
<1>8. (x # 0 \/ y # 0) /\ y >= 0
  BY DEF Corner
<1>9. U * h - V * a >= 0
  BY <1>0, <1>5, <1>6, <1>7, <1>8, StaysLeft
<1> QED
  BY <1>1, <1>3, <1>4, <1>9

\* A corner of the box around S, and a turn that it allows.
CornerAllows(S, c, f, d, x, y, X, Y, U, V) ==
  /\ S \subseteq Plane /\ c \in Plane /\ f \in BoxSides /\ d \in {-1, 1}
  /\ x \in Int /\ y \in Int /\ X \in Int /\ Y \in Int /\ U \in Int /\ V \in Int
  /\ Corner(S, c, f, d, x, y, X, Y) /\ Allows(X, Y, U, V)

LEMMA CornerKeeps ==
  ASSUME NEW S, NEW c, NEW f, NEW d, NEW x, NEW y, NEW X, NEW Y, NEW U, NEW V,
         CornerAllows(S, c, f, d, x, y, X, Y, U, V)
  PROVE  InsideTurned(S, c, f, d, U, V)
BY CornerHolds, ZenonT(60) DEF CornerAllows

LEMMA Squares ==
  ASSUME NEW x \in Int, NEW y \in Int
  PROVE  /\ x * x \in Int /\ x * x >= 0 /\ (x # 0 => x * x > 0)
         /\ (x # 0 \/ y # 0) => x * x + y * y > 0
<1>1. \A z \in Int : z * z \in Int /\ z * z >= 0 /\ (z # 0 => z * z > 0)
  <2> SUFFICES ASSUME NEW z \in Int
               PROVE  z * z \in Int /\ z * z >= 0 /\ (z # 0 => z * z > 0)
    OBVIOUS
  <2>1. CASE z > 0
    BY <2>1, Products
  <2>2. CASE z = 0
    BY <2>2
  <2>3. CASE z < 0
    <3>1. PICK m \in Int : m = -z
      OBVIOUS
    <3>2. z * z = m * m /\ m > 0
      BY <2>3, <3>1
    <3> QED
      BY <3>2, Products
  <2> QED
    BY <2>1, <2>2, <2>3
<1> QED
  BY <1>1

LEMMA SmallerFactors ==
  ASSUME NEW a \in Int, NEW b \in Int, NEW c \in Int, NEW d \in Int,
         0 <= a, a <= c, 0 <= b, b <= d
  PROVE  a * b <= c * d
<1>1. a * (d - b) >= 0 /\ (c - a) * d >= 0
  BY Products
<1>2. a * (d - b) = a * d - a * b /\ (c - a) * d = c * d - a * d
  OBVIOUS
<1>3. a * b \in Int /\ a * d \in Int /\ c * d \in Int
  BY Products
<1> QED
  BY <1>1, <1>2, <1>3

\* Turned box: W and H are the sides of the box along the axes, m and k how
\* far the corners on its sides are from being opposite; turning by <<X, Y>>
\* the way d that shrinks it gives no larger area.
LEMMA TurnedArea ==
  ASSUME NEW W \in Int, NEW H \in Int, NEW k \in Int, NEW m \in Int, NEW X \in Int, NEW Y \in Int,
         NEW d \in {-1, 1}, X > 0, Y >= 0,
         -H <= k, k <= H, -W <= m, m <= W, d * (k * H - m * W) <= 0
  PROVE  (X * W + Y * (d * k)) * (X * H - Y * (d * m)) <= (W * H) * (X * X + Y * Y)
<1>1. PICK j \in Int : j = k * H - m * W
  <2>1. k * H \in Int /\ m * W \in Int
    BY Products
  <2> QED
    BY <2>1
<1>2. PICK area \in Int : area = W * H
  BY Products
<1>3. PICK n \in Int : n = m * k
  BY Products
<1>4. area + n >= 0
  <2>1. W >= 0 /\ H >= 0
    OBVIOUS
  <2>2. CASE k >= 0
    <3>1. (W + m) * k >= 0 /\ W * (H - k) >= 0
      BY <2>1, <2>2, Products
    <3>2. (W + m) * k = W * k + m * k /\ W * (H - k) = W * H - W * k
      OBVIOUS
    <3>3. W * k \in Int
      BY Products
    <3> QED
      BY <1>2, <1>3, <3>1, <3>2, <3>3
  <2>3. CASE k <= 0
    <3>1. (W - m) * (-k) >= 0 /\ W * (H + k) >= 0
      BY <2>1, <2>3, Products
    <3>2. (W - m) * (-k) = m * k - W * k /\ W * (H + k) = W * H + W * k
      OBVIOUS
    <3>3. W * k \in Int
      BY Products
    <3> QED
      BY <1>2, <1>3, <3>1, <3>2, <3>3
  <2> QED
    BY <2>2, <2>3
<1>5. PICK z \in Int : z = X * Y /\ z >= 0
  BY Products
<1>6. PICK xx \in Int, yy \in Int : xx = X * X /\ yy = Y * Y /\ yy >= 0
  BY Squares
<1>7. d * j <= 0 /\ d * j \in Int
  BY <1>1, Products
<1>8. (X * W + Y * (d * k)) * (X * H - Y * (d * m)) = (area * xx + z * (d * j)) - yy * n
  <2>1. CASE d = 1
    <3>1. (X * W + Y * k) * (X * H - Y * m)
            = ((W * H) * (X * X) + (X * Y) * (k * H - m * W)) - (Y * Y) * (m * k)
      OBVIOUS
    <3>2. d * k = k /\ d * m = m /\ d * j = j
      BY <2>1
    <3> QED
      BY <1>1, <1>2, <1>3, <1>5, <1>6, <3>1, <3>2
  <2>2. CASE d = -1
    <3>1. (X * W + Y * (-k)) * (X * H - Y * (-m))
            = ((W * H) * (X * X) + (X * Y) * (-(k * H - m * W))) - (Y * Y) * (m * k)
      OBVIOUS
    <3>2. d * k = -k /\ d * m = -m /\ d * j = -j
      BY <2>2
    <3> QED
      BY <1>1, <1>2, <1>3, <1>5, <1>6, <3>1, <3>2
  <2> QED
    BY <2>1, <2>2
<1>9. z * (d * j) <= 0 /\ z * (d * j) \in Int
  BY <1>5, <1>7, Products
<1>10. yy * (area + n) >= 0
  BY <1>4, <1>6, Products
<1>11. yy * (area + n) = yy * area + yy * n
  OBVIOUS
<1>12. area * (xx + yy) = area * xx + yy * area
  OBVIOUS
<1>13. area * xx \in Int /\ yy * area \in Int /\ yy * n \in Int
  BY Products
<1> QED
  BY <1>2, <1>6, <1>8, <1>9, <1>10, <1>11, <1>12, <1>13

\* From one point to the next, along and across any direction.
Apart(o, e, p, q, x, y) ==
  /\ x = q[1] - p[1] /\ y = q[2] - p[2]
  /\ -x = p[1] - q[1] /\ -y = p[2] - q[2]
  /\ Dot(o, e, q) - Dot(o, e, p) = x * e[1] + y * e[2]
  /\ Off(o, e, q) - Off(o, e, p) = y * e[1] - x * e[2]

LEMMA PointsApart ==
  ASSUME NEW o \in Plane, NEW e \in Plane, NEW p \in Plane, NEW q \in Plane
  PROVE  \E x, y \in Int : Apart(o, e, p, q, x, y)
<1>1. PICK p1 \in Int, p2 \in Int, q1 \in Int, q2 \in Int :
        p1 = p[1] /\ p2 = p[2] /\ q1 = q[1] /\ q2 = q[2]
  BY PlaneIs
<1>2. PICK o1 \in Int, o2 \in Int, e1 \in Int, e2 \in Int :
        o1 = o[1] /\ o2 = o[2] /\ e1 = e[1] /\ e2 = e[2]
  BY PlaneIs
<1>3. PICK x \in Int, y \in Int, px \in Int, py \in Int :
        /\ x = q1 - p1 /\ y = q2 - p2 /\ px = p1 - o1 /\ py = p2 - o2
        /\ -x = p1 - q1 /\ -y = p2 - q2 /\ q1 - o1 = px + x /\ q2 - o2 = py + y
  OBVIOUS
<1>4. /\ ((px + x) * e1 + (py + y) * e2) - (px * e1 + py * e2) = x * e1 + y * e2
      /\ ((py + y) * e1 - (px + x) * e2) - (py * e1 - px * e2) = y * e1 - x * e2
  OBVIOUS
<1>5. Dot(o, e, p) = px * e1 + py * e2 /\ Off(o, e, p) = py * e1 - px * e2
  BY <1>1, <1>2, <1>3 DEF Dot, Off
<1>6. Dot(o, e, q) = (px + x) * e1 + (py + y) * e2 /\ Off(o, e, q) = (py + y) * e1 - (px + x) * e2
  BY <1>1, <1>2, <1>3 DEF Dot, Off
<1>7. Dot(o, e, q) - Dot(o, e, p) = x * e1 + y * e2
  BY <1>4, <1>5, <1>6
<1>8. Off(o, e, q) - Off(o, e, p) = y * e1 - x * e2
  BY <1>4, <1>5, <1>6
<1>9. /\ x = q[1] - p[1] /\ y = q[2] - p[2]
      /\ -x = p[1] - q[1] /\ -y = p[2] - q[2]
  BY <1>1, <1>3
<1>10. Apart(o, e, p, q, x, y)
  BY <1>2, <1>7, <1>8, <1>9 DEF Apart
<1> QED
  BY <1>10

\* What is within A along <<g1, g2>> and within B across it, is so along and
\* across the same or the opposite direction, and the other way about at
\* right angles.
Bounded(g1, g2, x, y, A, B) == g1 * x + g2 * y <= A /\ g1 * y - g2 * x <= B

LEMMA QuarterTurns ==
  ASSUME NEW g1 \in Int, NEW g2 \in Int, NEW x \in Int, NEW y \in Int, NEW A \in Int, NEW B \in Int,
         Bounded(g1, g2, x, y, A, B), Bounded(g1, g2, -x, -y, A, B),
         NEW e1 \in Int, NEW e2 \in Int
  PROVE  /\ (e1 = g1 /\ e2 = g2) \/ (e1 = -g1 /\ e2 = -g2) => Bounded(e1, e2, x, y, A, B)
         /\ (e1 = -g2 /\ e2 = g1) \/ (e1 = g2 /\ e2 = -g1) => Bounded(e1, e2, x, y, B, A)
<1>0. /\ x * e1 = e1 * x /\ y * e2 = e2 * y /\ y * e1 = e1 * y /\ x * e2 = e2 * x
      /\ g1 * x + g2 * y <= A /\ g1 * y - g2 * x <= B
      /\ g1 * (-x) + g2 * (-y) <= A /\ g1 * (-y) - g2 * (-x) <= B
  BY DEF Bounded
<1>1. ASSUME e1 = g1, e2 = g2
      PROVE  e1 * x + e2 * y = g1 * x + g2 * y /\ e1 * y - e2 * x = g1 * y - g2 * x
  BY <1>1
<1>2. ASSUME e1 = -g1, e2 = -g2
      PROVE  e1 * x + e2 * y = g1 * (-x) + g2 * (-y) /\ e1 * y - e2 * x = g1 * (-y) - g2 * (-x)
  BY <1>2
<1>3. ASSUME e1 = -g2, e2 = g1
      PROVE  e1 * x + e2 * y = g1 * y - g2 * x /\ e1 * y - e2 * x = g1 * (-x) + g2 * (-y)
  BY <1>3
<1>4. ASSUME e1 = g2, e2 = -g1
      PROVE  e1 * x + e2 * y = g1 * (-y) - g2 * (-x) /\ e1 * y - e2 * x = g1 * x + g2 * y
  BY <1>4
<1> QED
  BY <1>0, <1>1, <1>2, <1>3, <1>4 DEF Bounded

\* The rectangle on an edge of the hull along <<g1, g2>>, when all points are
\* within A along it and within B across it.
Within(S, g1, g2, A, B) ==
  \A p, q \in S : Bounded(g1, g2, q[1] - p[1], q[2] - p[2], A, B)

LEMMA RectIsWithin ==
  ASSUME NEW S, S \subseteq Plane, NEW hull, HullOf(hull, S), NEW i \in 1 .. Len(hull),
         NEW g1 \in Int, NEW g2 \in Int, Quarter(EdgeOf(hull, i), g1, g2),
         NEW A \in Int, NEW B \in Int, Within(S, g1, g2, A, B)
  PROVE  /\ Width(RectOn(hull, i)) \in Int /\ Height(RectOn(hull, i)) \in Int
         /\ Width(RectOn(hull, i)) * Height(RectOn(hull, i)) <= A * B
         /\ RectOn(hull, i).e = EdgeOf(hull, i)
         /\ Norm2(EdgeOf(hull, i)) = g1 * g1 + g2 * g2
<1>1. hull \in Seq(Plane) /\ Len(hull) >= 2
  BY HullPoints
<1>2. hull[i] \in Plane /\ ToSet(hull) \subseteq S
  BY HullPoints
<1>3. PICK o \in Plane : o = hull[i]
  BY <1>2
<1>4. PICK e \in Plane :
        /\ e = EdgeOf(hull, i)
        /\ \/ e[1] = g1 /\ e[2] = g2
           \/ e[1] = -g1 /\ e[2] = -g2
           \/ e[1] = -g2 /\ e[2] = g1
           \/ e[1] = g2 /\ e[2] = -g1
  BY DEF Quarter, Plane
<1>5. PICK r : r = RectOn(hull, i)
  OBVIOUS
<1>6. Fits(r, o, e, ToSet(hull))
  <2>1. r = RectAlong(ToSet(hull), o, e)
    BY <1>3, <1>4, <1>5 DEF RectOn
  <2> QED
    BY <1>1, <2>1, RectFits
<1> DEFINE Same == (e[1] = g1 /\ e[2] = g2) \/ (e[1] = -g1 /\ e[2] = -g2)
           Turned == (e[1] = -g2 /\ e[2] = g1) \/ (e[1] = g2 /\ e[2] = -g1)
<1>7. ASSUME NEW p \in S, NEW q \in S
      PROVE  /\ Same => Dot(o, e, q) - Dot(o, e, p) <= A /\ Off(o, e, q) - Off(o, e, p) <= B
             /\ Turned => Dot(o, e, q) - Dot(o, e, p) <= B /\ Off(o, e, q) - Off(o, e, p) <= A
  <2>1. p \in Plane /\ q \in Plane
    OBVIOUS
  <2>2. PICK x \in Int, y \in Int : Apart(o, e, p, q, x, y)
    BY <2>1, PointsApart
  <2>3. PICK e1 \in Int, e2 \in Int : e1 = e[1] /\ e2 = e[2]
    BY PlaneIs
  <2>4. Bounded(g1, g2, x, y, A, B)
    BY <2>2 DEF Apart, Within
  <2>5. Bounded(g1, g2, -x, -y, A, B)
    BY <2>2 DEF Apart, Within
  <2>6. /\ (e1 = g1 /\ e2 = g2) \/ (e1 = -g1 /\ e2 = -g2) => Bounded(e1, e2, x, y, A, B)
        /\ (e1 = -g2 /\ e2 = g1) \/ (e1 = g2 /\ e2 = -g1) => Bounded(e1, e2, x, y, B, A)
    <3> HIDE DEF Same, Turned
    <3> QED
      BY <2>4, <2>5, QuarterTurns
  <2>7. /\ Same <=> (e1 = g1 /\ e2 = g2) \/ (e1 = -g1 /\ e2 = -g2)
        /\ Turned <=> (e1 = -g2 /\ e2 = g1) \/ (e1 = g2 /\ e2 = -g1)
    BY <2>3
  <2>8. /\ Dot(o, e, q) - Dot(o, e, p) = x * e1 + y * e2
        /\ Off(o, e, q) - Off(o, e, p) = y * e1 - x * e2
    BY <2>2, <2>3 DEF Apart
  <2>9. x * e1 = e1 * x /\ y * e2 = e2 * y /\ y * e1 = e1 * y /\ x * e2 = e2 * x
    OBVIOUS
  <2> HIDE DEF Same, Turned
  <2> QED
    BY <2>6, <2>7, <2>8, <2>9 DEF Bounded
<1>8. Same \/ Turned
  BY <1>4
<1> HIDE DEF Same, Turned
<1>9. PICK p \in ToSet(hull), q \in ToSet(hull) :
        /\ r.u[1] = Dot(o, e, p) /\ r.u[2] = Dot(o, e, q)
        /\ \A x \in ToSet(hull) : Dot(o, e, p) <= Dot(o, e, x) /\ Dot(o, e, x) <= Dot(o, e, q)
  BY <1>6 DEF Fits
<1>10. PICK s \in ToSet(hull), t \in ToSet(hull) :
        /\ r.v[1] = Off(o, e, s) /\ r.v[2] = Off(o, e, t)
        /\ \A x \in ToSet(hull) : Off(o, e, s) <= Off(o, e, x) /\ Off(o, e, x) <= Off(o, e, t)
  BY <1>6 DEF Fits
<1>11. p \in S /\ q \in S /\ s \in S /\ t \in S
  BY <1>2
<1>20. /\ p \in Plane /\ q \in Plane /\ s \in Plane /\ t \in Plane
  BY <1>11
<1>21. /\ Dot(o, e, p) \in Int /\ Dot(o, e, q) \in Int /\ Off(o, e, s) \in Int /\ Off(o, e, t) \in Int
  BY <1>20, DotIs
<1>12. PICK w \in Int : w = Dot(o, e, q) - Dot(o, e, p)
  BY <1>21
<1>13. PICK h \in Int : h = Off(o, e, t) - Off(o, e, s)
  BY <1>21
<1>14. w >= 0 /\ h >= 0
  BY <1>9, <1>10, <1>12, <1>13, <1>21, SMTT(30)
<1>15. Width(r) = w /\ Height(r) = h
  BY <1>9, <1>10, <1>12, <1>13 DEF Width, Height
<1>16. (w <= A /\ h <= B) \/ (w <= B /\ h <= A)
  BY <1>7, <1>8, <1>11, <1>12, <1>13
<1>17. w * h <= A * B
  <2>1. CASE w <= A /\ h <= B
    BY <1>14, <2>1, SmallerFactors
  <2>2. CASE w <= B /\ h <= A
    <3>1. w * h <= B * A
      BY <1>14, <2>2, SmallerFactors
    <3> QED
      BY <3>1
  <2> QED
    BY <1>16, <2>1, <2>2
<1>18. r.e = e
  BY <1>6 DEF Fits
<1>19. Norm2(e) = g1 * g1 + g2 * g2
  <2>1. PICK e1 \in Int, e2 \in Int : e1 = e[1] /\ e2 = e[2]
    BY PlaneIs
  <2>2. (-g1) * (-g1) = g1 * g1 /\ (-g2) * (-g2) = g2 * g2
    OBVIOUS
  <2>3. g1 * g1 \in Int /\ g2 * g2 \in Int
    BY Products
  <2>4. e1 * e1 + e2 * e2 = g1 * g1 + g2 * g2
    <3>1. \/ e1 * e1 = g1 * g1 /\ e2 * e2 = g2 * g2
          \/ e1 * e1 = g2 * g2 /\ e2 * e2 = g1 * g1
      BY <1>4, <2>1, <2>2
    <3> QED
      BY <2>3, <3>1
  <2> QED
    BY <2>1, <2>4 DEF Norm2
<1> QED
  BY <1>4, <1>5, <1>15, <1>17, <1>18, <1>19

\* The box turns until it meets an edge: that of the corner that allows least.
TurnsTo(S, hull, d, c, f, i, U, V) ==
  /\ U > 0 /\ V >= 0 /\ Quarter(EdgeOf(hull, i), U, d * V)
  /\ \A n \in 1 .. 4 : InsideTurned(S, c[n], f[n], d, U, V)

LEMMA BoxTurns ==
  ASSUME NEW S, S \subseteq Plane, NEW hull, HullOf(hull, S), NEW d \in {-1, 1},
         NEW c \in [1 .. 4 -> Plane], NEW f \in [1 .. 4 -> BoxSides],
         NEW at \in [1 .. 4 -> 1 .. Len(hull)],
         \A n \in 1 .. 4 : c[n] = hull[at[n]] /\ Inside(S, c[n], f[n])
  PROVE  \E i \in 1 .. Len(hull), U, V \in Int : TurnsTo(S, hull, d, c, f, i, U, V)
<1> DEFINE Ok(n, z) ==
             Corner(S, c[n], f[n], d, z[2], z[3], z[4], z[5]) /\ Quarter(EdgeOf(hull, z[1]), z[4], d * z[5])
           Z == (1 .. Len(hull)) \X Int \X Int \X Int \X Int
<1>1. ASSUME NEW n \in 1 .. 4
      PROVE  \E y \in Z : Ok(n, y)
  <2>1. PICK o \in Plane, s \in BoxSides, k \in 1 .. Len(hull) : o = c[n] /\ s = f[n] /\ o = hull[k]
    OBVIOUS
  <2>2. Inside(S, o, s)
    BY <2>1
  <2>3. PICK i \in 1 .. Len(hull), x \in Int, y \in Int, X \in Int, Y \in Int :
          CornerMeets(S, hull, o, s, d, i, x, y, X, Y)
    <3> HIDE DEF Ok, Z
    <3> QED
      BY <2>1, <2>2, CornerOn
  <2>4. PICK v : v = <<i, x, y, X, Y>>
    OBVIOUS
  <2>5. v \in Z /\ v[1] = i /\ v[2] = x /\ v[3] = y /\ v[4] = X /\ v[5] = Y
    BY <2>4
  <2>6. Ok(n, v)
    BY <2>1, <2>3, <2>5 DEF CornerMeets
  <2> HIDE DEF Ok, Z
  <2> QED
    BY <2>5, <2>6
<1>2. PICK z : z = [n \in 1 .. 4 |-> CHOOSE y \in Z : Ok(n, y)]
  OBVIOUS
<1>3. \A n \in 1 .. 4 : z[n] \in Z /\ Ok(n, z[n])
  <2> HIDE DEF Ok, Z
  <2> QED
    BY <1>1, <1>2
<1>4. ASSUME NEW n \in 1 .. 4
      PROVE  /\ z[n][1] \in 1 .. Len(hull) /\ z[n][2] \in Int /\ z[n][3] \in Int
             /\ z[n][4] \in Int /\ z[n][5] \in Int
  <2>1. z[n] \in Z
    BY <1>3
  <2> HIDE DEF Ok
  <2> QED
    BY <2>1
<1>5. ASSUME NEW n \in 1 .. 4
      PROVE  /\ Corner(S, c[n], f[n], d, z[n][2], z[n][3], z[n][4], z[n][5])
             /\ Quarter(EdgeOf(hull, z[n][1]), z[n][4], d * z[n][5])
  BY <1>3
<1> HIDE DEF Ok, Z
<1>6. PICK num : num = [n \in 1 .. 3 + 1 |-> z[n][5]]
  OBVIOUS
<1>7. PICK den : den = [n \in 1 .. 3 + 1 |-> z[n][4]]
  OBVIOUS
<1>8. 3 + 1 = 4 /\ 3 \in Nat
  OBVIOUS
<1>9. /\ num \in [1 .. 3 + 1 -> Int] /\ den \in [1 .. 3 + 1 -> Int]
      /\ \A n \in 1 .. 4 : num[n] = z[n][5] /\ den[n] = z[n][4]
  BY <1>4, <1>6, <1>7, <1>8
<1>10. \A n \in 1 .. 4 : den[n] > 0 /\ num[n] >= 0
  <2>1. \A n \in 1 .. 4 : z[n][4] > 0 /\ z[n][5] >= 0
    BY <1>5 DEF Corner
  <2> QED
    BY <1>9, <2>1
<1>11. PICK e \in 1 .. 4 : \A j \in 1 .. 4 : num[e] * den[j] <= num[j] * den[e]
  <2>1. \A i \in 1 .. 3 + 1 : den[i] > 0
    BY <1>8, <1>10
  <2>2. PICK e \in 1 .. 3 + 1 : \A j \in 1 .. 3 + 1 :
          IF j < e THEN num[e] * den[j] < num[j] * den[e] ELSE num[e] * den[j] <= num[j] * den[e]
    BY <1>8, <1>9, <2>1, LeastFraction
  <2>3. \A n \in 1 .. 4 : num[n] \in Int /\ den[n] \in Int
    BY <1>8, <1>9
  <2>4. \A n, j \in 1 .. 4 : num[n] * den[j] \in Int
    BY <2>3, Products
  <2>5. ASSUME NEW j \in 1 .. 4
        PROVE  num[e] * den[j] <= num[j] * den[e]
    <3>1. PICK a \in Int, b \in Int : a = num[e] * den[j] /\ b = num[j] * den[e]
      BY <1>8, <2>4
    <3>2. IF j < e THEN a < b ELSE a <= b
      BY <1>8, <2>2, <3>1
    <3>3. a <= b
      BY <3>2
    <3> QED
      BY <3>1, <3>3
  <2> QED
    BY <1>8, <2>5
<1>12. PICK U \in Int, V \in Int : U = den[e] /\ V = num[e]
  BY <1>8, <1>9
<1>13. U > 0 /\ V >= 0
  BY <1>10, <1>12
<1>14. PICK i \in 1 .. Len(hull) : i = z[e][1]
  BY <1>4
<1>15. Quarter(EdgeOf(hull, i), U, d * V)
  BY <1>5, <1>9, <1>12, <1>14
<1>16. ASSUME NEW n \in 1 .. 4
       PROVE  InsideTurned(S, c[n], f[n], d, U, V)
  <2>1. PICK x \in Int, y \in Int, X \in Int, Y \in Int :
          x = z[n][2] /\ y = z[n][3] /\ X = z[n][4] /\ Y = z[n][5]
    BY <1>4
  <2>2. Corner(S, c[n], f[n], d, x, y, X, Y)
    BY <1>5, <2>1
  <2>3. V * X <= Y * U
    BY <1>9, <1>11, <1>12, <2>1
  <2>4. PICK o \in Plane, s \in BoxSides : o = c[n] /\ s = f[n]
    OBVIOUS
  <2>5. Corner(S, o, s, d, x, y, X, Y)
    BY <2>2, <2>4
  <2>6. Allows(X, Y, U, V)
    BY <1>13, <2>3 DEF Allows
  <2>7. InsideTurned(S, o, s, d, U, V)
    <3>1. CornerAllows(S, o, s, d, x, y, X, Y, U, V)
      BY <2>5, <2>6 DEF CornerAllows
    <3> QED
      BY <3>1, CornerKeeps
  <2> QED
    BY <2>4, <2>7
<1>17. TurnsTo(S, hull, d, c, f, i, U, V)
  BY <1>13, <1>15, <1>16 DEF TurnsTo
<1> QED
  BY <1>17

\* How far along, and across, the turned axes p is.
Far(U, g, p) == U * p[1] + g * p[2]
High(U, g, p) == U * p[2] - g * p[1]

LEMMA FarHighAre ==
  ASSUME NEW U \in Int, NEW g \in Int, NEW p \in Plane
  PROVE  Far(U, g, p) \in Int /\ High(U, g, p) \in Int
<1>1. PICK x \in Int, y \in Int : x = p[1] /\ y = p[2]
  BY PlaneIs
<1>2. U * x \in Int /\ g * y \in Int /\ U * y \in Int /\ g * x \in Int
  BY Products
<1> QED
  BY <1>1, <1>2 DEF Far, High

\* What the four sides of the turned box say of q.
LEMMA TurnedSides ==
  ASSUME NEW d \in {-1, 1}, NEW U \in Int, NEW V \in Int, NEW g \in Int, g = d * V,
         NEW c \in Plane, NEW q \in Plane, NEW f \in BoxSides,
         U * InsideSide(f, q[1] - c[1], q[2] - c[2])
           - V * AlongSide(f, d, q[1] - c[1], q[2] - c[2]) >= 0
  PROVE  /\ f = <<1, 0>> => High(U, g, c) <= High(U, g, q)
         /\ f = <<0, 1>> => Far(U, g, q) <= Far(U, g, c)
         /\ f = <<-1, 0>> => High(U, g, q) <= High(U, g, c)
         /\ f = <<0, -1>> => Far(U, g, c) <= Far(U, g, q)
<1>1. PICK c1 \in Int, c2 \in Int, q1 \in Int, q2 \in Int :
        c1 = c[1] /\ c2 = c[2] /\ q1 = q[1] /\ q2 = q[2]
  BY PlaneIs
<1>2. PICK x \in Int, y \in Int : x = q1 - c1 /\ y = q2 - c2
  OBVIOUS
<1>3. U * InsideSide(f, x, y) - V * AlongSide(f, d, x, y) >= 0
  BY <1>1, <1>2
<1>4. V * (d * x) = g * x /\ V * (d * y) = g * y /\ V * (d * (-x)) = -(g * x) /\ V * (d * (-y)) = -(g * y)
  BY d = 1 \/ d = -1
<1>5. /\ U * (-x) = -(U * x) /\ U * (-y) = -(U * y)
      /\ U * x \in Int /\ U * y \in Int /\ g * x \in Int /\ g * y \in Int
  BY Products
<1>6. /\ f = <<1, 0>> => InsideSide(f, x, y) = y /\ AlongSide(f, d, x, y) = d * x
      /\ f = <<0, 1>> => InsideSide(f, x, y) = -x /\ AlongSide(f, d, x, y) = d * y
      /\ f = <<-1, 0>> => InsideSide(f, x, y) = -y /\ AlongSide(f, d, x, y) = d * (-x)
      /\ f = <<0, -1>> => InsideSide(f, x, y) = x /\ AlongSide(f, d, x, y) = d * (-y)
  BY DEF InsideSide, AlongSide
<1>7. /\ f = <<1, 0>> => U * y - g * x >= 0
      /\ f = <<0, 1>> => U * x + g * y <= 0
      /\ f = <<-1, 0>> => U * y - g * x <= 0
      /\ f = <<0, -1>> => U * x + g * y >= 0
  <2>1. f = <<1, 0>> => U * y - V * (d * x) >= 0
    BY <1>3, <1>6
  <2>2. f = <<0, 1>> => U * (-x) - V * (d * y) >= 0
    BY <1>3, <1>6
  <2>3. f = <<-1, 0>> => U * (-y) - V * (d * (-x)) >= 0
    BY <1>3, <1>6
  <2>4. f = <<0, -1>> => U * x - V * (d * (-y)) >= 0
    BY <1>3, <1>6
  <2> QED
    BY <1>4, <1>5, <2>1, <2>2, <2>3, <2>4
<1>8. PICK fc \in Int, fq \in Int, hc \in Int, hq \in Int :
        fc = Far(U, g, c) /\ fq = Far(U, g, q) /\ hc = High(U, g, c) /\ hq = High(U, g, q)
  BY FarHighAre
<1>9. U * x + g * y = fq - fc /\ U * y - g * x = hq - hc
  <2>1. /\ U * (q1 - c1) + g * (q2 - c2) = (U * q1 + g * q2) - (U * c1 + g * c2)
        /\ U * (q2 - c2) - g * (q1 - c1) = (U * q2 - g * q1) - (U * c2 - g * c1)
    OBVIOUS
  <2> QED
    BY <1>1, <1>2, <1>8, <2>1 DEF Far, High
<1>10. /\ f = <<1, 0>> => hq - hc >= 0
       /\ f = <<0, 1>> => fq - fc <= 0
       /\ f = <<-1, 0>> => hq - hc <= 0
       /\ f = <<0, -1>> => fq - fc >= 0
  BY <1>7, <1>9
<1>11. /\ hq - hc >= 0 => hc <= hq
       /\ fq - fc <= 0 => fq <= fc
       /\ hq - hc <= 0 => hq <= hc
       /\ fq - fc >= 0 => fc <= fq
  OBVIOUS
<1> QED
  BY <1>8, <1>10, <1>11

\* The corners on the four sides bound the turned box.
LEMMA TurnedBox ==
  ASSUME NEW S, S \subseteq Plane, NEW U \in Int, NEW g \in Int,
         NEW pb \in Plane, NEW pr \in Plane, NEW pt \in Plane, NEW pl \in Plane,
         \A q \in S : /\ High(U, g, pb) <= High(U, g, q) /\ High(U, g, q) <= High(U, g, pt)
                      /\ Far(U, g, pl) <= Far(U, g, q) /\ Far(U, g, q) <= Far(U, g, pr)
  PROVE  Within(S, U, g, Far(U, g, pr) - Far(U, g, pl), High(U, g, pt) - High(U, g, pb))
<1>1. PICK A \in Int, B \in Int :
        A = Far(U, g, pr) - Far(U, g, pl) /\ B = High(U, g, pt) - High(U, g, pb)
  BY FarHighAre
<1>2. ASSUME NEW p \in S, NEW q \in S
      PROVE  Bounded(U, g, q[1] - p[1], q[2] - p[2], A, B)
  <2>1. PICK p1 \in Int, p2 \in Int, q1 \in Int, q2 \in Int :
          p1 = p[1] /\ p2 = p[2] /\ q1 = q[1] /\ q2 = q[2]
    BY PlaneIs
  <2>2. PICK fp \in Int, fq \in Int, hp \in Int, hq \in Int :
          fp = Far(U, g, p) /\ fq = Far(U, g, q) /\ hp = High(U, g, p) /\ hq = High(U, g, q)
    BY FarHighAre
  <2>3. fq - fp <= A /\ hq - hp <= B
    BY <1>1, <2>2, FarHighAre
  <2>4. /\ U * (q1 - p1) + g * (q2 - p2) = (U * q1 + g * q2) - (U * p1 + g * p2)
        /\ U * (q2 - p2) - g * (q1 - p1) = (U * q2 - g * q1) - (U * p2 - g * p1)
    OBVIOUS
  <2>5. U * (q1 - p1) + g * (q2 - p2) = fq - fp /\ U * (q2 - p2) - g * (q1 - p1) = hq - hp
    BY <2>1, <2>2, <2>4 DEF Far, High
  <2>6. Bounded(U, g, q1 - p1, q2 - p2, A, B)
    BY <2>3, <2>5 DEF Bounded
  <2> QED
    BY <2>1, <2>6
<1> QED
  BY <1>1, <1>2 DEF Within

\* The sides of the turned box, from those of the box along the axes.
Offset(a, b, x, y) == x = a[1] - b[1] /\ y = a[2] - b[2]

LEMMA TurnedExtents ==
  ASSUME NEW d \in {-1, 1}, NEW U \in Int, NEW V \in Int, NEW g \in Int, g = d * V,
         NEW a \in Plane, NEW b \in Plane, NEW x \in Int, NEW y \in Int, Offset(a, b, x, y)
  PROVE  /\ Far(U, g, a) - Far(U, g, b) = U * x + V * (d * y)
         /\ High(U, g, a) - High(U, g, b) = U * y - V * (d * x)
<1>1. PICK a1 \in Int, a2 \in Int, b1 \in Int, b2 \in Int :
        a1 = a[1] /\ a2 = a[2] /\ b1 = b[1] /\ b2 = b[2]
  BY PlaneIs
<1>2. /\ (U * a1 + g * a2) - (U * b1 + g * b2) = U * (a1 - b1) + g * (a2 - b2)
      /\ (U * a2 - g * a1) - (U * b2 - g * b1) = U * (a2 - b2) - g * (a1 - b1)
  OBVIOUS
<1>3. V * (d * x) = g * x /\ V * (d * y) = g * y
  BY d = 1 \/ d = -1
<1>4. x = a1 - b1 /\ y = a2 - b2
  BY <1>1 DEF Offset
<1>5. /\ (U * a1 + g * a2) - (U * b1 + g * b2) = U * x + g * y
      /\ (U * a2 - g * a1) - (U * b2 - g * b1) = U * y - g * x
  BY <1>2, <1>4
<1> QED
  BY <1>1, <1>3, <1>5 DEF Far, High

\* Some edge of the hull has a rectangle no larger than the box along the axes.
Encloses(S, pb, pr, pt, pl) ==
  \A q \in S : pl[1] <= q[1] /\ q[1] <= pr[1] /\ pb[2] <= q[2] /\ q[2] <= pt[2]

LEMMA SidesInside ==
  ASSUME NEW S, S \subseteq Plane,
         NEW pb \in Plane, NEW pr \in Plane, NEW pt \in Plane, NEW pl \in Plane,
         Encloses(S, pb, pr, pt, pl)
  PROVE  /\ Inside(S, pb, <<1, 0>>) /\ Inside(S, pr, <<0, 1>>)
         /\ Inside(S, pt, <<-1, 0>>) /\ Inside(S, pl, <<0, -1>>)
<1>1. ASSUME NEW q \in S
      PROVE  /\ InsideSide(<<1, 0>>, q[1] - pb[1], q[2] - pb[2]) >= 0
             /\ InsideSide(<<0, 1>>, q[1] - pr[1], q[2] - pr[2]) >= 0
             /\ InsideSide(<<-1, 0>>, q[1] - pt[1], q[2] - pt[2]) >= 0
             /\ InsideSide(<<0, -1>>, q[1] - pl[1], q[2] - pl[2]) >= 0
  <2>1. PICK x \in Int, y \in Int : x = q[1] /\ y = q[2]
    BY PlaneIs
  <2>2. PICK b1 \in Int, b2 \in Int, r1 \in Int, r2 \in Int :
          b1 = pb[1] /\ b2 = pb[2] /\ r1 = pr[1] /\ r2 = pr[2]
    BY PlaneIs
  <2>3. PICK t1 \in Int, t2 \in Int, l1 \in Int, l2 \in Int :
          t1 = pt[1] /\ t2 = pt[2] /\ l1 = pl[1] /\ l2 = pl[2]
    BY PlaneIs
  <2>4. l1 <= x /\ x <= r1 /\ b2 <= y /\ y <= t2
    BY <2>1, <2>2, <2>3 DEF Encloses
  <2>5. \A v, w \in Int : /\ InsideSide(<<1, 0>>, v, w) = w
                          /\ InsideSide(<<0, 1>>, v, w) = -v
                          /\ InsideSide(<<-1, 0>>, v, w) = -w
                          /\ InsideSide(<<0, -1>>, v, w) = v
    BY DEF InsideSide
  <2>6. /\ InsideSide(<<1, 0>>, x - b1, y - b2) >= 0
        /\ InsideSide(<<0, 1>>, x - r1, y - r2) >= 0
        /\ InsideSide(<<-1, 0>>, x - t1, y - t2) >= 0
        /\ InsideSide(<<0, -1>>, x - l1, y - l2) >= 0
    <3>1. /\ x - b1 \in Int /\ y - b2 \in Int /\ x - r1 \in Int /\ y - r2 \in Int
          /\ x - t1 \in Int /\ y - t2 \in Int /\ x - l1 \in Int /\ y - l2 \in Int
      OBVIOUS
    <3>2. y - b2 >= 0 /\ -(x - r1) >= 0 /\ -(y - t2) >= 0 /\ x - l1 >= 0
      BY <2>4
    <3> QED
      BY <2>5, <3>1, <3>2
  <2> QED
    BY <2>1, <2>2, <2>3, <2>6
<1> QED
  BY <1>1 DEF Inside

CornersAre(hull, pb, pr, pt, pl) ==
  \E b, r, t, l \in 1 .. Len(hull) : pb = hull[b] /\ pr = hull[r] /\ pt = hull[t] /\ pl = hull[l]
SidesAre(pb, pr, pt, pl, W, H) == W = pr[1] - pl[1] /\ H = pt[2] - pb[2]

LEMMA SomeEdgeIsSmall ==
  ASSUME NEW S, S \subseteq Plane, NEW hull, HullOf(hull, S),
         NEW pb \in Plane, NEW pr \in Plane, NEW pt \in Plane, NEW pl \in Plane,
         CornersAre(hull, pb, pr, pt, pl), Encloses(S, pb, pr, pt, pl),
         NEW W \in Int, NEW H \in Int, SidesAre(pb, pr, pt, pl, W, H)
  PROVE  \E i \in 1 .. Len(hull) :
           /\ Width(RectOn(hull, i)) * Height(RectOn(hull, i)) <= (W * H) * Norm2(EdgeOf(hull, i))
           /\ RectOn(hull, i).e = EdgeOf(hull, i)
<1>1. pb \in S /\ pr \in S /\ pt \in S /\ pl \in S
  <2>1. \A i \in 1 .. Len(hull) : hull[i] \in S
    BY HullPoints
  <2> QED
    BY <2>1 DEF CornersAre
<1>2. /\ pb[1] \in Int /\ pb[2] \in Int /\ pr[1] \in Int /\ pr[2] \in Int
      /\ pt[1] \in Int /\ pt[2] \in Int /\ pl[1] \in Int /\ pl[2] \in Int
  BY PlaneIs
<1>3. PICK k \in Int, m \in Int : k = pr[2] - pl[2] /\ m = pt[1] - pb[1]
  <2>1. pr[2] - pl[2] \in Int /\ pt[1] - pb[1] \in Int
    BY <1>2
  <2> QED
    BY <2>1
<1>4. -H <= k /\ k <= H /\ -W <= m /\ m <= W
  <2>1. /\ pb[2] <= pr[2] /\ pr[2] <= pt[2] /\ pb[2] <= pl[2] /\ pl[2] <= pt[2]
        /\ pl[1] <= pt[1] /\ pt[1] <= pr[1] /\ pl[1] <= pb[1] /\ pb[1] <= pr[1]
    BY <1>1 DEF Encloses
  <2>2. W = pr[1] - pl[1] /\ H = pt[2] - pb[2]
    BY DEF SidesAre
  <2> QED
    BY <1>2, <1>3, <2>1, <2>2
<1>5. PICK d \in {-1, 1} : d * (k * H - m * W) <= 0
  <2>1. PICK j \in Int : j = k * H - m * W
    <3>1. k * H \in Int /\ m * W \in Int
      BY Products
    <3> QED
      BY <3>1
  <2>2. 1 * j <= 0 \/ (-1) * j <= 0
    OBVIOUS
  <2> QED
    BY <2>1, <2>2
<1>6. PICK f \in [1 .. 4 -> BoxSides] :
        f[1] = <<1, 0>> /\ f[2] = <<0, 1>> /\ f[3] = <<-1, 0>> /\ f[4] = <<0, -1>>
  <2>1. PICK h : h = <<<<1, 0>>, <<0, 1>>, <<-1, 0>>, <<0, -1>>>>
    OBVIOUS
  <2>2. h \in [1 .. 4 -> BoxSides]
    BY <2>1 DEF BoxSides
  <2> QED
    BY <2>1, <2>2
<1>7. PICK at \in [1 .. 4 -> 1 .. Len(hull)] :
        hull[at[1]] = pb /\ hull[at[2]] = pr /\ hull[at[3]] = pt /\ hull[at[4]] = pl
  <2>1. PICK b \in 1 .. Len(hull), r \in 1 .. Len(hull), t \in 1 .. Len(hull), l \in 1 .. Len(hull) :
          pb = hull[b] /\ pr = hull[r] /\ pt = hull[t] /\ pl = hull[l]
    BY DEF CornersAre
  <2>2. PICK h : h = <<b, r, t, l>>
    OBVIOUS
  <2>3. h \in [1 .. 4 -> 1 .. Len(hull)]
    BY <2>2
  <2> QED
    BY <2>1, <2>2, <2>3
<1>8. PICK c \in [1 .. 4 -> Plane] : c[1] = pb /\ c[2] = pr /\ c[3] = pt /\ c[4] = pl
  <2>1. PICK h : h = <<pb, pr, pt, pl>>
    OBVIOUS
  <2>2. h \in [1 .. 4 -> Plane]
    BY <2>1
  <2> QED
    BY <2>1, <2>2
<1>9. ASSUME NEW n \in 1 .. 4
      PROVE  c[n] = hull[at[n]] /\ Inside(S, c[n], f[n])
  <2>1. n = 1 \/ n = 2 \/ n = 3 \/ n = 4
    OBVIOUS
  <2>2. c[n] = hull[at[n]]
    BY <1>7, <1>8, <2>1
  <2>3. Inside(S, c[n], f[n])
    BY <1>6, <1>8, <2>1, SidesInside, ZenonT(30)
  <2> QED
    BY <2>2, <2>3
<1>10. PICK i \in 1 .. Len(hull), U \in Int, V \in Int : TurnsTo(S, hull, d, c, f, i, U, V)
  BY <1>9, BoxTurns
<1>11. U > 0 /\ V >= 0 /\ Quarter(EdgeOf(hull, i), U, d * V)
  BY <1>10 DEF TurnsTo
<1>12. PICK g \in Int : g = d * V
  BY d = 1 \/ d = -1
<1>13. ASSUME NEW q \in S
       PROVE  /\ High(U, g, pb) <= High(U, g, q) /\ High(U, g, q) <= High(U, g, pt)
              /\ Far(U, g, pl) <= Far(U, g, q) /\ Far(U, g, q) <= Far(U, g, pr)
  <2>1. ASSUME NEW n \in 1 .. 4
        PROVE  U * InsideSide(f[n], q[1] - c[n][1], q[2] - c[n][2])
                 - V * AlongSide(f[n], d, q[1] - c[n][1], q[2] - c[n][2]) >= 0
    BY <1>10 DEF TurnsTo, InsideTurned
  <2>2. ASSUME NEW n \in 1 .. 4
        PROVE  /\ f[n] = <<1, 0>> => High(U, g, c[n]) <= High(U, g, q)
               /\ f[n] = <<0, 1>> => Far(U, g, q) <= Far(U, g, c[n])
               /\ f[n] = <<-1, 0>> => High(U, g, q) <= High(U, g, c[n])
               /\ f[n] = <<0, -1>> => Far(U, g, c[n]) <= Far(U, g, q)
    <3>1. PICK o \in Plane, s \in BoxSides : o = c[n] /\ s = f[n]
      OBVIOUS
    <3>2. U * InsideSide(s, q[1] - o[1], q[2] - o[2]) - V * AlongSide(s, d, q[1] - o[1], q[2] - o[2]) >= 0
      BY <2>1, <3>1
    <3>3. q \in Plane
      OBVIOUS
    <3>4. /\ s = <<1, 0>> => High(U, g, o) <= High(U, g, q)
          /\ s = <<0, 1>> => Far(U, g, q) <= Far(U, g, o)
          /\ s = <<-1, 0>> => High(U, g, q) <= High(U, g, o)
          /\ s = <<0, -1>> => Far(U, g, o) <= Far(U, g, q)
      BY <1>12, <3>2, <3>3, TurnedSides
    <3> QED
      BY <3>1, <3>4
  <2>3. 1 \in 1 .. 4 /\ 2 \in 1 .. 4 /\ 3 \in 1 .. 4 /\ 4 \in 1 .. 4
    OBVIOUS
  <2> QED
    BY <1>6, <1>8, <2>2, <2>3
<1>14. PICK A \in Int : A = Far(U, g, pr) - Far(U, g, pl)
  <2>1. Far(U, g, pr) \in Int /\ Far(U, g, pl) \in Int
    BY FarHighAre
  <2>2. Far(U, g, pr) - Far(U, g, pl) \in Int
    BY <2>1
  <2> QED
    BY <2>2
<1>15. PICK B \in Int : B = High(U, g, pt) - High(U, g, pb)
  <2>1. High(U, g, pt) \in Int /\ High(U, g, pb) \in Int
    BY FarHighAre
  <2>2. High(U, g, pt) - High(U, g, pb) \in Int
    BY <2>1
  <2> QED
    BY <2>2
<1>16. Within(S, U, g, A, B)
  BY <1>13, <1>14, <1>15, TurnedBox
<1>17. Quarter(EdgeOf(hull, i), U, g)
  BY <1>11, <1>12
<1>18. /\ Width(RectOn(hull, i)) \in Int /\ Height(RectOn(hull, i)) \in Int
       /\ Width(RectOn(hull, i)) * Height(RectOn(hull, i)) <= A * B
       /\ RectOn(hull, i).e = EdgeOf(hull, i)
       /\ Norm2(EdgeOf(hull, i)) = U * U + g * g
  BY <1>16, <1>17, RectIsWithin
<1>19. A = U * W + V * (d * k)
  <2>1. Offset(pr, pl, W, k)
    BY <1>3 DEF SidesAre, Offset
  <2>2. Far(U, g, pr) - Far(U, g, pl) = U * W + V * (d * k)
    BY <1>12, <2>1, TurnedExtents, SMTT(60)
  <2> QED
    BY <1>14, <2>2
<1>20. B = U * H - V * (d * m)
  <2>1. Offset(pt, pb, m, H)
    BY <1>3 DEF SidesAre, Offset
  <2>2. High(U, g, pt) - High(U, g, pb) = U * H - V * (d * m)
    BY <1>12, <2>1, TurnedExtents
  <2> QED
    BY <1>15, <2>2
<1>21. g * g = V * V
  <2>1. g = V \/ g = -V
    BY <1>12, d = 1 \/ d = -1
  <2>2. (-V) * (-V) = V * V
    OBVIOUS
  <2> QED
    BY <2>1, <2>2
<1>22. (U * W + V * (d * k)) * (U * H - V * (d * m)) <= (W * H) * (U * U + V * V)
  BY <1>4, <1>5, <1>11, TurnedArea
<1>23. A * B <= (W * H) * (U * U + V * V)
  BY <1>19, <1>20, <1>22
<1>24. PICK area \in Int, ab \in Int, limit \in Int :
         /\ area = Width(RectOn(hull, i)) * Height(RectOn(hull, i))
         /\ ab = A * B /\ limit = (W * H) * (U * U + V * V)
  <2>1. W * H \in Int /\ U * U \in Int /\ V * V \in Int
    BY Products
  <2>2. U * U + V * V \in Int
    BY <2>1
  <2>3. (W * H) * (U * U + V * V) \in Int /\ A * B \in Int
    BY <2>1, <2>2, Products
  <2>4. Width(RectOn(hull, i)) * Height(RectOn(hull, i)) \in Int
    BY <1>18, Products
  <2> QED
    BY <2>3, <2>4
<1>25. area <= ab /\ ab <= limit
  BY <1>18, <1>23, <1>24
<1>26. area <= limit
  BY <1>25
<1>27. Norm2(EdgeOf(hull, i)) = U * U + V * V
  BY <1>18, <1>21
<1>28. limit = (W * H) * Norm2(EdgeOf(hull, i))
  BY <1>24, <1>27
<1> QED
  BY <1>18, <1>24, <1>26, <1>28

LEMMA PixelsAsSeq ==
  ASSUME NEW S, S \subseteq Plane, IsFiniteSet(S), S # {}
  PROVE  /\ Cardinality(S) \in Nat /\ Cardinality(S) >= 1
         /\ \E s \in Seq(Plane) : Len(s) = Cardinality(S) /\ ToSet(s) = S /\ s = InOrder(S, XThenY)
<1> USE DEF Plane
<1>1. PICK s : s = InOrder(S, XThenY) /\ s \in Seq(S) /\ ToSet(s) = S /\ Len(s) = Cardinality(S)
  BY LeftToRightLists
<1>3. Cardinality(S) \in Nat /\ Cardinality(S) # 0
  BY FS_CardinalityType, FS_EmptySet
<1>4. s \in Seq(Plane)
  BY <1>1
<1> QED
  BY <1>1, <1>3, <1>4

\* The hull of a single pixel is that pixel.
LEMMA HullIsLarge ==
  ASSUME NEW S, S \subseteq Plane, IsFiniteSet(S), S # {}, ~(Len(ConvexHull(S)) <= 2)
  PROVE  HullOf(ConvexHull(S), S)
<1>1. PICK s \in Seq(Plane) : Len(s) = Cardinality(S) /\ s = InOrder(S, XThenY)
  BY PixelsAsSeq
<1>2. Cardinality(S) \in Nat /\ Cardinality(S) >= 1
  BY PixelsAsSeq
<1>3. Cardinality(S) # 1
  <2> SUFFICES ASSUME Cardinality(S) = 1
               PROVE  FALSE
    OBVIOUS
  <2>1. Len(s) = 1
    BY <1>1
  <2>2. ConvexHull(S) = s
    BY <1>1, <2>1 DEF ConvexHull
  <2>3. Len(ConvexHull(S)) = 1
    BY <2>1, <2>2
  <2> QED
    BY <2>3
<1>4. Cardinality(S) >= 2
  BY <1>2, <1>3
<1> QED
  BY <1>4, ConvexHullIs

\* The rectangle on an edge of the hull.
GoodEdge(hull, i) ==
  /\ hull[i] \in Plane /\ EdgeOf(hull, i) \in Plane
  /\ Norm2(EdgeOf(hull, i)) \in Int /\ Norm2(EdgeOf(hull, i)) > 0
  /\ Fits(RectOn(hull, i), hull[i], EdgeOf(hull, i), ToSet(hull))
  /\ RectOn(hull, i).e = EdgeOf(hull, i)
  /\ Width(RectOn(hull, i)) * Height(RectOn(hull, i)) \in Int

LEMMA EdgesAreGood ==
  ASSUME NEW S, S \subseteq Plane, NEW hull, HullOf(hull, S), NEW i \in 1 .. Len(hull)
  PROVE  GoodEdge(hull, i)
<1>1. hull \in Seq(Plane) /\ Len(hull) >= 1 /\ hull[i] \in Plane /\ ToSet(hull) \subseteq S
  <2>1. /\ hull \in Seq(Plane) /\ Len(hull) \in Nat /\ Len(hull) >= 2
        /\ hull[i] \in Plane /\ ToSet(hull) \subseteq S
    BY HullPoints
  <2>2. Len(hull) >= 1
    BY <2>1
  <2> QED
    BY <2>1, <2>2
<1>2. NextOn(hull, i) \in S /\ hull[i] # NextOn(hull, i)
  BY DEF HullOf
<1>3. PICK o \in Plane, a \in Plane : o = hull[i] /\ a = NextOn(hull, i) /\ o # a
  BY <1>1, <1>2
<1>4. PICK o1 \in Int, o2 \in Int, a1 \in Int, a2 \in Int :
        o1 = o[1] /\ o2 = o[2] /\ a1 = a[1] /\ a2 = a[2]
  BY PlaneIs
<1>5. PICK x \in Int, y \in Int : x = a1 - o1 /\ y = a2 - o2
  OBVIOUS
<1>6. EdgeOf(hull, i) = <<x, y>>
  BY <1>3, <1>4, <1>5 DEF EdgeOf, NextOn
<1>7. x # 0 \/ y # 0
  <2>1. a1 # o1 \/ a2 # o2
    BY <1>3, <1>4, PlaneIs
  <2> QED
    BY <1>5, <2>1
<1>8. PICK e \in Plane : e = EdgeOf(hull, i) /\ e[1] = x /\ e[2] = y
  BY <1>6 DEF Plane
<1>9. Norm2(e) \in Int /\ Norm2(e) > 0
  <2>1. x * x + y * y > 0
    BY <1>7, Squares
  <2>2. x * x \in Int /\ y * y \in Int
    BY Products
  <2>3. Norm2(e) = x * x + y * y
    BY <1>8 DEF Norm2
  <2> QED
    BY <2>1, <2>2, <2>3
<1>10. PICK r : r = RectOn(hull, i)
  OBVIOUS
<1>11. Fits(r, o, e, ToSet(hull))
  <2>1. r = RectAlong(ToSet(hull), o, e)
    BY <1>3, <1>8, <1>10 DEF RectOn
  <2> QED
    BY <1>1, <2>1, RectFits
<1>12. r.e = e
  BY <1>11 DEF Fits
<1>13. Width(r) \in Int /\ Height(r) \in Int
  <2>1. PICK p \in ToSet(hull), q \in ToSet(hull) : r.u[1] = Dot(o, e, p) /\ r.u[2] = Dot(o, e, q)
    BY <1>11 DEF Fits
  <2>2. PICK s \in ToSet(hull), t \in ToSet(hull) : r.v[1] = Off(o, e, s) /\ r.v[2] = Off(o, e, t)
    BY <1>11 DEF Fits
  <2>3. p \in Plane /\ q \in Plane /\ s \in Plane /\ t \in Plane
    BY <1>1
  <2>4. PICK u1 \in Int, u2 \in Int : u1 = Dot(o, e, p) /\ u2 = Dot(o, e, q)
    BY <2>3, DotIs
  <2>5. PICK v1 \in Int, v2 \in Int : v1 = Off(o, e, s) /\ v2 = Off(o, e, t)
    BY <2>3, DotIs
  <2>6. u2 - u1 \in Int /\ v2 - v1 \in Int
    OBVIOUS
  <2> QED
    BY <2>1, <2>2, <2>4, <2>5, <2>6 DEF Width, Height
<1>14. Width(r) * Height(r) \in Int
  BY <1>13, Products
<1> QED
  BY <1>3, <1>8, <1>9, <1>10, <1>11, <1>12, <1>14 DEF GoodEdge

\* The edge that is chosen exists: none has a smaller rectangle.
Smallest(hull, i) ==
  \A j \in DOMAIN hull :
    IF j < i THEN SmallerArea(RectOn(hull, i), RectOn(hull, j))
    ELSE ~SmallerArea(RectOn(hull, j), RectOn(hull, i))

LEMMA BestEdge ==
  ASSUME NEW S, S \subseteq Plane, NEW hull, HullOf(hull, S)
  PROVE  \E i \in DOMAIN hull : Smallest(hull, i)
<1>1. PICK n \in Nat : n = Len(hull) /\ n >= 1 /\ DOMAIN hull = 1 .. n
  BY HullPoints
<1>2. PICK m \in Nat : n = m + 1
  <2>1. n - 1 \in Nat /\ n = (n - 1) + 1
    BY <1>1
  <2> QED
    BY <2>1
<1>3. ASSUME NEW i \in 1 .. n
      PROVE  /\ Norm2(RectOn(hull, i).e) \in Int /\ Norm2(RectOn(hull, i).e) > 0
             /\ Width(RectOn(hull, i)) * Height(RectOn(hull, i)) \in Int
  <2>1. GoodEdge(hull, i)
    BY <1>1, EdgesAreGood
  <2> QED
    BY <2>1 DEF GoodEdge
<1>4. PICK num : num = [i \in 1 .. n |-> Width(RectOn(hull, i)) * Height(RectOn(hull, i))]
  OBVIOUS
<1>5. PICK den : den = [i \in 1 .. n |-> Norm2(RectOn(hull, i).e)]
  OBVIOUS
<1>6. num \in [1 .. m + 1 -> Int]
  BY <1>2, <1>3, <1>4
<1>7. den \in [1 .. m + 1 -> Int] /\ \A i \in 1 .. m + 1 : den[i] > 0
  BY <1>2, <1>3, <1>5
<1>8. PICK i \in 1 .. m + 1 : \A j \in 1 .. m + 1 :
        IF j < i THEN num[i] * den[j] < num[j] * den[i] ELSE num[i] * den[j] <= num[j] * den[i]
  BY <1>6, <1>7, LeastFraction
<1>9. ASSUME NEW j \in 1 .. n, NEW k \in 1 .. n
      PROVE  SmallerArea(RectOn(hull, j), RectOn(hull, k)) <=> num[j] * den[k] < num[k] * den[j]
  BY <1>4, <1>5 DEF SmallerArea
<1>10. ASSUME NEW j \in 1 .. n
       PROVE  IF j < i THEN SmallerArea(RectOn(hull, i), RectOn(hull, j))
              ELSE ~SmallerArea(RectOn(hull, j), RectOn(hull, i))
  <2>1. num[i] \in Int /\ num[j] \in Int /\ den[i] \in Int /\ den[j] \in Int
    BY <1>2, <1>6, <1>7
  <2>2. PICK a \in Int, b \in Int : a = num[i] * den[j] /\ b = num[j] * den[i]
    <3>1. num[i] * den[j] \in Int /\ num[j] * den[i] \in Int
      BY <2>1, Products
    <3> QED
      BY <3>1
  <2>3. IF j < i THEN a < b ELSE a <= b
    BY <1>2, <1>8, <2>2
  <2>4. /\ SmallerArea(RectOn(hull, i), RectOn(hull, j)) <=> a < b
        /\ SmallerArea(RectOn(hull, j), RectOn(hull, i)) <=> b < a
    BY <1>2, <1>9, <2>2
  <2>5. a <= b => ~(b < a)
    OBVIOUS
  <2> QED
    BY <2>3, <2>4, <2>5
<1>11. Smallest(hull, i)
  BY <1>1, <1>10 DEF Smallest
<1> QED
  BY <1>1, <1>2, <1>11

\* MinAreaRect, when the hull has more than two corners.
LEMMA MinAreaRectIs ==
  ASSUME NEW S, S \subseteq Plane, NEW hull, hull = ConvexHull(S), HullOf(hull, S), ~(Len(hull) <= 2)
  PROVE  \E i \in 1 .. Len(hull) : MinAreaRect(S) = RectOn(hull, i) /\ Smallest(hull, i)
<1>1. DOMAIN hull = 1 .. Len(hull)
  BY HullPoints
<1>2. PICK i : i = CHOOSE j \in DOMAIN hull : Smallest(hull, j)
  OBVIOUS
<1>3. i \in DOMAIN hull /\ Smallest(hull, i)
  BY <1>2, BestEdge
<1>4. MinAreaRect(S) = RectOn(hull, i)
  BY <1>2 DEF MinAreaRect, Smallest
<1> QED
  BY <1>1, <1>3, <1>4

\* Nothing of S is outside the rectangle.
HoldsAll(r, S) ==
  \A p \in S : /\ Along(r, p) \in r.u[1] .. r.u[2]
               /\ Across(r, p) \in r.v[1] .. r.v[2]

LEMMA AxisBoxFits ==
  ASSUME NEW S, S \subseteq Plane, IsFiniteSet(S), S # {}
  PROVE  <<0, 0>> \in Plane /\ <<1, 0>> \in Plane /\ Fits(AxisAlignedBox(S), <<0, 0>>, <<1, 0>>, S)
<1>1. PICK s \in Seq(Plane) : Len(s) = Cardinality(S) /\ ToSet(s) = S
  BY PixelsAsSeq
<1>2. Len(s) >= 1
  BY <1>1, PixelsAsSeq
<1>3. <<0, 0>> \in Plane /\ <<1, 0>> \in Plane
  BY DEF Plane
<1>4. PICK o \in Plane, e \in Plane : o = <<0, 0>> /\ e = <<1, 0>>
  BY <1>3
<1>5. PICK r : r = RectAlong(S, o, e)
  OBVIOUS
<1>6. Fits(r, o, e, S)
  BY <1>1, <1>2, <1>5, RectFits
<1> QED
  BY <1>3, <1>4, <1>5, <1>6 DEF AxisAlignedBox

\* q is at least as far as p in direction <<ex, ey>>.
Farther(ex, ey, p, q) == ex * p[1] + ey * p[2] <= ex * q[1] + ey * q[2]

\* Some corner of the hull is the farthest.
LEMMA Farthest ==
  ASSUME NEW S, S \subseteq Plane, NEW hull, HullOf(hull, S),
         NEW ex \in Int, NEW ey \in Int, NEW q \in S
  PROVE  \E i \in 1 .. Len(hull) : /\ hull[i] \in ToSet(hull) /\ hull[i] \in Plane /\ hull[i] \in S
                                   /\ Farther(ex, ey, q, hull[i])
<1>1. PICK i \in 1 .. Len(hull) : Farther(ex, ey, q, hull[i])
  BY DEF HullOf, Farther
<1>2. DOMAIN hull = 1 .. Len(hull) /\ hull[i] \in S /\ hull[i] \in Plane
  BY HullPoints
<1>3. hull[i] \in ToSet(hull)
  BY <1>2 DEF ToSet
<1> QED
  BY <1>1, <1>2, <1>3

\* Farther along e, and across it, in both directions.
LEMMA FartherAlong ==
  ASSUME NEW o \in Plane, NEW e \in Plane, NEW p \in Plane, NEW q \in Plane,
         NEW e1 \in Int, NEW e2 \in Int, e1 = e[1] /\ e2 = e[2]
  PROVE  /\ Farther(e1, e2, p, q) => Dot(o, e, p) <= Dot(o, e, q)
         /\ Farther(-e1, -e2, p, q) => Dot(o, e, q) <= Dot(o, e, p)
         /\ Farther(-e2, e1, p, q) => Off(o, e, p) <= Off(o, e, q)
         /\ Farther(e2, -e1, p, q) => Off(o, e, q) <= Off(o, e, p)
<1>1. PICK x \in Int, y \in Int : Apart(o, e, p, q, x, y)
  BY PointsApart
<1>2. PICK dp \in Int, dq \in Int : dp = Dot(o, e, p) /\ dq = Dot(o, e, q)
  BY DotIs
<1>3. PICK fp \in Int, fq \in Int : fp = Off(o, e, p) /\ fq = Off(o, e, q)
  BY DotIs
<1>4. PICK p1 \in Int, p2 \in Int, q1 \in Int, q2 \in Int :
        p1 = p[1] /\ p2 = p[2] /\ q1 = q[1] /\ q2 = q[2]
  BY PlaneIs
<1>5. x = q1 - p1 /\ y = q2 - p2
  BY <1>1, <1>4 DEF Apart
<1>6. dq - dp = x * e1 + y * e2 /\ fq - fp = y * e1 - x * e2
  BY <1>1, <1>2, <1>3 DEF Apart
<1>7. /\ (e1 * q1 + e2 * q2) - (e1 * p1 + e2 * p2) = dq - dp
      /\ ((-e1) * p1 + (-e2) * p2) - ((-e1) * q1 + (-e2) * q2) = dq - dp
      /\ ((-e2) * q1 + e1 * q2) - ((-e2) * p1 + e1 * p2) = fq - fp
      /\ (e2 * p1 + (-e1) * p2) - (e2 * q1 + (-e1) * q2) = fq - fp
  BY <1>5, <1>6
<1>8. /\ e1 * q1 + e2 * q2 \in Int /\ e1 * p1 + e2 * p2 \in Int
      /\ (-e1) * q1 + (-e2) * q2 \in Int /\ (-e1) * p1 + (-e2) * p2 \in Int
      /\ (-e2) * q1 + e1 * q2 \in Int /\ (-e2) * p1 + e1 * p2 \in Int
      /\ e2 * q1 + (-e1) * q2 \in Int /\ e2 * p1 + (-e1) * p2 \in Int
  OBVIOUS
<1>9. Farther(e1, e2, p, q) => dp <= dq
  <2>1. Farther(e1, e2, p, q) => e1 * p1 + e2 * p2 <= e1 * q1 + e2 * q2
    BY <1>4 DEF Farther
  <2> QED
    BY <1>7, <1>8, <2>1
<1>10. Farther(-e1, -e2, p, q) => dq <= dp
  <2>1. Farther(-e1, -e2, p, q) => (-e1) * p1 + (-e2) * p2 <= (-e1) * q1 + (-e2) * q2
    BY <1>4 DEF Farther
  <2> QED
    BY <1>7, <1>8, <2>1
<1>11. Farther(-e2, e1, p, q) => fp <= fq
  <2>1. Farther(-e2, e1, p, q) => (-e2) * p1 + e1 * p2 <= (-e2) * q1 + e1 * q2
    BY <1>4 DEF Farther
  <2> QED
    BY <1>7, <1>8, <2>1
<1>12. Farther(e2, -e1, p, q) => fq <= fp
  <2>1. Farther(e2, -e1, p, q) => e2 * p1 + (-e1) * p2 <= e2 * q1 + (-e1) * q2
    BY <1>4 DEF Farther
  <2> QED
    BY <1>7, <1>8, <2>1
<1> QED
  BY <1>2, <1>3, <1>9, <1>10, <1>11, <1>12

\* What fits the corners of the hull of S holds all of S.
LEMMA HullFits ==
  ASSUME NEW S, S \subseteq Plane, NEW hull, HullOf(hull, S), NEW o \in Plane, NEW e \in Plane,
         NEW r, Fits(r, o, e, ToSet(hull))
  PROVE  HoldsAll(r, S)
<1>1. ToSet(hull) \subseteq Plane
  BY HullPoints
<1>2. PICK e1 \in Int, e2 \in Int : e1 = e[1] /\ e2 = e[2]
  BY PlaneIs
<1>3. PICK u \in ToSet(hull), v \in ToSet(hull) :
        /\ r.u[1] = Dot(o, e, u) /\ r.u[2] = Dot(o, e, v)
        /\ \A x \in ToSet(hull) : Dot(o, e, u) <= Dot(o, e, x) /\ Dot(o, e, x) <= Dot(o, e, v)
  BY DEF Fits
<1>4. PICK s \in ToSet(hull), t \in ToSet(hull) :
        /\ r.v[1] = Off(o, e, s) /\ r.v[2] = Off(o, e, t)
        /\ \A x \in ToSet(hull) : Off(o, e, s) <= Off(o, e, x) /\ Off(o, e, x) <= Off(o, e, t)
  BY DEF Fits
<1>5. u \in Plane /\ v \in Plane /\ s \in Plane /\ t \in Plane
  BY <1>1
<1>6. PICK u1 \in Int, u2 \in Int : u1 = Dot(o, e, u) /\ u2 = Dot(o, e, v)
  BY <1>5, DotIs
<1>7. PICK v1 \in Int, v2 \in Int : v1 = Off(o, e, s) /\ v2 = Off(o, e, t)
  BY <1>5, DotIs
<1>8. ASSUME NEW q \in S
      PROVE  /\ Along(r, q) \in r.u[1] .. r.u[2]
             /\ Across(r, q) \in r.v[1] .. r.v[2]
  <2>1. q \in Plane
    OBVIOUS
  <2>2. Along(r, q) = Dot(o, e, q) /\ Across(r, q) = Off(o, e, q)
    BY <2>1 DEF Fits
  <2>3. PICK d \in Int, f \in Int : d = Dot(o, e, q) /\ f = Off(o, e, q)
    BY <2>1, DotIs
  <2>4. -e1 \in Int /\ -e2 \in Int
    OBVIOUS
  <2>5. PICK i \in 1 .. Len(hull) : hull[i] \in ToSet(hull) /\ hull[i] \in Plane /\ Farther(e1, e2, q, hull[i])
    BY Farthest
  <2>6. d <= u2
    <3>1. Dot(o, e, q) <= Dot(o, e, hull[i])
      BY <1>2, <2>1, <2>5, FartherAlong
    <3>2. Dot(o, e, hull[i]) <= u2 /\ Dot(o, e, hull[i]) \in Int
      BY <1>3, <1>6, <2>5, DotIs
    <3> QED
      BY <2>3, <3>1, <3>2
  <2>7. PICK j \in 1 .. Len(hull) : hull[j] \in ToSet(hull) /\ hull[j] \in Plane /\ Farther(-e1, -e2, q, hull[j])
    BY <2>4, Farthest
  <2>8. u1 <= d
    <3>1. Dot(o, e, hull[j]) <= Dot(o, e, q)
      BY <1>2, <2>1, <2>7, FartherAlong
    <3>2. u1 <= Dot(o, e, hull[j]) /\ Dot(o, e, hull[j]) \in Int
      BY <1>3, <1>6, <2>7, DotIs
    <3> QED
      BY <2>3, <3>1, <3>2
  <2>9. PICK k \in 1 .. Len(hull) : hull[k] \in ToSet(hull) /\ hull[k] \in Plane /\ Farther(-e2, e1, q, hull[k])
    BY <2>4, Farthest
  <2>10. f <= v2
    <3>1. Off(o, e, q) <= Off(o, e, hull[k])
      BY <1>2, <2>1, <2>9, FartherAlong
    <3>2. Off(o, e, hull[k]) <= v2 /\ Off(o, e, hull[k]) \in Int
      BY <1>4, <1>7, <2>9, DotIs
    <3> QED
      BY <2>3, <3>1, <3>2
  <2>11. PICK l \in 1 .. Len(hull) : hull[l] \in ToSet(hull) /\ hull[l] \in Plane /\ Farther(e2, -e1, q, hull[l])
    BY <2>4, Farthest
  <2>12. v1 <= f
    <3>1. Off(o, e, hull[l]) <= Off(o, e, q)
      BY <1>2, <2>1, <2>11, FartherAlong
    <3>2. v1 <= Off(o, e, hull[l]) /\ Off(o, e, hull[l]) \in Int
      BY <1>4, <1>7, <2>11, DotIs
    <3> QED
      BY <2>3, <3>1, <3>2
  <2>13. d \in u1 .. u2 /\ f \in v1 .. v2
    BY <2>6, <2>8, <2>10, <2>12
  <2> QED
    BY <1>3, <1>4, <1>6, <1>7, <2>2, <2>3, <2>13
<1> QED
  BY <1>8 DEF HoldsAll

LEMMA PointsFit ==
  ASSUME NEW S, S \subseteq Plane, NEW o \in Plane, NEW e \in Plane, NEW r, Fits(r, o, e, S)
  PROVE  HoldsAll(r, S)
<1>1. PICK u \in S, v \in S :
        /\ r.u[1] = Dot(o, e, u) /\ r.u[2] = Dot(o, e, v)
        /\ \A x \in S : Dot(o, e, u) <= Dot(o, e, x) /\ Dot(o, e, x) <= Dot(o, e, v)
  BY DEF Fits
<1>2. PICK s \in S, t \in S :
        /\ r.v[1] = Off(o, e, s) /\ r.v[2] = Off(o, e, t)
        /\ \A x \in S : Off(o, e, s) <= Off(o, e, x) /\ Off(o, e, x) <= Off(o, e, t)
  BY DEF Fits
<1>3. \A x \in S : Dot(o, e, x) \in Int /\ Off(o, e, x) \in Int
  BY DotIs
<1>4. \A x \in S : Along(r, x) = Dot(o, e, x) /\ Across(r, x) = Off(o, e, x)
  BY DEF Fits
<1> QED
  BY <1>1, <1>2, <1>3, <1>4 DEF HoldsAll

\* All of the text is inside its rectangle.
LEMMA RectHolds ==
  ASSUME NEW S, S \subseteq Plane, IsFiniteSet(S), S # {}
  PROVE  HoldsAll(MinAreaRect(S), S)
<1>1. PICK hull : hull = ConvexHull(S)
  OBVIOUS
<1>2. CASE Len(hull) <= 2
  <2>1. MinAreaRect(S) = AxisAlignedBox(S)
    BY <1>1, <1>2 DEF MinAreaRect
  <2>2. <<0, 0>> \in Plane /\ <<1, 0>> \in Plane /\ Fits(AxisAlignedBox(S), <<0, 0>>, <<1, 0>>, S)
    BY AxisBoxFits
  <2>3. HoldsAll(AxisAlignedBox(S), S)
    BY <2>2, PointsFit
  <2> QED
    BY <2>1, <2>3
<1>3. CASE ~(Len(hull) <= 2)
  <2>1. HullOf(hull, S)
    BY <1>1, <1>3, HullIsLarge
  <2>2. PICK i \in 1 .. Len(hull) : MinAreaRect(S) = RectOn(hull, i)
    BY <1>1, <1>3, <2>1, MinAreaRectIs
  <2>3. GoodEdge(hull, i)
    BY <2>1, EdgesAreGood
  <2>4. HoldsAll(RectOn(hull, i), S)
    BY <2>1, <2>3, HullFits DEF GoodEdge
  <2> QED
    BY <2>2, <2>4
<1> QED
  BY <1>2, <1>3

\* The box along the axes: its sides are between corners of the hull.
LEMMA AxisDots ==
  ASSUME NEW p \in Plane
  PROVE  Dot(<<0, 0>>, <<1, 0>>, p) = p[1] /\ Off(<<0, 0>>, <<1, 0>>, p) = p[2]
<1>1. PICK x \in Int, y \in Int : x = p[1] /\ y = p[2]
  BY PlaneIs
<1>2. /\ (x - 0) * 1 + (y - 0) * 0 = x
      /\ (y - 0) * 1 - (x - 0) * 0 = y
  OBVIOUS
<1>3. <<0, 0>>[1] = 0 /\ <<0, 0>>[2] = 0 /\ <<1, 0>>[1] = 1 /\ <<1, 0>>[2] = 0
  OBVIOUS
<1> QED
  BY <1>1, <1>2, <1>3 DEF Dot, Off

\* The corners of the hull in the four directions of the axes.
Level(pb, pr, pt, pl, z, y, w, x) ==
  pl[1] = x[1] /\ pr[1] = y[1] /\ pb[2] = z[2] /\ pt[2] = w[2]

LEMMA OutermostCorners ==
  ASSUME NEW S, S \subseteq Plane, NEW hull, HullOf(hull, S),
         NEW x \in S, NEW y \in S, NEW z \in S, NEW w \in S, Encloses(S, z, y, w, x)
  PROVE  \E pb, pr, pt, pl \in Plane :
           /\ CornersAre(hull, pb, pr, pt, pl) /\ Encloses(S, pb, pr, pt, pl)
           /\ Level(pb, pr, pt, pl, z, y, w, x)
<1>1. \A q \in S : q[1] \in Int /\ q[2] \in Int
  BY PlaneIs
<1>2. ASSUME NEW p \in S, NEW i \in 1 .. Len(hull), hull[i] \in S
      PROVE  /\ Farther(-1, 0, p, hull[i]) => hull[i][1] <= p[1]
             /\ Farther(1, 0, p, hull[i]) => p[1] <= hull[i][1]
             /\ Farther(0, -1, p, hull[i]) => hull[i][2] <= p[2]
             /\ Farther(0, 1, p, hull[i]) => p[2] <= hull[i][2]
  <2>1. PICK p1 \in Int, p2 \in Int, h1 \in Int, h2 \in Int :
          p1 = p[1] /\ p2 = p[2] /\ h1 = hull[i][1] /\ h2 = hull[i][2]
    BY <1>1, <1>2
  <2>2. /\ (-1) * p1 + 0 * p2 = -p1 /\ (-1) * h1 + 0 * h2 = -h1
        /\ 1 * p1 + 0 * p2 = p1 /\ 1 * h1 + 0 * h2 = h1
        /\ 0 * p1 + (-1) * p2 = -p2 /\ 0 * h1 + (-1) * h2 = -h2
        /\ 0 * p1 + 1 * p2 = p2 /\ 0 * h1 + 1 * h2 = h2
    OBVIOUS
  <2>3. /\ Farther(-1, 0, p, hull[i]) => -p1 <= -h1
        /\ Farther(1, 0, p, hull[i]) => p1 <= h1
        /\ Farther(0, -1, p, hull[i]) => -p2 <= -h2
        /\ Farther(0, 1, p, hull[i]) => p2 <= h2
    BY <2>1, <2>2 DEF Farther
  <2> QED
    BY <2>1, <2>3, SMTT(60)
<1>3. -1 \in Int /\ 0 \in Int /\ 1 \in Int
  OBVIOUS
<1>4. PICK l \in 1 .. Len(hull) : hull[l] \in Plane /\ hull[l] \in S /\ Farther(-1, 0, x, hull[l])
  BY <1>3, Farthest
<1>5. PICK r \in 1 .. Len(hull) : hull[r] \in Plane /\ hull[r] \in S /\ Farther(1, 0, y, hull[r])
  BY <1>3, Farthest
<1>6. PICK b \in 1 .. Len(hull) : hull[b] \in Plane /\ hull[b] \in S /\ Farther(0, -1, z, hull[b])
  BY <1>3, Farthest
<1>7. PICK t \in 1 .. Len(hull) : hull[t] \in Plane /\ hull[t] \in S /\ Farther(0, 1, w, hull[t])
  BY <1>3, Farthest
<1>8. PICK pb \in Plane, pr \in Plane, pt \in Plane, pl \in Plane :
        pb = hull[b] /\ pr = hull[r] /\ pt = hull[t] /\ pl = hull[l]
  BY <1>4, <1>5, <1>6, <1>7
<1>9. pl[1] <= x[1] /\ y[1] <= pr[1] /\ pb[2] <= z[2] /\ w[2] <= pt[2]
  BY <1>2, <1>4, <1>5, <1>6, <1>7, <1>8
<1>10. x[1] <= pl[1] /\ pr[1] <= y[1] /\ z[2] <= pb[2] /\ pt[2] <= w[2]
  BY <1>4, <1>5, <1>6, <1>7, <1>8 DEF Encloses
<1>11. pl[1] = x[1] /\ pr[1] = y[1] /\ pb[2] = z[2] /\ pt[2] = w[2]
  <2>1. \A i, j \in Int : i <= j /\ j <= i => i = j
    OBVIOUS
  <2>2. pl \in S /\ pr \in S /\ pb \in S /\ pt \in S
    BY <1>4, <1>5, <1>6, <1>7, <1>8
  <2> QED
    BY <1>1, <1>9, <1>10, <2>1, <2>2
<1>12. CornersAre(hull, pb, pr, pt, pl)
  BY <1>8 DEF CornersAre
<1>13. Encloses(S, pb, pr, pt, pl)
  BY <1>11 DEF Encloses
<1>14. Level(pb, pr, pt, pl, z, y, w, x)
  BY <1>11 DEF Level
<1> QED
  BY <1>12, <1>13, <1>14

LEMMA AxisBoxIs ==
  ASSUME NEW S, S \subseteq Plane, IsFiniteSet(S), S # {}, NEW hull, HullOf(hull, S)
  PROVE  \E pb, pr, pt, pl \in Plane, W, H \in Int :
           /\ CornersAre(hull, pb, pr, pt, pl) /\ Encloses(S, pb, pr, pt, pl)
           /\ SidesAre(pb, pr, pt, pl, W, H)
           /\ Width(AxisAlignedBox(S)) = W /\ Height(AxisAlignedBox(S)) = H
<1>1. PICK a : a = AxisAlignedBox(S)
  OBVIOUS
<1>2. Fits(a, <<0, 0>>, <<1, 0>>, S)
  BY <1>1, AxisBoxFits
<1>3. \A q \in S : Dot(<<0, 0>>, <<1, 0>>, q) = q[1] /\ Off(<<0, 0>>, <<1, 0>>, q) = q[2]
  BY AxisDots
<1>4. PICK x \in S, y \in S :
        /\ a.u[1] = x[1] /\ a.u[2] = y[1]
        /\ \A q \in S : x[1] <= q[1] /\ q[1] <= y[1]
  <2>1. PICK x \in S, y \in S :
          /\ a.u[1] = Dot(<<0, 0>>, <<1, 0>>, x) /\ a.u[2] = Dot(<<0, 0>>, <<1, 0>>, y)
          /\ \A q \in S : /\ Dot(<<0, 0>>, <<1, 0>>, x) <= Dot(<<0, 0>>, <<1, 0>>, q)
                          /\ Dot(<<0, 0>>, <<1, 0>>, q) <= Dot(<<0, 0>>, <<1, 0>>, y)
    BY <1>2 DEF Fits
  <2> QED
    BY <1>3, <2>1
<1>5. PICK z \in S, w \in S :
        /\ a.v[1] = z[2] /\ a.v[2] = w[2]
        /\ \A q \in S : z[2] <= q[2] /\ q[2] <= w[2]
  <2>1. PICK z \in S, w \in S :
          /\ a.v[1] = Off(<<0, 0>>, <<1, 0>>, z) /\ a.v[2] = Off(<<0, 0>>, <<1, 0>>, w)
          /\ \A q \in S : /\ Off(<<0, 0>>, <<1, 0>>, z) <= Off(<<0, 0>>, <<1, 0>>, q)
                          /\ Off(<<0, 0>>, <<1, 0>>, q) <= Off(<<0, 0>>, <<1, 0>>, w)
    BY <1>2 DEF Fits
  <2> QED
    BY <1>3, <2>1
<1>6. Encloses(S, z, y, w, x)
  BY <1>4, <1>5 DEF Encloses
<1>7. PICK pb \in Plane, pr \in Plane, pt \in Plane, pl \in Plane :
        /\ CornersAre(hull, pb, pr, pt, pl) /\ Encloses(S, pb, pr, pt, pl)
        /\ Level(pb, pr, pt, pl, z, y, w, x)
  BY <1>6, OutermostCorners
<1>8. pr[1] - pl[1] \in Int /\ pt[2] - pb[2] \in Int
  <2>1. pr[1] \in Int /\ pl[1] \in Int /\ pt[2] \in Int /\ pb[2] \in Int
    BY PlaneIs
  <2> QED
    BY <2>1
<1>9. PICK W \in Int, H \in Int : W = pr[1] - pl[1] /\ H = pt[2] - pb[2]
  BY <1>8
<1>10. SidesAre(pb, pr, pt, pl, W, H)
  BY <1>9 DEF SidesAre
<1>11. Width(a) = W /\ Height(a) = H
  BY <1>4, <1>5, <1>7, <1>9 DEF Width, Height, Level
<1> QED
  BY <1>1, <1>7, <1>10, <1>11

\* When some edge has a rectangle no larger than the box along the axes, so
\* has the one whose rectangle is the smallest.
LEMMA SmallestIsSmall ==
  ASSUME NEW S, S \subseteq Plane, NEW hull, HullOf(hull, S),
         NEW i \in 1 .. Len(hull), Smallest(hull, i), NEW j \in 1 .. Len(hull), NEW area \in Int,
         Width(RectOn(hull, j)) * Height(RectOn(hull, j)) <= area * Norm2(EdgeOf(hull, j))
  PROVE  /\ Width(RectOn(hull, i)) * Height(RectOn(hull, i)) \in Int
         /\ Norm2(RectOn(hull, i).e) \in Int
         /\ Width(RectOn(hull, i)) * Height(RectOn(hull, i)) <= area * Norm2(RectOn(hull, i).e)
<1>1. GoodEdge(hull, i) /\ GoodEdge(hull, j)
  BY EdgesAreGood
<1>2. PICK a \in Int, x \in Int :
        /\ a = Width(RectOn(hull, i)) * Height(RectOn(hull, i))
        /\ x = Norm2(RectOn(hull, i).e) /\ x > 0
  BY <1>1 DEF GoodEdge
<1>3. PICK b \in Int, y \in Int :
        /\ b = Width(RectOn(hull, j)) * Height(RectOn(hull, j))
        /\ y = Norm2(RectOn(hull, j).e) /\ y > 0
  BY <1>1 DEF GoodEdge
<1>4. b <= area * y
  BY <1>1, <1>3 DEF GoodEdge
<1>5. j \in DOMAIN hull
  BY HullPoints
<1>6. IF j < i THEN a * y < b * x ELSE ~(b * x < a * y)
  <2>1. IF j < i THEN SmallerArea(RectOn(hull, i), RectOn(hull, j))
        ELSE ~SmallerArea(RectOn(hull, j), RectOn(hull, i))
    BY <1>5 DEF Smallest
  <2>2. SmallerArea(RectOn(hull, i), RectOn(hull, j)) <=> a * y < b * x
    BY <1>2, <1>3 DEF SmallerArea
  <2>3. SmallerArea(RectOn(hull, j), RectOn(hull, i)) <=> b * x < a * y
    BY <1>2, <1>3 DEF SmallerArea
  <2> QED
    BY <2>1, <2>2, <2>3
<1>7. a * y <= b * x
  <2>1. PICK m \in Int, n \in Int : m = a * y /\ n = b * x
    BY Products
  <2>2. m < n \/ ~(n < m)
    BY <1>6, <2>1
  <2>3. m <= n
    BY <2>2
  <2> QED
    BY <2>1, <2>3
<1>8. PICK z \in Int : z = 1
  OBVIOUS
<1>9. a * z <= area * x
  <2>1. z > 0 /\ x > 0 /\ y > 0
    BY <1>2, <1>3, <1>8
  <2>2. b * z <= area * y
    BY <1>4, <1>8
  <2> QED
    BY <1>7, <2>1, <2>2, FractionsOrder
<1>10. a <= area * x
  BY <1>8, <1>9
<1> QED
  BY <1>2, <1>10

LEMMA RectIsSmall ==
  ASSUME NEW S, S \subseteq Plane, IsFiniteSet(S), S # {}
  PROVE  ~SmallerArea(AxisAlignedBox(S), MinAreaRect(S))
<1>1. PICK hull : hull = ConvexHull(S)
  OBVIOUS
<1>2. PICK a : a = AxisAlignedBox(S)
  OBVIOUS
<1>3. CASE Len(hull) <= 2
  <2>1. MinAreaRect(S) = a
    BY <1>1, <1>2, <1>3 DEF MinAreaRect
  <2>2. <<0, 0>> \in Plane /\ <<1, 0>> \in Plane /\ Fits(a, <<0, 0>>, <<1, 0>>, S)
    BY <1>2, AxisBoxFits
  <2>3. PICK u \in Int, v \in Int : a.u[1] = u /\ a.u[2] = v
    BY <2>2, DotIs DEF Fits
  <2>4. PICK s \in Int, t \in Int : a.v[1] = s /\ a.v[2] = t
    BY <2>2, DotIs DEF Fits
  <2>5. Norm2(a.e) = 1
    <3>1. a.e = <<1, 0>>
      BY <2>2 DEF Fits
    <3> QED
      BY <3>1 DEF Norm2
  <2>6. Width(a) * Height(a) * Norm2(a.e) \in Int
    <3>1. Width(a) = v - u /\ Height(a) = t - s
      BY <2>3, <2>4 DEF Width, Height
    <3>2. PICK w \in Int, h \in Int : w = v - u /\ h = t - s
      OBVIOUS
    <3>3. w * h * 1 \in Int
      OBVIOUS
    <3> QED
      BY <2>5, <3>1, <3>2, <3>3
  <2>7. \A x \in Int : ~(x < x)
    OBVIOUS
  <2>8. ~SmallerArea(a, a)
    BY <2>6, <2>7 DEF SmallerArea
  <2> QED
    BY <1>2, <2>1, <2>8
<1>4. CASE ~(Len(hull) <= 2)
  <2>1. HullOf(hull, S)
    BY <1>1, <1>4, HullIsLarge
  <2>2. PICK i \in 1 .. Len(hull) : MinAreaRect(S) = RectOn(hull, i) /\ Smallest(hull, i)
    BY <1>1, <1>4, <2>1, MinAreaRectIs
  <2>3. PICK pb \in Plane, pr \in Plane, pt \in Plane, pl \in Plane, W \in Int, H \in Int :
          /\ CornersAre(hull, pb, pr, pt, pl) /\ Encloses(S, pb, pr, pt, pl)
          /\ SidesAre(pb, pr, pt, pl, W, H)
          /\ Width(a) = W /\ Height(a) = H
    BY <1>2, <2>1, AxisBoxIs
  <2>4. PICK j \in 1 .. Len(hull) :
          Width(RectOn(hull, j)) * Height(RectOn(hull, j)) <= (W * H) * Norm2(EdgeOf(hull, j))
    BY <2>1, <2>3, SomeEdgeIsSmall
  <2>5. PICK area \in Int : area = W * H
    BY Products
  <2>6. PICK r : r = RectOn(hull, i)
    OBVIOUS
  <2>7. /\ Width(r) * Height(r) \in Int /\ Norm2(r.e) \in Int
        /\ Width(r) * Height(r) <= area * Norm2(r.e)
    BY <2>1, <2>2, <2>4, <2>5, <2>6, SmallestIsSmall
  <2>8. Norm2(a.e) = 1
    <3>1. a.e = <<1, 0>>
      BY <1>2, AxisBoxFits DEF Fits
    <3> QED
      BY <3>1 DEF Norm2
  <2>9. PICK m \in Int, n \in Int : m = Width(r) * Height(r) /\ n = area * Norm2(r.e) /\ m <= n
    <3>1. area * Norm2(r.e) \in Int
      BY <2>7, Products
    <3> QED
      BY <2>7, <3>1
  <2>10. SmallerArea(a, r) <=> n < m * 1
    BY <2>3, <2>5, <2>8, <2>9 DEF SmallerArea
  <2>11. ~(n < m * 1)
    BY <2>9
  <2> QED
    BY <1>2, <2>2, <2>6, <2>10, <2>11
<1> QED
  BY <1>3, <1>4

\* Each piece of text gets a rectangle that holds all of it and is no larger
\* than the box along the axes, for every set of text pixels and every limit
\* on the number of its pieces (ExtractTextBoxes, MinAreaRect).
THEOREM EveryTextIsInASmallBox ==
  ASSUME \A c \in Calls : c.of = "boxes" =>
           c.pixels \subseteq Int \X Int /\ IsFiniteSet(c.pixels) /\ c.limit \in Int
  PROVE  AlgSpec => []BoxesCoverText
<1>1. ASSUME AlgInv, Answered("boxes")
      PROVE  TextInsideBoxes /\ BoxesAreSmall
  <2>1. PICK text : text = call.pixels
    OBVIOUS
  <2>2. PICK limit \in Int : limit = call.limit
    BY <1>1 DEF AlgInv, Answered
  <2>3. PICK found : found = Contours(text, limit)
    OBVIOUS
  <2>4. /\ text \subseteq Int \X Int /\ IsFiniteSet(text)
        /\ answer = [i \in DOMAIN found |-> [pixels |-> found[i], box |-> MinAreaRect(found[i])]]
    BY <1>1, <2>1, <2>2, <2>3 DEF AlgInv, Answered, Result
  <2>5. \A i \in DOMAIN found : Piece(found[i], text)
    BY <2>3, <2>4, ContoursFind
  <2>6. ASSUME NEW i \in DOMAIN answer
        PROVE  /\ HoldsAll(answer[i].box, answer[i].pixels)
               /\ ~SmallerArea(AxisAlignedBox(answer[i].pixels), answer[i].box)
    <3>1. PICK S : S = answer[i].pixels
      OBVIOUS
    <3>2. S = found[i] /\ answer[i].box = MinAreaRect(S) /\ i \in DOMAIN found
      BY <2>4, <3>1
    <3>3. S # {} /\ S \in SUBSET text
      BY <2>5, <3>2 DEF Piece
    <3>4. S \subseteq Plane /\ IsFiniteSet(S)
      BY <2>4, <3>3, FS_Subset DEF Plane
    <3> QED
      BY <3>1, <3>2, <3>3, <3>4, RectHolds, RectIsSmall
  <2> QED
    BY <2>6 DEF HoldsAll, TextInsideBoxes, BoxesAreSmall
<1>2. AlgInv => TextInsideBoxes /\ BoxesAreSmall
  BY <1>1 DEF TextInsideBoxes, BoxesAreSmall
<1>3. AlgSpec => []TextFoundOnceAndWhole
  BY EveryTextIsFoundOnceAndWhole
<1>4. TextFoundOnceAndWhole /\ TextInsideBoxes /\ BoxesAreSmall => BoxesCoverText
  BY DEF BoxesCoverText
<1> QED
  BY <1>2, <1>3, <1>4, AlgInvHolds, PTL
=============================================================================

---------------------------- MODULE MCAlgorithms ----------------------------
(* Inputs for the algorithms, small but with every case that the code       *)
(* tells apart.                                                             *)
EXTENDS Algorithms

UpTo(n, S) == UNION {[1 .. k -> S] : k \in 0 .. n}

(* Dumps of up to four elements in depth-first order, with ids that are not *)
(* positions.  A container is (layout, plain) = (TRUE, TRUE).               *)
Id(i) == 2 * i
Kinds == {<<TRUE, TRUE>>, <<TRUE, FALSE>>, <<FALSE, TRUE>>}
Dump(parents, kinds) ==
  LET depth[i \in 0 .. Len(parents)] ==
        IF i = 0 THEN -1 ELSE depth[parents[i]] + 1
  IN [i \in DOMAIN parents |->
        [id |-> Id(i), parent |-> IF parents[i] = 0 THEN -1 ELSE Id(parents[i]),
         depth |-> depth[i], layout |-> kinds[i][1], plain |-> kinds[i][2]]]
\* Depth-first: the next element hangs below the last one or one of its
\* ancestors.
Shapes(n) ==
  {ps \in [1 .. n -> 0 .. n - 1] :
     LET above[i \in 0 .. n] == IF i = 0 THEN {} ELSE {i} \union above[ps[i]]
     IN /\ \A i \in 1 .. n : ps[i] < i
        /\ \A i \in 2 .. n : ps[i] \in above[i - 1] \union {0}}
Dumps == UNION {{Dump(ps, ks) : ps \in Shapes(n), ks \in [1 .. n -> Kinds]} : n \in 0 .. 4}
\* One window, in which parents may be missing.
OneWindow ==
  {els \in Dumps : /\ els # <<>>
                   /\ \A i \in 2 .. Len(els) : els[i].parent >= 0
                   /\ \A i \in DOMAIN els : ~els[i].plain \/ els[i].layout}
Orphaned(els, i) == [els EXCEPT ![i].parent = 99]
Windows == OneWindow \union {Orphaned(els, i) : els \in {e \in OneWindow : Len(e) >= 3}, i \in 2 .. 3}

(* Lists: what an element shows, and where it is in a viewport of 2 by 2.   *)
Element(layout, clickable, label, visible, left) ==
  [layout |-> layout, clickable |-> clickable, label |-> label, says |-> TRUE,
   visible |-> visible, bounds |-> <<left, 0, left + 1, 1>>]
Listable ==
  {Element(TRUE, FALSE, FALSE, TRUE, 0), Element(FALSE, FALSE, TRUE, TRUE, 0),
   Element(TRUE, TRUE, FALSE, FALSE, 0), Element(FALSE, TRUE, FALSE, TRUE, 2),
   [Element(FALSE, FALSE, FALSE, TRUE, 1) EXCEPT !.says = FALSE]}
\* Each element of a list is one of its own.
Marked(els) == [i \in DOMAIN els |-> [els[i] EXCEPT !.bounds[2] = -i]]
Lists == {Marked(els) : els \in UpTo(3, Listable)}

Texts == UpTo(4, {"a", " ", "&", "\"", "'", "LF", "NUL"}) \union UpTo(2, Chars)

Messages ==
  {NewTouchMsg(a, [x |-> x, y |-> 300, w |-> 1080, h |-> 65535]) : a \in 0 .. 2, x \in {-1, 0, 70000}}
  \union {NewKeycodeMsg(0, 66), NewTextMsg(<<>>), NewTextMsg(<<2, 0>>),
          NewStartAppMsg(<<43, 99>>), [type |-> 4, action |-> 0],
          [type |-> 4, action |-> 1], [type |-> 10, action |-> 1], [type |-> 17]}
  \union {NewScrollMsg([x |-> 1, y |-> 2, w |-> 3, h |-> 4], h, v) :
            h \in {0, -8192}, v \in {4096, 65536}}
DeviceMessages ==
  {[type |-> 0, text |-> <<>>], [type |-> 0, text |-> <<1, 0>>], [type |-> 1],
   [type |-> 2, text |-> <<>>], [type |-> 2, text |-> <<0, 2, 1>>]}

(* Packets: parameters, with a payload that looks like a slice once the     *)
(* emulation prevention is in, pictures, and keyframes with and without     *)
(* parameters of their own.                                                 *)
Long == <<0, 0, 0, 1>>
Short == <<0, 0, 1>>
Nal(start, type, payload) == [start |-> start, type |-> type, payload |-> payload]
Packet(config, key, nals) == [config |-> config, key |-> key, data |-> AnnexB(nals)]
Packets ==
  {Packet(TRUE, FALSE, <<Nal(Long, 7, <<>>), Nal(Short, 7, <<9>>)>>),
   Packet(TRUE, FALSE, <<Nal(Long, 7, <<0, 0, 1, 5>>)>>),
   Packet(FALSE, TRUE, <<Nal(Long, 5, <<0, 0, 0, 8>>)>>),
   Packet(FALSE, TRUE, <<Nal(Short, 7, <<>>), Nal(Short, 5, <<9>>)>>),
   Packet(FALSE, FALSE, <<Nal(Short, 1, <<0, 0>>)>>)}

Rows == {<<2, 1, 0>>, <<0, 2, 1>>, <<1, 0, 2>>, <<1, 1, 0>>}

Pixels == {0, 1, 2, 3} \X {0, 1, 2}
\* The corners of rectangles of integers, in the order that MiniBox wants.
Rectangle(o, e, m, n) ==
  InOrder({o, <<o[1] + m * e[1], o[2] + m * e[2]>>,
                <<o[1] + m * e[1] - n * e[2], o[2] + m * e[2] + n * e[1]>>,
                <<o[1] - n * e[2], o[2] + n * e[1]>>}, XThenY)
Directions == {<<1, 0>>, <<0, 1>>, <<1, 1>>, <<2, 1>>, <<1, 2>>, <<3, -1>>}

(* A device whose video is, or is not, as large as the display; the nodes   *)
(* of its screen are of the kinds that the readings tell apart.             *)
Node(i, kept, parsed) ==
  [center |-> <<2 * i, 4 * i>>, text |-> "T", matches |-> {"T"}, kept |-> kept, parsed |-> parsed]
Screens == UNION {{[i \in 1 .. n |-> Node(i, ks[i], ps[i])] :
                     ks \in [1 .. n -> BOOLEAN], ps \in [1 .. n -> BOOLEAN]} : n \in 0 .. 3}
Device(screen, fast, video) ==
  [there |-> TRUE, screen |-> screen, fast |-> fast, adb |-> TRUE, works |-> TRUE,
   native |-> <<8, 16>>, video |-> video]
Fast == {<<TRUE, TRUE>>, <<FALSE, TRUE>>, <<FALSE, FALSE>>}
ListRequests ==
  {Request("get_ui_elements", p) :
     p \in {<<>>, [max_elements |-> [num |-> -1]], [max_elements |-> [num |-> 3]],
            [format |-> [str |-> "flat"], max_elements |-> [num |-> 9]]}}

MCCalls ==
       {[of |-> "compact", els |-> d] : d \in Dumps}
  \union {[of |-> "nested", els |-> d] : d \in Windows}
  \union {[of |-> "list", els |-> l, show |-> n, summary |-> s] :
            l \in Lists, n \in {-1, 1, 2}, s \in BOOLEAN}
  \union {[of |-> "viewport", els |-> l, show |-> n, summary |-> s, width |-> w, height |-> w] :
            l \in Lists, n \in {-1, 0, 2}, s \in BOOLEAN, w \in {0, 2}}
  \union {[of |-> "text", format |-> f, text |-> t] : f \in FormatRegistry, t \in Texts}
  \union {[of |-> "control", msgs |-> m] : m \in UpTo(2, Messages)}
  \union {[of |-> "device", msgs |-> m] : m \in UpTo(3, DeviceMessages)}
  \union {[of |-> "packets", packets |-> p] : p \in UpTo(4, Packets)}
  \union {[of |-> "ctc", rows |-> r, dict |-> d, width |-> 2, topN |-> n] :
            r \in UpTo(4, Rows), d \in 1 .. 2, n \in 1 .. 2}
  \union {[of |-> "boxes", pixels |-> s, limit |-> n] : s \in SUBSET Pixels, n \in {1, 9}}
  \union {[of |-> "score", corners |-> Rectangle(<<1, 1>>, e, m, n), width |-> 6, height |-> 5] :
            e \in Directions, m \in 1 .. 3, n \in 1 .. 2}
  \union {[of |-> "listing", dev |-> Device(screen, fast, <<4, 8>>), req |-> r] :
            screen \in Screens, fast \in Fast, r \in ListRequests}
MCOcrCalls ==
  {[of |-> "ocr", dev |-> Device(screen, <<TRUE, TRUE>>, video)] :
     screen \in Screens, video \in {<<8, 16>>, <<4, 8>>}}
=============================================================================

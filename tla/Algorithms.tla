----------------------------- MODULE Algorithms -----------------------------
(***************************************************************************)
(* The program's pure algorithms, one call at a time: a call is chosen from *)
(* Calls, its result is computed as the code does, and an invariant per     *)
(* algorithm relates the two.  The algorithms share nothing; they are one   *)
(* machine only so that one run checks them all.                            *)
(***************************************************************************)
EXTENDS UITree, TextOutput, ControlMessages, VideoPackets, Ctc, TextBoxes, Requests

CONSTANT Calls  \* the calls to check: records with a field "of" and the arguments

VARIABLES call, returned, answer

Request(method, params) == [method |-> method, valid |-> TRUE, params |-> params]
TapElement(index) == Request("tap_element", [index |-> [num |-> index]])
Tap(p) == Request("tap", [x |-> [num |-> p[1]], y |-> [num |-> p[2]]])

Result(c) ==
  CASE c.of = "compact" -> Flat(CompactElements(c.els))
    [] c.of = "nested"  -> Nested(c.els)
    [] c.of = "list"    -> ElementsForLLM(c.els, c.show, c.summary)
    [] c.of = "viewport" ->
         ElementsForLLMWithViewport(c.els, c.show, c.summary, c.width, c.height)
    [] c.of = "text"    -> Written(c.format, c.text)
    [] c.of = "control" -> FlattenSeq([i \in DOMAIN c.msgs |-> Encode(c.msgs[i])])
    [] c.of = "device"  -> ReadAll(FlattenSeq([i \in DOMAIN c.msgs |-> DeviceWrites(c.msgs[i])]))
    [] c.of = "packets" -> ReceiveAll(c.packets)
    [] c.of = "ctc"     -> [greedy |-> DecodeFlat(c.rows, c.dict),
                            beam   |-> DecodeBeamFlat(c.rows, c.width, c.topN, c.dict)]
    [] c.of = "boxes"   -> LET found == Contours(c.pixels, c.limit)
                           IN [i \in DOMAIN found |->
                                 [pixels |-> found[i], box |-> MinAreaRect(found[i])]]
    [] c.of = "listing" -> [list |-> Dispatch(c.dev, c.req).list,
                            taps |-> [i \in DOMAIN c.dev.screen |->
                                        Dispatch(c.dev, TapElement(i - 1))]]
    [] c.of = "ocr"     -> LET found == Dispatch(c.dev, Request("ocr", <<>>)).list
                           IN [i \in DOMAIN found |-> Dispatch(c.dev, Tap(found[i].center))]
    [] c.of = "score"   -> ScoredPixels(MiniBox(c.corners), c.width, c.height)

AlgInit == call \in Calls /\ returned = FALSE /\ answer = <<>>

Compute == ~returned /\ returned' = TRUE /\ answer' = Result(call) /\ UNCHANGED call

algVars == <<call, returned, answer>>
AlgSpec == AlgInit /\ [][Compute]_algVars

Answered(name) == returned /\ call.of = name
-----------------------------------------------------------------------------
(* Trees of elements.                                                       *)

\* The proper ancestors of an element, as far as the dump holds them.
AncestorsOf(els, id) ==
  LET up[i \in Int] ==
        IF i \notin IdsOf(els) THEN {}
        ELSE {ElementOf(els, i).parent} \union up[ElementOf(els, i).parent]
  IN up[id] \intersect IdsOf(els)

\* Compaction (CompactElements) takes out exactly the redundant containers:
\* the others stay in their order, keep the ancestors that stay, and have as
\* depth the number of those; the flat formats write one line for each.  This
\* is for dumps in which every parent is found: an element without one gets
\* depth 1 (calcDepth, format.go:360-363), and only TreeShowsEveryElement has
\* such dumps.
CompactionKeepsTree ==
  Answered("compact") =>
    LET kept == IdsOf(call.els) \ Redundant(call.els)
        old == ElementsAt(call.els, {i \in DOMAIN call.els : call.els[i].id \in kept})
    IN /\ [i \in DOMAIN answer |-> answer[i].id] = [i \in DOMAIN old |-> old[i].id]
       /\ \A id \in kept :
            /\ AncestorsOf(answer, id) = AncestorsOf(call.els, id) \intersect kept
            /\ \A el \in ToSet(answer) :
                 el.id = id => el.depth = Cardinality(AncestorsOf(answer, id))

\* A tree format (buildTree, writeYMLNode, writeSimpleXMLNode) writes every
\* element of a dump of one window once, each below the element it is linked
\* to: its parent, or the root when the parent is not in the dump.
TreeShowsEveryElement ==
  Answered("nested") =>
    LET Above(i) == {j \in 1 .. (i - 1) : answer[j].nesting < answer[i].nesting}
        Holder(i) == CHOOSE j \in Above(i) : \A k \in Above(i) : k <= j
        root == call.els[FirstRoot(call.els)].id
    IN /\ Len(answer) = Len(call.els)
       /\ {answer[i].id : i \in DOMAIN answer} = IdsOf(call.els)
       /\ \A i \in DOMAIN answer :
            LET parent == ElementOf(call.els, answer[i].id).parent
            IN IF i = 1 THEN answer[i].id = root /\ answer[i].nesting = 0
               ELSE /\ answer[i].nesting = answer[Holder(i)].nesting + 1
                    /\ answer[Holder(i)].id =
                         IF parent \in IdsOf(call.els) THEN parent ELSE root

\* What a reader could act on never vanishes from a list without a trace
\* (ElementsForLLM, ElementsForLLMWithViewport): what is not listed is no more
\* than the counts of further and of off-screen elements announce, and no list
\* is longer than asked.  The list with a viewport shows nothing that the device
\* calls invisible; ElementsForLLM shows such elements like the others.
NothingMeaningfulHidden ==
  Answered("list") \/ Answered("viewport") =>
    LET Meaningful(el) == el.label \/ el.clickable
        unlisted == {i \in DOMAIN call.els :
                       Meaningful(call.els[i]) /\ call.els[i] \notin ToSet(answer.listed)}
    IN /\ call.show >= 0 => Len(answer.listed) <= call.show
       /\ call.of = "list" =>
            /\ Cardinality(unlisted) <= answer.more
            /\ answer.more > 0 => Len(answer.listed) = call.show
       /\ call.of = "viewport" =>
            /\ Cardinality(unlisted) <= answer.more + answer.off
            /\ \A el \in ToSet(answer.listed) : el.visible
            /\ (\A i \in DOMAIN call.els : call.els[i].visible)
                 /\ call.width = 0 => answer.off = 0
-----------------------------------------------------------------------------
(* Texts and byte streams.                                                  *)

\* The words of a text, and whether the last one may go on.
NextChar(ws, c) ==
  IF c \in Controls \union {" "} THEN [ws EXCEPT !.open = FALSE]
  ELSE IF ws.open THEN [ws EXCEPT !.words[Len(ws.words)] = Append(@, c)]
  ELSE [words |-> Append(ws.words, <<c>>), open |-> TRUE]

WordsOf(s) == FoldLeft(NextChar, [words |-> <<>>, open |-> FALSE], s)
Words(s) == WordsOf(s).words

\* An element's text, whatever characters it holds, can be read back out of
\* its line: by the format's own grammar (writeJSONString, writeYMLNode,
\* xmlEscape) it has the words it had, and no format writes a line feed,
\* which would start a line of no element.
WrittenTextReadsBack ==
  Answered("text") =>
    /\ "LF" \notin ToSet(answer)
    /\ call.format = "jsonl" => ReadBack(call.format, answer) = call.text
    /\ call.format \in {"yml", "simplexml"} =>
         /\ Words(ReadBack(call.format, answer)) = Words(call.text)
         /\ ToSet(ReadBack(call.format, answer)) \intersect Controls = {}

\* The messages that a reader takes off a stream, as far as it goes.
ServerReadAll(stream) ==
  LET from[s \in Seq(0 .. 255)] ==
        IF s = <<>> THEN <<>>
        ELSE IF Size(s) > Len(s) THEN <<[type |-> -1]>>
        ELSE <<ServerReads(s)>> \o from[SubSeq(s, Size(s) + 1, Len(s))]
  IN from[stream]

\* Neither side of the control socket loses its place: the server reads the
\* messages that Encode wrote, one after the other and with their values, and
\* ReadDeviceMessage gives those that the server wrote, those it ignores too.
ControlStreamInSync ==
  /\ Answered("control") => ServerReadAll(answer) = call.msgs
  /\ Answered("device") =>
       [i \in DOMAIN answer |-> answer[i].type]
         = [i \in DOMAIN call.msgs |-> call.msgs[i].type]

\* Feeding the decoder loses nothing and holds back no picture (hasNoSlice,
\* Feed): what has been sent and what is held is the stream in its order,
\* each packet once and whole, but for a set of parameters that another one
\* replaced before any picture; only parameters are held.  The keyframe kept
\* for screenshots (buildKeyframe) is the last one, behind the parameters that
\* were current when it came.
ConfigReachesDecoder ==
  Answered("packets") =>
    LET ps == call.packets
        Stream(dropped) ==
          FlattenSeq([i \in DOMAIN ps |-> IF i \in dropped THEN <<>> ELSE ps[i].data])
        configs == {i \in DOMAIN ps : ps[i].config}
        keys == {i \in DOMAIN ps : ps[i].key}
        Newest(S) == CHOOSE i \in S : \A j \in S : j <= i
        Config(i) == IF \A j \in configs : j > i THEN <<>>
                     ELSE ps[Newest({j \in configs : j <= i})].data
    IN /\ \E dropped \in SUBSET {i \in configs : i + 1 \in configs} :
            FlattenSeq(answer.sent) \o answer.pending = Stream(dropped)
       /\ answer.pending = <<>> \/ \E i \in configs : ps[i].data = answer.pending
       /\ keys # {} => answer.keyframe =
                         Config(Newest(keys)) \o ps[Newest(keys)].data
-----------------------------------------------------------------------------
(* Requests.                                                                *)

\* An index that get_ui_elements has listed, in the flat format, taps that
\* element: whatever limit the list was asked with, and whichever reading it
\* fell back to, tap_element reads the same elements at these indices, as long
\* as the screen and the ways to read it are as they were (handleTapElement).
ListedIndexTaps ==
  /\ Answered("listing")
  /\ call.req.method = "get_ui_elements"
  /\ Format(call.req) \notin Hierarchical
  => \A el \in ToSet(answer.list) :
        answer.taps[el.index + 1].did
          = << <<"tap", ScaleToDevice(call.dev, el.node.center)>> >>

\* DEV.md:534: OCR gives the exact position of a text, for "tap center_x
\* center_y".  The code does not keep this: the position is one of the video,
\* and handleTap takes it for one of the display (README.md, "Divergences").
OcrCenterTaps ==
  Answered("ocr") =>
    \A i \in DOMAIN answer :
      answer[i].did = << <<"tap", ToVideo(call.dev, call.dev.screen[i].center)>> >>
-----------------------------------------------------------------------------
(* Reading text off pictures.                                               *)

\* Greedy decoding (DecodeFlat) is the rule of CTC applied to the best path:
\* repeats are one character unless a blank stands between them.  A beam of
\* one (DecodeBeamFlat) that considers one class per step, finds the same text
\* whenever no step repeats the one before it.
DecodersCollapseThePath ==
  Answered("ctc") =>
    LET path == BestPath(call.rows)
        text == Collapse(path, call.dict)
        repeats == \E t \in 2 .. Len(path) : path[t] = path[t - 1] /\ path[t] # 0
    IN /\ answer.greedy = text
       /\ call.topN = 1 /\ ~repeats => answer.beam = {text}

Touch(p, q) == p[1] - q[1] \in -1 .. 1 /\ p[2] - q[2] \in -1 .. 1

\* Those of S that are in T or touch one of T.
Reached(T, S) == {q \in S : \E p \in T : Touch(p, q)}

\* All pixels of the set touch, directly or over others of the set.
Linked(S) ==
  FoldLeft(LAMBDA T, k : Reached(T, S), {CHOOSE p \in S : TRUE},
           [k \in 1 .. Cardinality(S) |-> k]) = S

\* Detection finds each piece of text once and whole (ExtractTextBoxes): the
\* components are connected, no two of them touch, and they are all of the
\* text unless there are too many.
TextFoundOnceAndWhole ==
  Answered("boxes") =>
    LET all == UNION {answer[i].pixels : i \in DOMAIN answer}
    IN /\ all \subseteq call.pixels
       /\ Len(answer) < call.limit => all = call.pixels
       /\ \A i \in DOMAIN answer :
            /\ answer[i].pixels # {} /\ Linked(answer[i].pixels)
            /\ \A j \in DOMAIN answer :
                 j # i => \A p \in answer[i].pixels, q \in answer[j].pixels : ~Touch(p, q)

\* Each piece of text lies within its rectangle (MinAreaRect).
TextInsideBoxes ==
  Answered("boxes") =>
    \A i \in DOMAIN answer : \A p \in answer[i].pixels :
      LET r == answer[i].box
      IN Along(r, p) \in r.u[1] .. r.u[2] /\ Across(r, p) \in r.v[1] .. r.v[2]

\* No rectangle is larger than the box along the axes (MinAreaRect).
BoxesAreSmall ==
  Answered("boxes") =>
    \A i \in DOMAIN answer : ~SmallerArea(AxisAlignedBox(answer[i].pixels), answer[i].box)

\* Detection finds each piece of text once and whole, and puts a small
\* rectangle around all of it (ExtractTextBoxes, MinAreaRect).
BoxesCoverText == TextFoundOnceAndWhole /\ TextInsideBoxes /\ BoxesAreSmall

\* The score of a box is taken over the pixels with their centres in it
\* (BoxScoreFast): the fast path for boxes along the axes averages what the
\* polygon mask would select, and no corner order that the mask would see as
\* a self-crossing figure comes out of GetMiniBoxes.
FastPathAgrees ==
  Answered("score") =>
    LET box == MiniBox(call.corners)
        Side(p, i) == LET a == box[i]
                          b == box[(i % 4) + 1]
                      IN (b[1] - a[1]) * (2 * p[2] + 1 - 2 * a[2])
                           - (b[2] - a[2]) * (2 * p[1] + 1 - 2 * a[1])
        pixels == BoundingPixels(box, call.width, call.height)
    IN /\ {p \in pixels : \A i \in 1 .. 4 : Side(p, i) > 0} \subseteq answer
       /\ answer \subseteq {p \in pixels : \A i \in 1 .. 4 : Side(p, i) >= 0}
=============================================================================

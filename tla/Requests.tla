------------------------------ MODULE Requests ------------------------------
(***************************************************************************)
(* What the handlers of the daemon's requests do with a device             *)
(* (internal/daemon: dispatch.go, handlers.go, params.go; the readings of  *)
(* the screen in internal/session/ui.go): which inputs reach it, in which   *)
(* order things are refused, and which elements are shown or touched.       *)
(*                                                                         *)
(* A request is [method, valid, params]: whether its parameters are JSON,   *)
(* and the values by name.  A value is a number, a string or a truth value:  *)
(* [num |-> n], [str |-> s] or [bool |-> b].  A device is a record: there,   *)
(* whether there is one; screen, its nodes; fast, how two readings over the  *)
(* UI socket end; adb, whether uiautomator answers; works, whether inputs    *)
(* and pictures do; native, video, the sizes of the two coordinate spaces.   *)
(* A node has a center, in the native one, a text, and the searches that it   *)
(* matches: those which its text or its description contains, in either      *)
(* case.  It says whether the agent's summary keeps it (kept) and whether     *)
(* parseNodeLine does (parsed).                                              *)
(***************************************************************************)
EXTENDS Integers, Sequences, SequencesExt, Subsequences

CONSTANTS
  DefMaxElements,        \* the agent's own limit
  DefClientMaxElements,  \* the default of max_elements
  SummaryMax             \* at most so many in an observe's summary

ASSUME LimitsAssumption ==
  /\ {DefMaxElements, DefClientMaxElements, SummaryMax} \subseteq Nat \ {0}
  /\ DefClientMaxElements <= DefMaxElements

(* Parameters.                                                             *)

Has(req, key) == key \in DOMAIN req.params

GetInt(req, key) ==
  IF Has(req, key) /\ "num" \in DOMAIN req.params[key] THEN req.params[key].num ELSE 0

\* "" stands for a value that is absent or of another type, as in the code.
GetString(req, key) ==
  IF Has(req, key) /\ "str" \in DOMAIN req.params[key] THEN req.params[key].str ELSE ""

GetMaxElements(req) ==
  IF ~req.valid \/ ~Has(req, "max_elements") THEN DefClientMaxElements
  ELSE LET n == GetInt(req, "max_elements")
       IN IF n < 0 THEN -1 ELSE IF n = 0 THEN DefClientMaxElements ELSE n

GetSummary(req) ==
  /\ req.valid /\ Has(req, "summary") /\ "bool" \in DOMAIN req.params["summary"]
  /\ req.params["summary"].bool

ClampCollectMax(max) == IF max < 0 \/ max > DefMaxElements THEN 0 ELSE max

AtMost(n, seq) == IF n > 0 /\ Len(seq) > n THEN SubSeq(seq, 1, n) ELSE seq

(* Readings of the screen: [ok, els], an element being its index and node.  *)

Indexed(nodes) == [i \in DOMAIN nodes |-> [index |-> i - 1, node |-> nodes[i]]]
Unread == [ok |-> FALSE, els |-> <<>>]
Reading(ok, els) == IF ok THEN [ok |-> TRUE, els |-> els] ELSE Unread

\* What the agent answers, limited by the request or by itself.
AgentAnswer(nodes, max) ==
  Indexed(AtMost(IF max > 0 THEN max ELSE DefMaxElements, nodes))

KeptNodes(nodes) == ElementsAt(nodes, {i \in DOMAIN nodes : nodes[i].kept})
ParsedNodes(nodes) == ElementsAt(nodes, {i \in DOMAIN nodes : nodes[i].parsed})

\* GetUISummary: a second reading when the first one fails.
GetUISummary(dev, max) ==
  Reading(dev.fast[1] \/ dev.fast[2],
          AtMost(max, AgentAnswer(KeptNodes(dev.screen), max)))

\* GetUIFull: every node, and one reading only.
GetUIFull(dev, max) == Reading(dev.fast[1], AtMost(max, AgentAnswer(dev.screen, max)))

\* ObserveFull reads a second time when the first reading fails.
ObserveFull(dev, max) ==
  Reading(dev.fast[1] \/ dev.fast[2], AtMost(max, AgentAnswer(dev.screen, max)))

\* GetUIElementsFallbackADB, parseUIXML: another filter, and no limit.
GetUIElementsFallbackADB(dev) ==
  Reading(dev.adb, Indexed(ParsedNodes(dev.screen)))

SummaryOrFallback(dev, max) ==
  IF GetUISummary(dev, max).ok THEN GetUISummary(dev, max)
  ELSE GetUIElementsFallbackADB(dev)

(* Responses: the code, the inputs sent to the device, what is listed.      *)

Refused(code) == [code |-> code, did |-> <<>>, list |-> <<>>]
Listing(els) == [Refused("ok") EXCEPT !.list = els]
\* The input is sent whether or not it succeeds.
Did(dev, input) == [Refused(IF dev.works THEN "ok" ELSE "device") EXCEPT !.did = <<input>>]

\* Where the encoder draws a point of the display.
ToVideo(dev, p) == [i \in 1 .. 2 |-> (p[i] * dev.video[i]) \div dev.native[i]]

ScaleToDevice(dev, p) == IF dev.native = dev.video THEN p ELSE ToVideo(dev, p)

Tapped(dev, el) == Did(dev, <<"tap", ScaleToDevice(dev, el.node.center)>>)

handleTap(dev, req) ==
  IF ~req.valid \/ ~Has(req, "x") \/ ~Has(req, "y") THEN Refused("invalid")
  ELSE IF ~dev.there THEN Refused("nodevice")
  ELSE Did(dev, <<"tap", ScaleToDevice(dev, <<GetInt(req, "x"), GetInt(req, "y")>>)>>)

\* The first of the elements at these positions.
TapFirst(dev, els, found) ==
  IF found = {} THEN Refused("invalid") ELSE Tapped(dev, FirstAt(els, found))

IndexedBy(els, idx) == {i \in DOMAIN els : els[i].index = idx}
Matching(els, text) == {i \in DOMAIN els : text \in els[i].node.matches}

\* Mutant: the elements are read with the limit of a listing.
handleTapElement_Limited(dev, req) ==
  LET r == SummaryOrFallback(dev, DefClientMaxElements)
  IN IF r.els = <<>> THEN Refused("device")
     ELSE TapFirst(dev, r.els, IndexedBy(r.els, GetInt(req, "index")))

\* The index goes before the text.
handleTapElement(dev, req) ==
  LET r == SummaryOrFallback(dev, 0)
      text == GetString(req, "text")
  IN IF ~req.valid THEN Refused("invalid")
     ELSE IF ~dev.there THEN Refused("nodevice")
     ELSE IF r.els = <<>> THEN Refused("device")
     ELSE IF Has(req, "index")
     THEN TapFirst(dev, r.els, IndexedBy(r.els, GetInt(req, "index")))
     ELSE IF text # "" THEN TapFirst(dev, r.els, Matching(r.els, text))
     ELSE Refused("invalid")

handleSwipe(dev, req) ==
  LET P(x, y) == ScaleToDevice(dev, <<GetInt(req, x), GetInt(req, y)>>)
      ms == GetInt(req, "duration_ms")
  IN IF ~req.valid THEN Refused("invalid")
     ELSE IF ~dev.there THEN Refused("nodevice")
     ELSE Did(dev, <<"swipe", P("start_x", "start_y"), P("end_x", "end_y"),
                     IF ms = 0 THEN 500 ELSE ms>>)

handleTypeText(dev, req) ==
  LET text == IF req.valid THEN GetString(req, "text") ELSE ""
  IN IF text = "" THEN Refused("invalid")
     ELSE IF ~dev.there THEN Refused("nodevice") ELSE Did(dev, <<"type", text>>)

\* KeycodeFromName, some of its names; a name may be a number.
KeycodeFromName(name) ==
  CASE name = "enter" -> 66 [] name \in {"delete", "backspace"} -> 67
    [] name = "back" -> 4 [] name = "home" -> 3 [] name \in {"escape", "esc"} -> 111
    [] name = "7" -> 7 [] OTHER -> 0

Press(dev, keycode) ==
  IF ~dev.there THEN Refused("nodevice") ELSE Did(dev, <<"key", keycode>>)

handlePressKey(dev, req) ==
  IF ~req.valid THEN Refused("invalid")
  ELSE IF Has(req, "keycode") THEN Press(dev, GetInt(req, "keycode"))
  ELSE IF Has(req, "key") /\ "str" \in DOMAIN req.params["key"]
          /\ KeycodeFromName(GetString(req, "key")) # 0
  THEN Press(dev, KeycodeFromName(GetString(req, "key")))
  ELSE Refused("invalid")

\* Back and Home; Home is a key like any other.
handleBack(dev) == IF ~dev.there THEN Refused("nodevice") ELSE Did(dev, <<"back">>)
handleHome(dev) == Press(dev, 3)

handleLaunchApp(dev, req) ==
  LET app == IF ~req.valid THEN "" ELSE IF GetString(req, "package") # ""
             THEN GetString(req, "package") ELSE GetString(req, "app")
  IN IF app = "" THEN Refused("invalid")
     ELSE IF ~dev.there THEN Refused("nodevice") ELSE Did(dev, <<"launch", app>>)

Hierarchical == {"flatref", "jsonl", "simplexml", "yml"}
Format(req) == IF req.valid THEN GetString(req, "format") ELSE ""

\* A tree format lists the full dump, anything else the summary.
handleGetUIElements(dev, req) ==
  LET max == GetMaxElements(req)
      tree == Format(req) \in Hierarchical
      r == IF tree THEN GetUIFull(dev, ClampCollectMax(max))
           ELSE SummaryOrFallback(dev, ClampCollectMax(max))
  IN IF ~dev.there THEN Refused("nodevice")
     ELSE IF ~r.ok THEN Refused("device")
     ELSE Listing(IF tree THEN AtMost(max, r.els) ELSE r.els)

\* observe: flatref unless it is told otherwise.  The flat format fails with
\* the picture only; what it could not read it does not list.
handleObserve(dev, req) ==
  LET max == GetMaxElements(req)
      format == IF Format(req) = "" THEN "flatref" ELSE Format(req)
      top == IF GetSummary(req) /\ max > SummaryMax THEN SummaryMax ELSE max
      full == ObserveFull(dev, ClampCollectMax(max))
  IN IF ~dev.there THEN Refused("nodevice")
     ELSE IF format \notin Hierarchical
     THEN Listing(SummaryOrFallback(dev, ClampCollectMax(max)).els)
     ELSE IF ~full.ok THEN Refused("device") ELSE Listing(AtMost(top, full.els))

\* handleOCR, with a service that finds every text: where it is in the
\* picture, which is a frame of the video.
handleOCR(dev) ==
  IF ~dev.there THEN Refused("nodevice")
  ELSE IF ~dev.works THEN Refused("device")
  ELSE Listing([i \in DOMAIN dev.screen |->
                  [text |-> dev.screen[i].text,
                   center |-> ToVideo(dev, dev.screen[i].center)]])

\* Dispatch, for what touches the device or lists its elements.  connect and
\* disconnect never get here in the daemon.
Dispatch(dev, req) ==
  CASE req.method = "get_ui_elements" -> handleGetUIElements(dev, req)
    [] req.method = "observe" -> handleObserve(dev, req)
    [] req.method = "ocr" -> handleOCR(dev)
    [] req.method = "tap" -> handleTap(dev, req)
    [] req.method = "tap_element" -> handleTapElement(dev, req)
    [] req.method = "swipe" -> handleSwipe(dev, req)
    [] req.method = "type_text" -> handleTypeText(dev, req)
    [] req.method = "back" -> handleBack(dev)
    [] req.method = "home" -> handleHome(dev)
    [] req.method = "press_key" -> handlePressKey(dev, req)
    [] req.method = "launch_app" -> handleLaunchApp(dev, req)
    [] req.method \in {"connect", "disconnect"} -> Refused("internal")
    [] OTHER -> Refused("method")
=============================================================================

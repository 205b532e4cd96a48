----------------------------- MODULE TextOutput -----------------------------
(***************************************************************************)
(* How text from the screen is written into the four output formats        *)
(* (internal/format): white space is collapsed, and what the format gives  *)
(* a meaning to is escaped.  A text is a sequence of characters, each a    *)
(* string of its own; an escape is written as one symbol.                  *)
(***************************************************************************)
EXTENDS Sequences, SequencesExt

\* LF stands for the control characters with an escape of their own (tab and
\* carriage return are like it), NUL for all others, DEL included.
Controls == {"LF", "NUL"}
Chars == {"a", " ", "&", "<", "\"", "'", "\\"} \union Controls

\* Mutant: only spaces are collapsed.
CollapseWS_SpacesOnly(s) ==
  FoldLeft(LAMBDA b, c : IF c = " " /\ b # <<>> /\ Last(b) = " "
                         THEN b ELSE Append(b, c), <<>>, s)

\* The loop of CollapseWS: white space is written as one space, and not at
\* all where a space is or nothing yet.
Collapsing(b, c) ==
  IF c \notin Controls \union {" "} THEN Append(b, c)
  ELSE IF b = <<>> \/ Last(b) = " " THEN b
  ELSE Append(b, " ")

\* CollapseWS: a text without control characters is returned as it is, its
\* runs of spaces included.
CollapseWS(s) ==
  LET b == FoldLeft(Collapsing, <<>>, s)
  IN IF \A i \in DOMAIN s : s[i] \notin Controls THEN s
     ELSE IF b # <<>> /\ Last(b) = " " THEN Front(b) ELSE b

XmlEntity == [c \in {"&", "<", "\"", "'"} |->
  CASE c = "&" -> "&amp;" [] c = "<" -> "&lt;" [] c = "\"" -> "&quot;"
    [] c = "'" -> "&apos;"]

\* xmlEscape: line feeds and tabs stay, other control characters become
\* spaces.  (The code copies nothing until it meets the first special one.)
XmlEscape(s) ==
  [i \in DOMAIN s |->
     IF s[i] \in DOMAIN XmlEntity THEN XmlEntity[s[i]]
     ELSE IF s[i] = "NUL" THEN " " ELSE s[i]]

JsonSymbol(c) ==
  CASE c = "\"" -> "\\\"" [] c = "\\" -> "\\\\" [] c = "LF" -> "\\n"
    [] c = "NUL" -> "\\u0000" [] OTHER -> c

\* writeJSONString
WriteJSONString(s) == <<"\"">> \o [i \in DOMAIN s |-> JsonSymbol(s[i])] \o <<"\"">>

\* writeYMLNode: a single-quoted scalar, quotes doubled.
YmlScalar(s) ==
  LET t == CollapseWS(s)
  IN <<"'">> \o [i \in DOMAIN t |-> IF t[i] = "'" THEN "''" ELSE t[i]] \o <<"'">>

SimpleXMLAttr(s) == <<"\"">> \o XmlEscape(CollapseWS(s)) \o <<"\"">>

\* sanitizeFlatRefValue; flatref does not escape.
FlatRefValue(s) == <<"\"">> \o CollapseWS(s) \o <<"\"">>

\* The text field of an element in a format.
Written(format, s) ==
  CASE format = "jsonl" -> WriteJSONString(s)
    [] format = "yml" -> YmlScalar(s)
    [] format = "simplexml" -> SimpleXMLAttr(s)
    [] format = "flatref" -> FlatRefValue(s)

(* Reading the formats back, by their own grammars: the symbols between the *)
(* first character and the next one that ends the value.                    *)
Body(written) ==
  LET ends == {i \in DOMAIN written : i > 1 /\ written[i] = written[1]}
  IN IF ends = {} THEN <<>>
     ELSE SubSeq(written, 2, (CHOOSE i \in ends : \A j \in ends : i <= j) - 1)

Unescaped(format, sym) ==
  CASE format = "jsonl" /\ \E c \in Chars : JsonSymbol(c) = sym ->
         CHOOSE c \in Chars : JsonSymbol(c) = sym
    [] format = "simplexml" /\ (\E c \in DOMAIN XmlEntity : XmlEntity[c] = sym) ->
         CHOOSE c \in DOMAIN XmlEntity : XmlEntity[c] = sym
    [] format = "yml" /\ sym = "''" -> "'"
    [] OTHER -> sym

ReadBack(format, written) ==
  [i \in DOMAIN Body(written) |-> Unescaped(format, Body(written)[i])]
=============================================================================

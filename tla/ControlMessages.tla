-------------------------- MODULE ControlMessages --------------------------
(***************************************************************************)
(* The binary messages of the control socket (pkg/protocol/control.go):    *)
(* what the program encodes for the scrcpy server, and how it reads the    *)
(* server's messages.  Neither direction has frames: a reader that takes   *)
(* one byte too few or too many misreads everything that follows.          *)
(***************************************************************************)
EXTENDS Integers, Sequences, SequencesExt

CONSTANT MaxClipboard  \* deviceMsgMaxClipboard; 2^18 in the program

ASSUME ClipboardAssumption == MaxClipboard \in Nat

\* The byte of weight 256^k of v, in two's complement.  The weights beyond
\* the fourth hold nothing but the sign of the values that occur.
ByteOf(v, k) == IF k >= 4 THEN (IF v < 0 THEN 255 ELSE 0)
                ELSE (v \div (256 ^ k)) % 256

\* binary.BigEndian.AppendUint16, 32 and 64
BigEndian(width, v) == [i \in 1 .. width |-> ByteOf(v, width - i)]

\* The values that a reader gives to bytes; only small ones occur here.
Unsigned(bytes) == FoldLeft(LAMBDA n, b : n * 256 + b, 0, bytes)
Signed(bytes) ==
  IF bytes[1] >= 128
  THEN Unsigned([i \in DOMAIN bytes |-> bytes[i] - 255]) - 1
  ELSE Unsigned(bytes)

\* Mutant: the product is not capped.
FloatToU16Fixed_Uncapped(n) == IF n <= 0 THEN 0 ELSE (n \div 2) % 65536

\* floatToU16Fixed, of a pressure n / 2^17.
FloatToU16Fixed(n) ==
  IF n >= 131072 THEN 65535 ELSE IF n <= 0 THEN 0 ELSE n \div 2

\* Conversion to an integer truncates toward zero.
Truncate(n, d) == IF n >= 0 THEN n \div d ELSE -((-n) \div d)

\* floatToI16Fixed, of a scroll value n / 2^12.
FloatToI16Fixed(n) ==
  IF n >= 2 * 32767 THEN 32767 ELSE IF n <= -2 * 32768 THEN -32768
  ELSE Truncate(n, 2)

\* appendPos
AppendPos(p) == BigEndian(4, p.x) \o BigEndian(4, p.y)
                  \o BigEndian(2, p.w) \o BigEndian(2, p.h)

\* ControlMessage.Encode
Encode(m) ==
  <<m.type>> \o
  CASE m.type = 0 -> <<m.action>> \o BigEndian(4, m.keycode)
                       \o BigEndian(4, 0) \o BigEndian(4, 0)
    [] m.type = 1 -> BigEndian(4, Len(m.text)) \o m.text
    [] m.type = 2 -> <<m.action>> \o BigEndian(8, m.pointer) \o AppendPos(m.pos)
                       \o BigEndian(2, FloatToU16Fixed(m.pressure))
                       \o BigEndian(4, m.button) \o BigEndian(4, m.buttons)
    [] m.type = 3 -> AppendPos(m.pos)
                       \o BigEndian(2, FloatToI16Fixed(m.hscroll))
                       \o BigEndian(2, FloatToI16Fixed(m.vscroll))
                       \o BigEndian(4, m.buttons)
    [] m.type = 4 -> <<m.action>>
    [] m.type = 10 -> <<IF m.action = 1 THEN 1 ELSE 0>>
    [] m.type = 16 -> LET app == IF m.text = <<>> THEN <<0>> ELSE m.text
                      IN <<Len(app) % 256>> \o app
    [] OTHER -> <<>>

\* NewTouchMsg, NewKeycodeMsg, NewTextMsg, NewScrollMsg, NewStartAppMsg
NewTouchMsg(action, pos) ==
  [type |-> 2, action |-> action, pointer |-> -1, pos |-> pos,
   pressure |-> 131072, button |-> 0, buttons |-> 0]
NewKeycodeMsg(action, keycode) ==
  [type |-> 0, action |-> action, keycode |-> keycode]
NewTextMsg(text) == [type |-> 1, text |-> text]
NewScrollMsg(pos, h, v) ==
  [type |-> 3, pos |-> pos, hscroll |-> h, vscroll |-> v, buttons |-> 0]
NewStartAppMsg(text) == [type |-> 16, text |-> text]
-----------------------------------------------------------------------------
\* The server's reader, by the layouts that the comments of Encode quote.
\* Fields that the constructors never set are taken as read.
PosAt(b, i) ==
  [x |-> Signed(SubSeq(b, i, i + 3)), y |-> Signed(SubSeq(b, i + 4, i + 7)),
   w |-> Unsigned(SubSeq(b, i + 8, i + 9)), h |-> Unsigned(SubSeq(b, i + 10, i + 11))]

\* The size of the first message, as far as the bytes that have come tell it.
Size(b) ==
  CASE b[1] = 0 -> 14
    [] b[1] = 1 -> IF Len(b) < 5 THEN 5 ELSE 5 + Unsigned(SubSeq(b, 2, 5))
    [] b[1] = 2 -> 32
    [] b[1] = 3 -> 21
    [] b[1] \in {4, 10} -> 2
    [] b[1] = 16 -> IF Len(b) < 2 THEN 2 ELSE 2 + b[2]
    [] OTHER -> 1

\* A fixed-point pressure, in units of 2^-17; a scroll value, of 2^-12.
Pressure(x) == IF x = 65535 THEN 131072 ELSE 2 * x
Scroll(x) == IF x = 32767 THEN 65536 ELSE 2 * x

ServerReads(b) ==
  CASE b[1] = 0 -> NewKeycodeMsg(b[2], Signed(SubSeq(b, 3, 6)))
    [] b[1] = 1 -> NewTextMsg(SubSeq(b, 6, Size(b)))
    [] b[1] = 2 -> [type |-> 2, action |-> b[2],
                    pointer |-> Signed(SubSeq(b, 3, 10)), pos |-> PosAt(b, 11),
                    pressure |-> Pressure(Unsigned(SubSeq(b, 23, 24))),
                    button |-> Signed(SubSeq(b, 25, 28)),
                    buttons |-> Signed(SubSeq(b, 29, 32))]
    [] b[1] = 3 -> [type |-> 3, pos |-> PosAt(b, 2),
                    hscroll |-> Scroll(Signed(SubSeq(b, 14, 15))),
                    vscroll |-> Scroll(Signed(SubSeq(b, 16, 17))),
                    buttons |-> Signed(SubSeq(b, 18, 21))]
    [] b[1] \in {4, 10} -> [type |-> b[1], action |-> b[2]]
    [] b[1] = 16 -> NewStartAppMsg(SubSeq(b, 3, Size(b)))
    [] OTHER -> [type |-> b[1]]
-----------------------------------------------------------------------------
(* The other direction.  A read gives [msg, rest]; msg.type is -1 when the *)
(* stream ends within a message or the message is refused.                  *)

DeviceErr == [msg |-> [type |-> -1], rest |-> <<>>]

Took(msg, stream, n) ==
  IF n > Len(stream) THEN DeviceErr
  ELSE [msg |-> msg, rest |-> SubSeq(stream, n + 1, Len(stream))]

\* ReadDeviceMessage: the payload of every type is consumed, also of those
\* that are ignored; an unknown type is an error.
ReadDeviceMessage(s) ==
  IF s = <<>> THEN DeviceErr
  ELSE CASE s[1] = 0 /\ Len(s) >= 5 ->
              LET n == Unsigned(SubSeq(s, 2, 5))
              IN IF n > MaxClipboard \/ 5 + n > Len(s) THEN DeviceErr
                 ELSE Took([type |-> 0, text |-> SubSeq(s, 6, 5 + n)], s, 5 + n)
         [] s[1] = 1 -> Took([type |-> 1, text |-> <<>>], s, 9)
         [] s[1] = 2 /\ Len(s) >= 5 ->
              Took([type |-> 2, text |-> <<>>], s, 5 + Unsigned(SubSeq(s, 4, 5)))
         [] OTHER -> DeviceErr

\* readDeviceMessages, until the first error: the messages it has read.
ReadAll(stream) ==
  LET from[s \in Seq(0 .. 255)] ==
        LET r == ReadDeviceMessage(s)
        IN IF r.msg.type = -1 THEN <<>> ELSE <<r.msg>> \o from[r.rest]
  IN from[stream]

\* What the server writes (scrcpy's DeviceMessageWriter).
DeviceWrites(m) ==
  CASE m.type = 0 -> <<0>> \o BigEndian(4, Len(m.text)) \o m.text
    [] m.type = 1 -> <<1>> \o BigEndian(8, 7)
    [] m.type = 2 -> <<2>> \o BigEndian(2, 3) \o BigEndian(2, Len(m.text)) \o m.text
=============================================================================

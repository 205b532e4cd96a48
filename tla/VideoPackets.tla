---------------------------- MODULE VideoPackets ----------------------------
(***************************************************************************)
(* The packets of the video socket (pkg/h264/decoder.go) and what becomes  *)
(* of them on the way to a picture: the keyframe that is kept for          *)
(* screenshots, and the packets that are fed to the stream decoder         *)
(* (pkg/avcodec/stream_astiav.go).                                         *)
(*                                                                         *)
(* A packet's bytes are given by what the scanners look at: 0, 1, 3 (the   *)
(* emulation prevention byte) and, masked with 0x1F, NAL types; 1 and 5    *)
(* are slices, 7 is a parameter set.                                       *)
(***************************************************************************)
EXTENDS Integers, Sequences, SequencesExt

Slices == {1, 5}

\* The code is 0-based; so are the positions here.
At(data, pos) == data[pos + 1]

\* Mutant: four-byte start codes only.
StartCode_Long(data, pos) ==
  IF pos + 3 < Len(data) /\ At(data, pos) = 0 /\ At(data, pos + 1) = 0
       /\ At(data, pos + 2) # 1 /\ At(data, pos + 3) = 1
  THEN 4 ELSE 0

\* How far hasNoSlice and frameNALTypes step when they stand on what they
\* take for a start code; 0 elsewhere.  The third byte of the long form is
\* not looked at.
StartCode(data, pos) ==
  IF ~(pos + 3 < Len(data) /\ At(data, pos) = 0 /\ At(data, pos + 1) = 0) THEN 0
  ELSE IF At(data, pos + 2) = 1 THEN 3
  ELSE IF At(data, pos + 3) = 1 THEN 4 ELSE 0

\* The NAL types that the scan comes across, in order.
FrameNALTypes(data) ==
  LET from[pos \in 0 .. Len(data)] ==
        IF pos + 3 >= Len(data) THEN <<>>
        ELSE LET n == StartCode(data, pos)
             IN IF n = 0 THEN from[pos + 1]
                ELSE IF pos + n >= Len(data) THEN <<>>
                ELSE <<At(data, pos + n)>> \o from[pos + n]
  IN from[0]

HasNoSlice(data) == ToSet(FrameNALTypes(data)) \intersect Slices = {}

-----------------------------------------------------------------------------
(* Packets are records: config and key are the flags of the frame header,   *)
(* data the payload.                                                        *)

NoStream == [config |-> <<>>, keyframe |-> <<>>, pending |-> <<>>, sent |-> <<>>]

\* ReadFrame, with extractConfigs and buildKeyframe: a config packet replaces
\* the last one; a keyframe is kept with the config before it.
ReadFrame(st, p) ==
  IF p.config THEN [st EXCEPT !.config = p.data]
  ELSE IF p.key THEN [st EXCEPT !.keyframe = st.config \o p.data]
  ELSE st

\* Feed: a packet without a slice is held for the next packet, which takes
\* it along.
Feed(st, data) ==
  IF data = <<>> THEN st
  ELSE IF HasNoSlice(data) THEN [st EXCEPT !.pending = data]
  ELSE [st EXCEPT !.pending = <<>>, !.sent = Append(@, st.pending \o data)]

\* feedStreamDecoder, on the frame that ReadFrame has just read.
Receive(st, p) == Feed(ReadFrame(st, p), p.data)

ReceiveAll(packets) == FoldLeft(Receive, NoStream, packets)
-----------------------------------------------------------------------------
(* Building a packet as the encoder does.                                   *)

\* A 3 goes in front of a byte up to 3 that follows two zeros.
Escaped(payload) ==
  LET Add(b, c) ==
        IF c <= 3 /\ Len(b) >= 2 /\ b[Len(b)] = 0 /\ b[Len(b) - 1] = 0
        THEN b \o <<3, c>> ELSE Append(b, c)
  IN FoldLeft(Add, <<>>, payload)

AnnexB(nals) ==
  FlattenSeq([i \in DOMAIN nals |->
                nals[i].start \o Escaped(<<nals[i].type>> \o nals[i].payload)])
=============================================================================

------------------------------- MODULE Session -------------------------------
(***************************************************************************)
(* A device session (internal/session) once Connect has returned: the      *)
(* goroutine that drains the video socket, the one that reads the control   *)
(* socket, the actor's calls, the fetchers that an observe starts, and      *)
(* Close.  Two connections of the server can die at any time.               *)
(*                                                                         *)
(* What the code compares with now is kept as an age in Ticks, capped where *)
(* it no longer matters.  A deadline may pass at any moment: how long a     *)
(* step takes is not known.                                                 *)
(***************************************************************************)
EXTENDS Integers

CONSTANTS
  FreshWindow,  \* freshKeyframeWindow
  InFlight,     \* keyframeResetInFlightWindow
  MinInterval,  \* keyframeResetMinInterval
  StaleCap      \* streamStaleCap

ASSUME WindowsAssumption ==
  /\ {FreshWindow, InFlight, MinInterval, StaleCap} \subseteq Nat \ {0}
  /\ FreshWindow <= InFlight /\ InFlight <= MinInterval

\* The actor, and the fetcher of the picture in an observe.
Threads == {"actor", "img"}

VARIABLES
  streamDec,  \* "open", or "nil": not built in, or closed
  ctl,        \* controlConn: "up"; "dead", the peer is gone; "nil"
  vid,        \* videoConn: "up" or "dead"
  drain,      \* drainFrames: "top", "read", "feed", "late", "done", "panic";
              \* "late" is "feed" with a packet read before the last action
  reader,     \* readDeviceMessages: "on" or "off"
  image,      \* the cached frame, or the keyframe when there is no streamDec:
              \* "none", "old", "new": it arrived after the last action on the
              \* device, "late": so it did, from a packet read before
  fresh,      \* it arrived after lastActionAt
  imageAge,
  resetAge,   \* since lastResetAt
  pc,         \* where a thread is
  since,      \* an image has arrived since the last action before the call
  out,        \* the picture the thread has last got
  ui,         \* the other fetcher of an observe: "off" or "on"
  left        \* the last observe gave up on a fetcher

conns == <<ctl, vid>>
cache == <<image, fresh, imageAge>>
shots == <<pc, since, out>>
vars == <<streamDec, conns, drain, reader, cache, resetAge, shots, ui, left>>

MaxAge == StaleCap + 1
NoPicture == [how |-> "none", newer |-> FALSE, path |-> "none"]
\* Old or not, it goes out with a warning.
Degraded == [how |-> "degraded", newer |-> FALSE, path |-> "none"]

\* The dial of the control socket may fail, and the stream decoder may be
\* unavailable: Connect carries on.
Init ==
  /\ streamDec \in {"open", "nil"}
  /\ ctl \in {"up", "nil"} /\ vid = "up"
  /\ drain = "top"
  /\ reader = IF ctl = "up" THEN "on" ELSE "off"
  /\ image = "none" /\ fresh = FALSE /\ imageAge = MaxAge
  /\ resetAge = MinInterval
  /\ pc = [t \in Threads |-> "idle"]
  /\ since = [t \in Threads |-> TRUE]
  /\ out = [t \in Threads |-> NoPicture]
  /\ ui = "off" /\ left = FALSE

\* The flag that Close sets: the actor ends with it.
closed == pc["actor"] \in {"closeConns", "closeDec", "closed"}

\* controlErr is only set with controlConn reset, and is not told apart.
IsControlAvailable == ctl # "nil"

\* videoDied is closed when drainFrames returns.
IsAlive == IsControlAvailable /\ drain # "done"

markControlBroken == ctl' = "nil"

\* A write to a connection whose peer is gone fails, or is still buffered.
WriteOutcomes == IF ctl = "up" THEN {"ok"} ELSE {"ok", "error"}

\* writeReset, on the connection that lockControlConn returns.
writeReset ==
  /\ UNCHANGED ctl \/ (ctl = "dead" /\ markControlBroken)
  /\ UNCHANGED vid

\* requestKeyframe, throttled by tryMarkReset.
requestKeyframe ==
  IF resetAge < MinInterval THEN UNCHANGED <<resetAge, conns>>
  ELSE resetAge' = 0 /\ writeReset

forceRequestKeyframe == resetAge' = 0 /\ writeReset
-----------------------------------------------------------------------------
(* drainFrames and feedStreamDecoder.                                       *)

\* The time of arrival is when the frame is cached.
Arrived == /\ image' = IF drain = "late" THEN "late" ELSE "new"
           /\ fresh' = TRUE /\ imageAge' = 0
           /\ since' = [t \in Threads |-> TRUE]

\* The flag is looked at before every read, and a read ends with its
\* connection.
DrainChecks ==
  /\ drain = "top" /\ drain' = IF closed THEN "done" ELSE "read"
  /\ UNCHANGED <<streamDec, conns, reader, cache, resetAge, shots, ui, left>>

DrainEnds ==
  /\ drain = "read" /\ vid = "dead" /\ drain' = "done"
  /\ UNCHANGED <<streamDec, conns, reader, cache, resetAge, shots, ui, left>>

\* ReadFrame returns; without a stream decoder only a keyframe counts.
DrainReads ==
  /\ drain = "read" /\ vid = "up"
  /\ \/ streamDec = "open" /\ drain' = "feed" /\ UNCHANGED <<cache, since>>
     \/ streamDec = "nil" /\ drain' = "top" /\ Arrived
  /\ UNCHANGED <<streamDec, conns, reader, resetAge, pc, out, ui, left>>

\* The nil check is behind: Feed decodes a frame, holds the packet, or fails
\* and asks for a keyframe.
\* Once Close has set streamDec to nil the call panics, and no one recovers.
Feed ==
  /\ drain \in {"feed", "late"}
  /\ \/ streamDec = "open" /\ drain' = "top" /\ Arrived /\ UNCHANGED <<resetAge, conns>>
     \/ /\ streamDec = "open" /\ drain' = "top"
        /\ UNCHANGED <<cache, since>>
        /\ UNCHANGED <<resetAge, conns>> \/ requestKeyframe
     \/ /\ streamDec = "nil" /\ drain' = "panic"
        /\ UNCHANGED <<cache, since, resetAge, conns>>
  /\ UNCHANGED <<streamDec, reader, pc, out, ui, left>>

(* readDeviceMessages: a read fails once the connection is closed or its    *)
(* peer is gone, and on a message that it does not know.                    *)

\* Mutant: the reader goes without a word.
ReaderFails_Silent ==
  /\ reader = "on" /\ reader' = "off"
  /\ UNCHANGED <<streamDec, conns, drain, cache, resetAge, shots, ui, left>>

ReaderFails ==
  /\ reader = "on" /\ reader' = "off"
  /\ IF closed THEN UNCHANGED ctl ELSE markControlBroken
  /\ UNCHANGED <<streamDec, vid, drain, cache, resetAge, shots, ui, left>>
-----------------------------------------------------------------------------
(* Actions on the device: Tap, Swipe, PressKey, Back and LaunchApp check    *)
(* controlConn and then use it, unlocked, once per message.                 *)

Step(t, from, to) == pc[t] = from /\ pc' = [pc EXCEPT ![t] = to]

ActBegin ==
  /\ pc["actor"] = "idle" /\ ~closed
  /\ ctl # "nil"
  /\ pc' = [pc EXCEPT !["actor"] = "act"]
  /\ UNCHANGED <<streamDec, conns, drain, reader, cache, resetAge, since, out, ui, left>>

Aged == /\ image' = IF image = "none" THEN "none" ELSE "old"
        /\ drain' = IF drain = "feed" THEN "late" ELSE drain

\* The last message goes out (one before it leaves no trace here), or a write
\* fails: that ends the call, and marks nothing broken.
ActWrites ==
  /\ ctl # "nil"
  /\ \/ "ok" \in WriteOutcomes /\ Step("actor", "act", "note") /\ Aged
     \/ "error" \in WriteOutcomes /\ Step("actor", "act", "idle") /\ UNCHANGED <<drain, image>>
  /\ UNCHANGED <<streamDec, conns, reader, fresh, imageAge, resetAge, since, out, ui, left>>

\* Write on a nil connection; the actor recovers.
ActPanics ==
  /\ ctl = "nil" /\ Step("actor", "act", "panic")
  /\ UNCHANGED <<streamDec, conns, drain, reader, cache, resetAge, since, out, ui, left>>

Recovered ==
  /\ Step("actor", "panic", "idle")
  /\ UNCHANGED <<streamDec, conns, drain, reader, cache, resetAge, since, out, ui, left>>

\* Mutant: with a stream decoder nothing is noted.
preheatKeyframe_LegacyOnly ==
  /\ Step("actor", "note", "idle")
  /\ IF streamDec = "open" THEN UNCHANGED <<fresh, resetAge, conns>>
     ELSE fresh' = FALSE /\ requestKeyframe
  /\ UNCHANGED <<streamDec, drain, reader, image, imageAge, since, out, ui, left>>

\* preheatKeyframe: lastActionAt is now; without a stream decoder a reset,
\* throttled, follows.
preheatKeyframe ==
  /\ Step("actor", "note", "idle")
  /\ fresh' = FALSE
  /\ IF streamDec = "open" THEN UNCHANGED <<resetAge, conns>> ELSE requestKeyframe
  /\ UNCHANGED <<streamDec, drain, reader, image, imageAge, since, out, ui, left>>
-----------------------------------------------------------------------------
(* ScreenshotFormat.                                                        *)

\* What a screenshot leaves alone but for its own variables.
ShotFrame == UNCHANGED <<streamDec, drain, reader, cache, ui, left>>

\* The call by thread t begins; the caller has already left it at "shot".
ShotBegins(t) ==
  /\ pc[t] = "shot"
  /\ pc' = [pc EXCEPT ![t] = IF closed THEN "end"
                             ELSE IF streamDec = "open" THEN "try" ELSE "legacy"]
  /\ UNCHANGED <<conns, resetAge, since, out>> /\ ShotFrame

\* tryEncode's condition.
Usable == image # "none" /\ fresh /\ imageAge <= StaleCap

TryEncode(t) ==
  /\ pc[t] \in {"try", "first", "await"} /\ Usable
  /\ pc' = [pc EXCEPT ![t] = "encode"]
  /\ UNCHANGED <<conns, resetAge, since, out>> /\ ShotFrame

\* EncodeLatest: whatever is the latest by now.
Encode(t) ==
  /\ Step(t, "encode", "end")
  /\ out' = [out EXCEPT ![t] = [how |-> "direct", newer |-> since[t], path |-> "stream"]]
  /\ UNCHANGED <<conns, resetAge, since>> /\ ShotFrame

\* Stale, or no frame yet.
Ask(t) ==
  /\ pc[t] = "try" /\ ~Usable
  /\ pc' = [pc EXCEPT ![t] = IF ~IsControlAvailable THEN "last"
                             ELSE IF image = "none" THEN "first" ELSE "reset"]
  /\ UNCHANGED <<conns, resetAge, since, out>> /\ ShotFrame

\* No frame at all in time, or none that is usable: resetInFlight.
CheckReset(t, from, force, await) ==
  /\ pc[t] \in from
  /\ pc' = [pc EXCEPT ![t] = IF resetAge < InFlight THEN await ELSE force]
  /\ UNCHANGED <<conns, resetAge, since, out>> /\ ShotFrame

\* The check is behind: another thread's reset may have gone out since.
ForceReset(t, force, await) ==
  /\ Step(t, force, await) /\ forceRequestKeyframe
  /\ UNCHANGED <<since, out>> /\ ShotFrame

\* Time is up, or nobody can be asked: serve whatever there is.
LastResort(t) ==
  /\ pc[t] \in {"await", "last"} /\ pc' = [pc EXCEPT ![t] = "end"]
  /\ out' = [out EXCEPT ![t] = IF image = "none" THEN NoPicture ELSE Degraded]
  /\ UNCHANGED <<conns, resetAge, since>> /\ ShotFrame

(* screenshotLegacy.  beforePTS is taken with the age: since is reset, and  *)
(* is true again as soon as a later keyframe has come.                      *)
Legacy(t) ==
  /\ pc[t] = "legacy"
  /\ IF IsControlAvailable /\ (image = "none" \/ imageAge >= FreshWindow)
     THEN /\ pc' = [pc EXCEPT ![t] = "lreset"]
          /\ since' = [since EXCEPT ![t] = FALSE]
          /\ UNCHANGED out
     ELSE /\ pc' = [pc EXCEPT ![t] = "end"]
          /\ out' = [out EXCEPT ![t] =
               IF image = "none" THEN NoPicture
               ELSE IF ~IsControlAvailable THEN Degraded
               ELSE [how |-> "direct", newer |-> since[t], path |-> "legacy"]]
          /\ UNCHANGED since
  /\ UNCHANGED <<conns, resetAge>> /\ ShotFrame

LegacyServes(t) ==
  /\ pc[t] = "lawait"
  /\ pc' = [pc EXCEPT ![t] = "end"]
  /\ out' = [out EXCEPT ![t] =
               IF image = "none" THEN NoPicture
               ELSE IF ~since[t] THEN Degraded
               ELSE [how |-> "direct", newer |-> TRUE, path |-> "legacy"]]
  /\ UNCHANGED <<conns, resetAge, since>> /\ ShotFrame

Shot(t) ==
  \/ ShotBegins(t)
  \/ TryEncode(t)
  \/ Encode(t)
  \/ Ask(t)
  \/ CheckReset(t, {"first", "reset"}, "force", "await")
  \/ ForceReset(t, "force", "await")
  \/ LastResort(t)
  \/ Legacy(t)
  \/ CheckReset(t, {"lreset"}, "lforce", "lawait")
  \/ ForceReset(t, "lforce", "lawait")
  \/ LegacyServes(t)

ScreenshotFormat ==
  /\ pc["actor"] = "idle" /\ ~closed
  /\ pc' = [pc EXCEPT !["actor"] = "shot"]
  /\ since' = [since EXCEPT !["actor"] = image \in {"new", "late"}]
  /\ UNCHANGED <<streamDec, conns, drain, reader, cache, resetAge, out, ui, left>>

\* What belongs to the call is forgotten.
Forget(t) == /\ since' = [since EXCEPT ![t] = TRUE]
             /\ out' = [out EXCEPT ![t] = NoPicture]

ShotReturns ==
  /\ Step("actor", "end", "idle") /\ Forget("actor")
  /\ UNCHANGED <<streamDec, conns, drain, reader, cache, resetAge, ui, left>>
-----------------------------------------------------------------------------
(* Observe and ObserveFull: both fetchers run at once.  observe collects    *)
(* the two in any order under one deadline ("collect"); observeFull waits    *)
(* for the picture and then for the elements ("pic", "els").  Past its       *)
(* deadline either waits a last time for both ("grace").                     *)

ObserveFrame == UNCHANGED <<streamDec, conns, drain, reader, cache, resetAge, out>>

\* The fetchers of an observe that gave up may still run: their results go
\* into channels of their own, and the session is no longer told apart from
\* one that is shared; a second observe is only followed when they are done.
Observe ==
  /\ pc["actor"] = "idle" /\ ~closed /\ pc["img"] = "idle" /\ ui = "off"
  /\ \E how \in {"collect", "pic"} : pc' = [pc EXCEPT !["actor"] = how, !["img"] = "shot"]
  /\ since' = [since EXCEPT !["img"] = image \in {"new", "late"}]
  /\ ui' = "on" /\ left' = FALSE
  /\ ObserveFrame

\* A fetcher's result is in its channel, which is buffered.
ImgDone ==
  /\ Step("img", "end", "idle") /\ Forget("img")
  /\ UNCHANGED <<streamDec, conns, drain, reader, cache, resetAge, ui, left>>

UiDone ==
  /\ ui = "on" /\ ui' = "off"
  /\ UNCHANGED <<pc, since, left>> /\ ObserveFrame

BothDone == pc["img"] = "idle" /\ ui = "off"

\* Mutant: the first of the two results is enough.
ObserveReturns_First ==
  /\ pc["actor"] \in {"collect", "els", "grace"}
  /\ pc["img"] = "idle" \/ ui = "off"
  /\ pc' = [pc EXCEPT !["actor"] = "idle"]
  /\ UNCHANGED <<since, ui, left>> /\ ObserveFrame

ObserveReturns ==
  /\ pc["actor"] \in {"collect", "els", "grace"} /\ BothDone
  /\ pc' = [pc EXCEPT !["actor"] = "idle"]
  /\ UNCHANGED <<since, ui, left>> /\ ObserveFrame

GotPicture ==
  /\ pc["img"] = "idle" /\ Step("actor", "pic", "els")
  /\ UNCHANGED <<since, ui, left>> /\ ObserveFrame

ObserveTimeout ==
  /\ pc["actor"] \in {"collect", "pic", "els"}
  /\ pc' = [pc EXCEPT !["actor"] = "grace"]
  /\ UNCHANGED <<since, ui, left>> /\ ObserveFrame

\* Mutant: the wait for the two fetchers has no end of its own.
GraceEnds_Both ==
  /\ BothDone /\ Step("actor", "grace", "idle")
  /\ left' = TRUE
  /\ UNCHANGED <<since, ui>> /\ ObserveFrame

\* Both channels may be ready when the grace ends, too.
GraceEnds ==
  /\ Step("actor", "grace", "idle")
  /\ left' = TRUE
  /\ UNCHANGED <<since, ui>> /\ ObserveFrame
-----------------------------------------------------------------------------
(* Close, by the actor: the flag and the control connection under the lock, *)
(* then the connections, then the decoder.                                  *)

CloseBegins ==
  /\ ~closed /\ Step("actor", "idle", "closeConns")
  /\ ctl' = "nil"
  /\ UNCHANGED <<streamDec, vid, drain, reader, cache, resetAge, since, out, ui, left>>

\* Mutant: the video connection is left open.
CloseConns_ControlOnly ==
  /\ Step("actor", "closeConns", "closeDec")
  /\ UNCHANGED <<streamDec, conns, drain, reader, cache, resetAge, since, out, ui, left>>

CloseConns ==
  /\ Step("actor", "closeConns", "closeDec")
  /\ vid' = "dead"
  /\ UNCHANGED <<streamDec, ctl, drain, reader, cache, resetAge, since, out, ui, left>>

CloseDecoder ==
  /\ Step("actor", "closeDec", "closed")
  /\ streamDec' = "nil"
  /\ UNCHANGED <<conns, drain, reader, cache, resetAge, since, out, ui, left>>
-----------------------------------------------------------------------------
\* The server on the device dies, or only the control connection goes.
ServerDies ==
  /\ vid = "up" /\ vid' = "dead"
  /\ ctl' = IF ctl = "up" THEN "dead" ELSE ctl
  /\ UNCHANGED <<streamDec, drain, reader, cache, resetAge, shots, ui, left>>

ControlDies ==
  /\ ctl = "up" /\ ctl' = "dead"
  /\ UNCHANGED <<streamDec, vid, drain, reader, cache, resetAge, shots, ui, left>>

Older(age, cap) == IF age < cap THEN age + 1 ELSE age

Tick ==
  /\ imageAge' = Older(imageAge, MaxAge)
  /\ resetAge' = Older(resetAge, MinInterval)
  /\ UNCHANGED <<streamDec, conns, drain, reader, image, fresh, pc, since, out, ui, left>>

Drain == DrainChecks \/ DrainEnds \/ Feed
Act == ActWrites \/ ActPanics \/ Recovered \/ preheatKeyframe
Collect == ObserveReturns \/ GotPicture \/ ObserveTimeout \/ GraceEnds
Close == CloseConns \/ CloseDecoder
\* The actor's goroutine goes on with the call it is in.
Actor == Act \/ Shot("actor") \/ ShotReturns \/ Collect \/ Close
Fetch == Shot("img") \/ ImgDone

Next ==
  \/ Drain \/ DrainReads \/ ReaderFails
  \/ ActBegin \/ ScreenshotFormat \/ Observe \/ CloseBegins
  \/ Actor \/ Fetch \/ UiDone
  \/ ServerDies \/ ControlDies
  \/ Tick

Spec == Init /\ [][Next]_vars

\* The goroutine that drains and the actor's run when they can, and a read on
\* a dead or closed connection fails.  Nobody is obliged to send a frame, to
\* begin a call or to close, and a fetcher may hang.
FairSpec ==
  /\ Spec
  /\ WF_vars(Drain) /\ WF_vars(Actor)
  /\ WF_vars(ctl # "up" /\ ReaderFails)
-----------------------------------------------------------------------------
\* The session's variables are what the code can hold, and a closed session
\* has no control connection.
TypeOK ==
  /\ streamDec \in {"open", "nil"} /\ ctl \in {"up", "dead", "nil"}
  /\ vid \in {"up", "dead"}
  /\ drain \in {"top", "read", "feed", "late", "done", "panic"}
  /\ reader \in {"on", "off"} /\ image \in {"none", "old", "new", "late"}
  /\ imageAge \in 0 .. MaxAge /\ resetAge \in 0 .. MinInterval
  /\ fresh \in BOOLEAN /\ \A t \in Threads : since[t] \in BOOLEAN
  /\ ui \in {"off", "on"} /\ left \in BOOLEAN
  /\ closed => ctl = "nil"

\* The freshness rule of screenshotStream: the frame that it serves without a
\* warning arrived after the last action before the call, although an action
\* is noted only when its message is out, and the frame that is encoded need
\* not be the one that was checked.  It speaks of arrival, as the code does.
ArrivedAfterAction ==
  \A t \in Threads :
    out[t].how = "direct" /\ out[t].path = "stream" => out[t].newer

\* What the rule is for: such a frame shows what the action did.  Refuted: the
\* drain may have read the packet before the action and decode it after it.
ServedFrameShowsAction == [][Encode("actor") => image = "new"]_vars

\* A reset is not sent while another one is in flight (video.go:113 and 182:
\* "deduped against an in-flight reset", "exactly ONE reset").  Refuted: the
\* check and the reset are apart, and the drain's own reset after a decoding
\* error, or that of a fetcher left behind, may come in between.
ResetsSpaced ==
  [][\A t \in Threads : pc[t] \in {"force", "lforce"} /\ pc'[t] # pc[t]
                        => resetAge >= InFlight]_vars

\* ArrivedAfterAction for screenshotLegacy, whose comment takes any keyframe younger than
\* freshKeyframeWindow for a picture of the current screen.
LegacyPictureCurrent ==
  \A t \in Threads :
    out[t].how = "direct" /\ out[t].path = "legacy" => out[t].newer

\* A fetcher outlives the observe that started it only when the observe has
\* waited out its deadline and the grace (observe, drainObserveFull): nobody
\* closes the session under it otherwise.
FetchersJoined ==
  ~BothDone => left \/ pc["actor"] \in {"collect", "pic", "els", "grace"}

\* drainFrames never finds the stream decoder gone between its check and the
\* call: the comment on streamDec says that it is written only during Connect.
DecoderStays == drain # "panic"

\* No call writes to a control connection that is gone since it was checked,
\* as the comment on lockControlConn promises.
ControlConnHeld == pc["actor"] # "panic"

\* A dead connection does not go unnoticed (drainFrames, readDeviceMessages):
\* the session is no longer alive for the actor's health check, or is closed.
DeathNoticed == (vid = "dead" \/ ctl = "dead") ~> (~IsAlive \/ closed)

\* Every call on the session returns, whatever dies meanwhile: its waits are
\* bounded (ScreenshotFormat, observe, observeFull).
CallsReturn == (pc["actor"] # "idle") ~> (pc["actor"] \in {"idle", "closed"})

\* Close leaves no goroutine behind, but for the panic above.
GoroutinesEnd == closed ~> (drain \in {"done", "panic"} /\ reader = "off")
=============================================================================

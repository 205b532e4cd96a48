---------------------------- MODULE SessionProofs ----------------------------
(* Proofs about Session, for all windows: what a screenshot may serve, and   *)
(* when a fetcher may outlive its observe.                                   *)
EXTENDS Session, TLAPS

\* Where a thread takes a picture, but for the legacy path.
Streaming == {"shot", "try", "first", "reset", "force", "await", "last", "encode"}
TakingPicture == Streaming \union {"legacy", "lreset", "lforce", "lawait"}
Observing == {"collect", "pic", "els", "grace"}
Places == TakingPicture \union Observing \union
          {"idle", "act", "note", "panic", "end", "closeConns", "closeDec", "closed"}

TypesOK ==
  /\ pc \in [Threads -> Places] /\ since \in [Threads -> BOOLEAN]
  /\ DOMAIN out = Threads /\ fresh \in BOOLEAN

\* fresh lags behind the last action only until the actor notes it.
FreshIsNew == fresh /\ pc["actor"] # "note" => image \in {"new", "late"}

\* A call that finds the cached frame fresh has seen it come, or found it new
\* when it began; one that has decided to encode has found it fresh.
CallsSawIt ==
  \A t \in Threads : /\ fresh /\ pc[t] \in Streaming => since[t]
                     /\ pc[t] = "encode" => since[t]

SessionInv == TypesOK /\ FreshIsNew /\ CallsSawIt /\ ArrivedAfterAction /\ FetchersJoined

LEMMA SessionInvInit == Init => SessionInv
<1> SUFFICES ASSUME Init PROVE SessionInv
  OBVIOUS
<1>1. TypesOK
  <2>1. pc \in [Threads -> Places]
    BY DEF Init, Places
  <2>2. since \in [Threads -> BOOLEAN] /\ DOMAIN out = Threads /\ fresh \in BOOLEAN
    BY DEF Init
  <2>3. QED
    BY <2>1, <2>2 DEF TypesOK
<1>2. FreshIsNew /\ CallsSawIt
  BY DEF Init, FreshIsNew, CallsSawIt
<1>3. ArrivedAfterAction
  BY DEF Init, ArrivedAfterAction, NoPicture
<1>4. FetchersJoined
  BY DEF Init, FetchersJoined, BothDone, Threads
<1>5. QED
  BY <1>1, <1>2, <1>3, <1>4 DEF SessionInv

LEMMA QuietStep ==
  ASSUME SessionInv, UNCHANGED <<image, fresh, shots, ui, left>>
  PROVE  SessionInv'
BY DEF SessionInv, TypesOK, FreshIsNew, CallsSawIt, ArrivedAfterAction, FetchersJoined,
       BothDone, shots

LEMMA ArrivedStep ==
  ASSUME SessionInv, Arrived, UNCHANGED <<pc, out, ui, left>>
  PROVE  SessionInv'
BY DEF SessionInv, TypesOK, FreshIsNew, CallsSawIt, ArrivedAfterAction, FetchersJoined,
       BothDone, Arrived

\* The actor goes from one call to the next, or on in one that takes no
\* picture itself.
LEMMA ActorStep ==
  ASSUME SessionInv, NEW to \in Places, pc' = [pc EXCEPT !["actor"] = to],
         to \notin Streaming, fresh' = fresh \/ fresh' = FALSE,
         fresh' /\ to # "note" => image' \in {"new", "late"},
         pc["actor"] \in Observing => to \in Observing \/ BothDone,
         UNCHANGED <<since, out, ui, left>>
  PROVE  SessionInv'
<1>1. /\ pc'["actor"] = to /\ pc'["img"] = pc["img"]
      /\ pc' \in [Threads -> Places]
  BY DEF SessionInv, TypesOK, Threads
<1>2. TypesOK'
  BY <1>1 DEF SessionInv, TypesOK
<1>3. FreshIsNew' /\ ArrivedAfterAction'
  BY <1>1 DEF SessionInv, FreshIsNew, ArrivedAfterAction
<1>4. CallsSawIt'
  BY <1>1 DEF SessionInv, CallsSawIt, Threads, Streaming
<1>5. FetchersJoined'
  BY <1>1 DEF SessionInv, FetchersJoined, BothDone, Observing
<1>6. QED
  BY <1>2, <1>3, <1>4, <1>5 DEF SessionInv

LEMMA ActKeepsInv ==
  ASSUME SessionInv, ActBegin \/ Act \/ CloseBegins \/ Close
  PROVE  SessionInv'
<1>1. CASE ActBegin \/ ActPanics \/ Recovered \/ CloseBegins \/ CloseConns \/ CloseDecoder
  <2>1. PICK to \in {"act", "panic", "idle", "closeConns", "closeDec", "closed"} :
          pc' = [pc EXCEPT !["actor"] = to]
    BY <1>1 DEF ActBegin, ActPanics, Recovered, CloseBegins, CloseConns, CloseDecoder, Step
  <2>2. /\ pc["actor"] \in {"act", "panic", "idle", "closeConns", "closeDec"}
        /\ UNCHANGED <<fresh, image, since, out, ui, left>>
    BY <1>1 DEF ActBegin, ActPanics, Recovered, CloseBegins, CloseConns, CloseDecoder,
                Step, cache
  <2>3. fresh => image \in {"new", "late"}
    BY <2>2 DEF SessionInv, FreshIsNew
  <2>4. QED
    BY <2>1, <2>2, <2>3, ActorStep DEF Streaming, Observing, Places
<1>2. CASE ActWrites
  <2>1. PICK to \in {"note", "idle"} :
          /\ pc' = [pc EXCEPT !["actor"] = to] /\ pc["actor"] = "act"
          /\ to = "idle" => UNCHANGED image
    BY <1>2 DEF ActWrites, Step
  <2>2. UNCHANGED <<fresh, since, out, ui, left>>
    BY <1>2 DEF ActWrites
  <2>3. fresh => image \in {"new", "late"}
    BY <2>1 DEF SessionInv, FreshIsNew
  <2>4. QED
    BY <2>1, <2>2, <2>3, ActorStep DEF Streaming, Observing, Places
<1>3. CASE preheatKeyframe
  <2>1. /\ pc["actor"] = "note" /\ pc' = [pc EXCEPT !["actor"] = "idle"]
        /\ fresh' = FALSE /\ UNCHANGED <<since, out, ui, left>>
    BY <1>3 DEF preheatKeyframe, Step
  <2>2. QED
    BY <2>1, ActorStep DEF Streaming, Observing, Places
<1>4. QED
  BY <1>1, <1>2, <1>3 DEF Act, Close

LEMMA CollectKeepsInv ==
  ASSUME SessionInv, Collect
  PROVE  SessionInv'
<1>1. pc["actor"] \in Observing /\ UNCHANGED <<fresh, image, since, out, ui>>
  BY DEF Collect, ObserveReturns, GotPicture, ObserveTimeout, GraceEnds, ObserveFrame,
         cache, Step, Observing
<1>2. fresh => image \in {"new", "late"}
  BY <1>1 DEF SessionInv, FreshIsNew, Observing
<1>3. CASE GraceEnds
  <2>1. left' = TRUE /\ pc' = [pc EXCEPT !["actor"] = "idle"]
    BY <1>3 DEF GraceEnds, Step
  <2>2. pc'["actor"] = "idle" /\ pc'["img"] = pc["img"] /\ pc' \in [Threads -> Places]
    BY <2>1 DEF SessionInv, TypesOK, Threads, Places
  <2>3. TypesOK' /\ FreshIsNew' /\ ArrivedAfterAction' /\ FetchersJoined'
    BY <1>1, <1>2, <2>1, <2>2
       DEF SessionInv, TypesOK, FreshIsNew, ArrivedAfterAction, FetchersJoined
  <2>4. CallsSawIt'
    BY <1>1, <2>2 DEF SessionInv, CallsSawIt, Threads, Streaming
  <2>5. QED
    BY <2>3, <2>4 DEF SessionInv
<1>4. CASE ObserveReturns \/ GotPicture \/ ObserveTimeout
  <2>1. PICK to \in {"idle", "els", "grace"} :
          /\ pc' = [pc EXCEPT !["actor"] = to]
          /\ to = "idle" => BothDone
    BY <1>4 DEF ObserveReturns, GotPicture, ObserveTimeout, Step
  <2>2. UNCHANGED left
    BY <1>4 DEF ObserveReturns, GotPicture, ObserveTimeout
  <2>3. QED
    BY <1>1, <1>2, <2>1, <2>2, ActorStep DEF Streaming, Observing, Places
<1>5. QED
  BY <1>3, <1>4 DEF Collect
-----------------------------------------------------------------------------
(* Screenshots.                                                             *)

\* Thread t goes on with its picture.
LEMMA ShotStep ==
  ASSUME SessionInv, NEW t \in Threads, NEW to \in TakingPicture \union {"end"},
         pc' = [pc EXCEPT ![t] = to], pc[t] \in TakingPicture,
         to \in Streaming => pc[t] \in Streaming /\ UNCHANGED since,
         to = "encode" => fresh,
         since' \in [Threads -> BOOLEAN],
         \A u \in Threads \ {t} : since'[u] = since[u],
         DOMAIN out' = Threads, ArrivedAfterAction',
         UNCHANGED <<image, fresh, ui, left>>
  PROVE  SessionInv'
<1>1. /\ pc'[t] = to /\ \A u \in Threads \ {t} : pc'[u] = pc[u]
      /\ pc' \in [Threads -> Places]
  BY DEF SessionInv, TypesOK, Places
<1>2. TypesOK'
  BY <1>1 DEF SessionInv, TypesOK
<1>3. FreshIsNew'
  BY <1>1 DEF SessionInv, FreshIsNew, Threads, TakingPicture, Streaming
<1>4. CallsSawIt'
  BY <1>1 DEF SessionInv, CallsSawIt, Streaming
<1>5. FetchersJoined'
  BY <1>1 DEF SessionInv, FetchersJoined, BothDone, Threads, TakingPicture, Streaming
<1>6. QED
  BY <1>2, <1>3, <1>4, <1>5 DEF SessionInv

\* It has its picture, and not both directly and as it was before the action.
LEMMA ServesStep ==
  ASSUME SessionInv, NEW t \in Threads, NEW picture,
         out' = [out EXCEPT ![t] = picture],
         picture.how = "direct" /\ picture.path = "stream" => picture.newer
  PROVE  ArrivedAfterAction' /\ DOMAIN out' = Threads
BY DEF SessionInv, TypesOK, ArrivedAfterAction

LEMMA ShotKeepsInv ==
  ASSUME SessionInv, NEW t \in Threads, Shot(t)
  PROVE  SessionInv'
<1>1. UNCHANGED <<image, fresh, ui, left>>
  BY DEF Shot, ShotBegins, TryEncode, Encode, Ask, CheckReset, ForceReset, Step, LastResort, Legacy,
         LegacyServes, ShotFrame, cache
<1>2. ASSUME NEW to \in TakingPicture \union {"end"}, pc' = [pc EXCEPT ![t] = to],
             pc[t] \in TakingPicture, to \in Streaming => pc[t] \in Streaming,
             to = "encode" => fresh, UNCHANGED since, ArrivedAfterAction',
             DOMAIN out' = Threads
      PROVE  SessionInv'
  <2>1. since' \in [Threads -> BOOLEAN]
    BY <1>2 DEF SessionInv, TypesOK
  <2>2. QED
    BY <1>1, <1>2, <2>1, ShotStep
<1>3. CASE \/ ShotBegins(t) \/ TryEncode(t) \/ Ask(t)
           \/ CheckReset(t, {"first", "reset"}, "force", "await") \/ ForceReset(t, "force", "await")
           \/ CheckReset(t, {"lreset"}, "lforce", "lawait") \/ ForceReset(t, "lforce", "lawait")
  <2>1. PICK to \in TakingPicture \union {"end"} :
          /\ pc' = [pc EXCEPT ![t] = to] /\ pc[t] \in TakingPicture
          /\ to \in Streaming => pc[t] \in Streaming
          /\ to = "encode" => fresh
    BY <1>3 DEF ShotBegins, TryEncode, Ask, CheckReset, ForceReset, Step, Usable,
              TakingPicture, Streaming
  <2>2. UNCHANGED <<since, out>>
    BY <1>3 DEF ShotBegins, TryEncode, Ask, CheckReset, ForceReset, Step
  <2>3. ArrivedAfterAction' /\ DOMAIN out' = Threads
    BY <2>2 DEF SessionInv, TypesOK, ArrivedAfterAction
  <2>4. QED
    BY <1>2, <2>1, <2>2, <2>3
<1>4. ASSUME NEW picture, out' = [out EXCEPT ![t] = picture], UNCHANGED since,
             pc[t] \in TakingPicture, pc' = [pc EXCEPT ![t] = "end"],
             picture.how = "direct" /\ picture.path = "stream" => picture.newer
      PROVE  SessionInv'
  <2>1. ArrivedAfterAction' /\ DOMAIN out' = Threads
    BY <1>4, ServesStep
  <2>2. /\ "end" \in TakingPicture \union {"end"} /\ "end" \notin Streaming
        /\ "end" # "encode"
    BY DEF Streaming
  <2>3. QED
    BY <1>2, <1>4, <2>1, <2>2
<1>5. CASE Encode(t)
  <2> DEFINE picture == [how |-> "direct", newer |-> since[t], path |-> "stream"]
  <2>1. /\ pc[t] = "encode" /\ pc' = [pc EXCEPT ![t] = "end"] /\ UNCHANGED since
        /\ out' = [out EXCEPT ![t] = picture]
    BY <1>5 DEF Encode, Step
  <2>2. picture.newer
    BY <2>1 DEF SessionInv, CallsSawIt
  <2> HIDE DEF picture
  <2>3. QED
    BY <1>4, <2>1, <2>2 DEF TakingPicture, Streaming
<1>6. CASE LastResort(t)
  <2> DEFINE picture == IF image = "none" THEN NoPicture
                        ELSE Degraded
  <2>1. /\ pc[t] \in {"await", "last"} /\ pc' = [pc EXCEPT ![t] = "end"]
        /\ UNCHANGED since /\ out' = [out EXCEPT ![t] = picture]
    BY <1>6 DEF LastResort
  <2>2. picture.how # "direct"
    BY DEF NoPicture, Degraded
  <2> HIDE DEF picture
  <2>3. QED
    BY <1>4, <2>1, <2>2 DEF TakingPicture, Streaming
<1>7. CASE Legacy(t)
  <2> DEFINE picture == IF image = "none" THEN NoPicture
                        ELSE IF ~IsControlAvailable THEN Degraded
                        ELSE [how |-> "direct", newer |-> since[t], path |-> "legacy"]
  <2>1. pc[t] = "legacy"
    BY <1>7 DEF Legacy
  <2>2. CASE pc' = [pc EXCEPT ![t] = "lreset"] /\ since' = [since EXCEPT ![t] = FALSE]
             /\ UNCHANGED out
    <3>1. /\ since' \in [Threads -> BOOLEAN]
          /\ \A u \in Threads \ {t} : since'[u] = since[u]
      BY <2>2 DEF SessionInv, TypesOK
    <3>2. ArrivedAfterAction' /\ DOMAIN out' = Threads
      BY <2>2 DEF SessionInv, TypesOK, ArrivedAfterAction
    <3>3. /\ "lreset" \in TakingPicture \union {"end"} /\ "lreset" \notin Streaming
          /\ "lreset" # "encode" /\ pc[t] \in TakingPicture
      BY <2>1 DEF TakingPicture, Streaming
    <3>4. QED
      BY <1>1, <2>2, <3>1, <3>2, <3>3, ShotStep
  <2>3. CASE pc' = [pc EXCEPT ![t] = "end"] /\ UNCHANGED since
             /\ out' = [out EXCEPT ![t] = picture]
    <3>1. ~(picture.how = "direct" /\ picture.path = "stream")
      BY DEF NoPicture, Degraded
    <3> HIDE DEF picture
    <3>2. QED
      BY <1>4, <2>1, <2>3, <3>1 DEF TakingPicture, Streaming
  <2>4. QED
    BY <1>7, <2>2, <2>3 DEF Legacy
<1>8. CASE LegacyServes(t)
  <2> DEFINE picture == IF image = "none" THEN NoPicture
                        ELSE IF ~since[t] THEN Degraded
                        ELSE [how |-> "direct", newer |-> TRUE, path |-> "legacy"]
  <2>1. /\ pc[t] = "lawait" /\ pc' = [pc EXCEPT ![t] = "end"]
        /\ UNCHANGED since /\ out' = [out EXCEPT ![t] = picture]
    BY <1>8 DEF LegacyServes
  <2>2. ~(picture.how = "direct" /\ picture.path = "stream")
    BY DEF NoPicture, Degraded
  <2> HIDE DEF picture
  <2>3. QED
    BY <1>4, <2>1, <2>2 DEF TakingPicture, Streaming
<1>9. QED
  BY <1>3, <1>5, <1>6, <1>7, <1>8 DEF Shot
-----------------------------------------------------------------------------
(* Calls that begin and threads that end with their picture.                *)

LEMMA BeginKeepsInv ==
  ASSUME SessionInv, ScreenshotFormat \/ Observe
  PROVE  SessionInv'
<1>1. UNCHANGED <<image, fresh, out>>
  BY DEF ScreenshotFormat, Observe, ObserveFrame, cache
<1>2. pc["actor"] = "idle" /\ (fresh => image \in {"new", "late"})
  BY DEF ScreenshotFormat, Observe, SessionInv, FreshIsNew
<1>3. CASE ScreenshotFormat
  <2>1. /\ pc' = [pc EXCEPT !["actor"] = "shot"]
        /\ since' = [since EXCEPT !["actor"] = image \in {"new", "late"}]
        /\ UNCHANGED <<ui, left>>
    BY <1>3 DEF ScreenshotFormat
  <2>2. /\ pc'["actor"] = "shot" /\ pc'["img"] = pc["img"] /\ pc' \in [Threads -> Places]
        /\ since' \in [Threads -> BOOLEAN] /\ since'["img"] = since["img"]
        /\ fresh => since'["actor"]
    <3>1. pc \in [Threads -> Places] /\ since \in [Threads -> BOOLEAN]
      BY DEF SessionInv, TypesOK
    <3>2. since'["actor"] <=> image \in {"new", "late"}
      BY <2>1, <3>1 DEF Threads
    <3>3. since' \in [Threads -> BOOLEAN] /\ since'["img"] = since["img"]
      BY <2>1, <3>1 DEF Threads
    <3>4. /\ pc'["actor"] = "shot" /\ pc'["img"] = pc["img"]
          /\ pc' \in [Threads -> Places]
      BY <2>1, <3>1 DEF Threads, Places, TakingPicture, Streaming
    <3>5. QED
      BY <1>2, <3>2, <3>3, <3>4
  <2>3. TypesOK' /\ FreshIsNew' /\ ArrivedAfterAction' /\ FetchersJoined'
    BY <1>1, <1>2, <2>1, <2>2
       DEF SessionInv, TypesOK, FreshIsNew, ArrivedAfterAction, FetchersJoined, BothDone
  <2>4. CallsSawIt'
    BY <1>1, <1>2, <2>2 DEF SessionInv, CallsSawIt, Threads
  <2>5. QED
    BY <2>3, <2>4 DEF SessionInv
<1>4. CASE Observe
  <2>1. PICK how \in {"collect", "pic"} :
          pc' = [pc EXCEPT !["actor"] = how, !["img"] = "shot"]
    BY <1>4 DEF Observe
  <2>2. since' = [since EXCEPT !["img"] = image \in {"new", "late"}]
    BY <1>4 DEF Observe
  <2>3. /\ pc'["actor"] = how /\ pc'["img"] = "shot" /\ pc' \in [Threads -> Places]
        /\ since' \in [Threads -> BOOLEAN] /\ since'["actor"] = since["actor"]
        /\ fresh => since'["img"]
    <3>1. pc \in [Threads -> Places] /\ since \in [Threads -> BOOLEAN]
      BY DEF SessionInv, TypesOK
    <3>2. since'["img"] <=> image \in {"new", "late"}
      BY <2>2, <3>1 DEF Threads
    <3>3. since' \in [Threads -> BOOLEAN] /\ since'["actor"] = since["actor"]
      BY <2>2, <3>1 DEF Threads
    <3>4. /\ pc'["actor"] = how /\ pc'["img"] = "shot"
          /\ pc' \in [Threads -> Places]
      BY <2>1, <3>1 DEF Threads, Places, TakingPicture, Streaming, Observing
    <3>5. QED
      BY <1>2, <3>2, <3>3, <3>4
  <2>4. TypesOK' /\ FreshIsNew' /\ ArrivedAfterAction' /\ FetchersJoined'
    BY <1>1, <1>2, <2>1, <2>3
       DEF SessionInv, TypesOK, FreshIsNew, ArrivedAfterAction, FetchersJoined
  <2>5. CallsSawIt'
    BY <1>1, <1>2, <2>1, <2>3 DEF SessionInv, CallsSawIt, Threads, Streaming
  <2>6. QED
    BY <2>4, <2>5 DEF SessionInv
<1>5. QED
  BY <1>3, <1>4

LEMMA EndKeepsInv ==
  ASSUME SessionInv, NEW t \in Threads, Step(t, "end", "idle"), Forget(t),
         UNCHANGED <<image, fresh, ui, left>>
  PROVE  SessionInv'
<1>1. /\ pc[t] = "end" /\ pc' = [pc EXCEPT ![t] = "idle"]
      /\ since' = [since EXCEPT ![t] = TRUE] /\ out' = [out EXCEPT ![t] = NoPicture]
  BY DEF Step, Forget
<1>2. TypesOK'
  <2>1. pc' \in [Threads -> Places]
    BY <1>1 DEF SessionInv, TypesOK, Places
  <2>2. since' \in [Threads -> BOOLEAN] /\ DOMAIN out' = Threads /\ fresh' \in BOOLEAN
    BY <1>1 DEF SessionInv, TypesOK
  <2>3. QED
    BY <2>1, <2>2 DEF TypesOK
<1>3. ArrivedAfterAction'
  <2>1. NoPicture.how # "direct"
    BY DEF NoPicture
  <2>2. QED
    BY <1>1, <2>1, ServesStep
<1>4. FreshIsNew' /\ CallsSawIt'
  BY <1>1 DEF SessionInv, TypesOK, FreshIsNew, CallsSawIt, Threads
<1>5. FetchersJoined'
  BY <1>1 DEF SessionInv, TypesOK, FetchersJoined, BothDone, Threads
<1>6. QED
  BY <1>2, <1>3, <1>4, <1>5 DEF SessionInv

LEMMA UiDoneKeepsInv ==
  ASSUME SessionInv, UiDone
  PROVE  SessionInv'
BY DEF SessionInv, UiDone, ObserveFrame, cache, TypesOK, FreshIsNew, CallsSawIt,
       ArrivedAfterAction, FetchersJoined, BothDone

LEMMA BackgroundKeepsInv ==
  ASSUME SessionInv,
         Drain \/ DrainReads \/ ReaderFails \/ ServerDies \/ ControlDies \/ Tick
  PROVE  SessionInv'
<1>1. UNCHANGED <<pc, out, ui, left>>
  BY DEF Drain, DrainChecks, DrainEnds, Feed, DrainReads, ReaderFails, ServerDies,
         ControlDies, Tick, shots
<1>2. Arrived \/ UNCHANGED <<image, fresh, since>>
  BY DEF Drain, DrainChecks, DrainEnds, Feed, DrainReads, ReaderFails, ServerDies,
         ControlDies, Tick, shots, cache
<1>3. QED
  BY <1>1, <1>2, ArrivedStep, QuietStep DEF shots

LEMMA SessionInvStep == SessionInv /\ [Next]_vars => SessionInv'
<1> SUFFICES ASSUME SessionInv, [Next]_vars PROVE SessionInv'
  OBVIOUS
<1>1. CASE Drain \/ DrainReads \/ ReaderFails \/ ServerDies \/ ControlDies \/ Tick
  BY <1>1, BackgroundKeepsInv
<1>2. CASE ActBegin \/ CloseBegins
  BY <1>2, ActKeepsInv
<1>3. CASE ScreenshotFormat \/ Observe
  BY <1>3, BeginKeepsInv
<1>4. CASE Actor
  <2>1. CASE ShotReturns
    BY <2>1, EndKeepsInv DEF ShotReturns, cache, Threads
  <2>2. QED
    BY <1>4, <2>1, ActKeepsInv, ShotKeepsInv, CollectKeepsInv DEF Actor, Threads
<1>5. CASE Fetch
  <2>1. CASE ImgDone
    BY <2>1, EndKeepsInv DEF ImgDone, cache, Threads
  <2>2. QED
    BY <1>5, <2>1, ShotKeepsInv DEF Fetch, Threads
<1>6. CASE UiDone
  BY <1>6, UiDoneKeepsInv
<1>7. CASE UNCHANGED vars
  BY <1>7, QuietStep DEF vars, cache
<1>8. QED
  BY <1>1, <1>2, <1>3, <1>4, <1>5, <1>6, <1>7 DEF Next
-----------------------------------------------------------------------------
LEMMA SessionInvariant == Spec => []SessionInv
BY SessionInvInit, SessionInvStep, PTL DEF Spec

\* What the screenshot serves from the stream without a warning arrived after
\* the last action before the call, whichever frames, actions and fetchers come
\* between (video.go, ScreenshotFormat and tryEncode).
THEOREM ServedFramesArriveAfterAction == Spec => []ArrivedAfterAction
<1>1. SessionInv => ArrivedAfterAction
  BY DEF SessionInv
<1>2. QED
  BY <1>1, SessionInvariant, PTL

\* A fetcher that is running belongs to the observe in progress, or to one
\* that has waited out its deadline and its grace (observe.go and
\* observe_full.go).
THEOREM FetchersOutliveOnlyTheGrace == Spec => []FetchersJoined
<1>1. SessionInv => FetchersJoined
  BY DEF SessionInv
<1>2. QED
  BY <1>1, SessionInvariant, PTL
=============================================================================

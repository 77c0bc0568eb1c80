--------------------------- MODULE RtspClientProofs ---------------------------
(***************************************************************************)
(* Theorems about RtspClient, for any number of URLs and subsessions, any  *)
(* durations and any width of the timer.                                   *)
(*                                                                         *)
(* The invariant is stated stream by stream (Sound), plus the count and    *)
(* the exit condition.  Every handler either leaves its stream open        *)
(* (Continue) or shuts it down (ShutdownStream); HandlerStep says so with  *)
(* what each needs, and is all the preservation proof has to look at.      *)
(***************************************************************************)
EXTENDS RtspClient, FiniteSetTheorems, TLAPS

\* A client in use.  What may still be streaming at the server is what a sink
\* reads, and the subsession whose SETUP has just been answered.
OpenInv(s) ==
  /\ s.request = "none" => s.reply = "none"
  /\ s.request \in {"SETUP", "PLAY"} => s.session
  /\ s.request = "SETUP" => s.current \in Tracks
  /\ s.sinks # {} \/ s.bye # {} \/ s.timer # NoTimer => s.session
  /\ s.bye \subseteq s.misc
  /\ s.sinks = {} => s.misc = {}
  /\ s.up \subseteq s.sinks \cup (IF s.request = "SETUP" /\ s.reply = "ok"
                                    THEN {s.current} ELSE {})

\* A client that has been shut down.
ClosedInv(s) ==
  /\ s.request = "none" /\ s.reply = "none" /\ s.timer = NoTimer
  /\ s.bye = {} /\ s.sinks = {}
  /\ s.up # {} => s.closedIn = "SETUP"

Sound(s) ==
  /\ s.client = "unopened" => s = NewStream
  /\ s.client = "open" => OpenInv(s)
  /\ s.client = "closed" => ClosedInv(s)

\* What shutdownStream needs of the stream it is called on.
Closable(s) ==
  /\ s \in StreamState
  /\ s.client = "open"
  /\ s.sinks # {} \/ s.bye # {} \/ s.timer # NoTimer => s.session
  /\ s.up \subseteq s.sinks \/ s.request = "SETUP"

IInv ==
  /\ TypeOK
  /\ \A u \in Urls : Sound(stream[u])
  /\ \A u \in Urls : u < nextUrl <=> stream[u].client # "unopened"
  /\ CountMatchesClients
  /\ ExitsWithLastStream

\* A handler of stream u leaves it open and sound, or shuts it down.
HandlerStep(u) ==
  /\ u \in Live
  /\ \/ \E t \in StreamState : t.client = "open" /\ OpenInv(t) /\ Continue(u, t)
     \/ \E t \in StreamState : Closable(t) /\ ShutdownStream(u, t, rtspClientCount)

-----------------------------------------------------------------------------
(* The stream records.                                                     *)

\* A stream that has been shut down is closed for good.
LEMMA ShutdownCloses ==
  ASSUME NEW s, Closable(s)
  PROVE  LET t == CloseClient(CloseSinks(Teardown(s)))
         IN t \in StreamState /\ t.client = "closed" /\ ClosedInv(t)
  <1> DEFINE a == Teardown(s)
             b == CloseSinks(a)
             t == CloseClient(b)
  <1>1. /\ s \in StreamState /\ a \in StreamState
        /\ a.session = s.session /\ a.sinks = s.sinks /\ a.bye = s.bye
        /\ a.timer = s.timer /\ a.request = s.request
        /\ a.up = IF s.session /\ s.sinks # {} THEN {} ELSE s.up
    BY DEF Closable, Teardown, StreamState
  <1>2. /\ b \in StreamState
        /\ b.session = s.session /\ b.up = a.up /\ b.request = s.request
        /\ b.timer = s.timer
        /\ b.sinks = IF s.session THEN {} ELSE s.sinks
        /\ b.bye = IF s.session THEN s.bye \ s.sinks ELSE s.bye
    BY <1>1 DEF CloseSinks, StreamState
  <1>3. /\ t \in StreamState
        /\ t.client = "closed" /\ t.request = "none" /\ t.reply = "none"
        /\ t.closedIn = s.request /\ t.sinks = b.sinks /\ t.up = a.up
        /\ t.timer = IF s.session THEN NoTimer ELSE s.timer
        /\ t.bye = IF s.session THEN {} ELSE b.bye
    BY <1>2 DEF CloseClient, StreamState, Commands
  <1>4. ClosedInv(t)
    BY <1>1, <1>2, <1>3 DEF ClosedInv, Closable
  <1> QED  BY <1>3, <1>4

\* An open stream can be shut down at any time.
LEMMA OpenIsClosable ==
  ASSUME NEW s \in StreamState, s.client = "open", OpenInv(s)
  PROVE  Closable(s)
  BY DEF OpenInv, Closable

\* A stream between two commands: no response awaited, nothing streaming
\* that no sink reads.
Idle(s) ==
  /\ s \in StreamState /\ s.client = "open"
  /\ s.session
  /\ s.request = "none" /\ s.reply = "none"
  /\ s.bye \subseteq s.misc
  /\ s.sinks = {} => s.misc = {}
  /\ s.up \subseteq s.sinks

LEMMA SetupSentOpen ==
  ASSUME NEW s, Idle(s), NEW t \in SetupSent(s)
  PROVE  t \in StreamState /\ t.client = "open" /\ OpenInv(t)
  <1>1. PICK i \in (s.current + 1)..s.tracks :
          t = [s EXCEPT !.current = i, !.request = "SETUP"]
    BY DEF SetupSent
  <1>2. i \in Tracks /\ i \in 0..(MaxTracks + 1)
    BY <1>1, ConstantsAssumption DEF Idle, StreamState, Tracks
  <1> QED  BY <1>1, <1>2 DEF Idle, OpenInv, StreamState, Commands

LEMMA PlaySentOpen ==
  ASSUME NEW s, Idle(s), NEW t \in PlaySent(s)
  PROVE  /\ t \in StreamState /\ t.client = "open" /\ OpenInv(t)
         /\ Closable([t EXCEPT !.request = "none"])
  <1>1. PICK d \in Durations :
          t = [s EXCEPT !.current = s.tracks + 1, !.request = "PLAY", !.duration = d]
    BY DEF PlaySent
  <1>2. s.tracks + 1 \in 0..(MaxTracks + 1) /\ d \in Nat
    BY ConstantsAssumption DEF Idle, StreamState
  <1>3. t \in StreamState /\ t.client = "open" /\ OpenInv(t)
    BY <1>1, <1>2 DEF Idle, OpenInv, StreamState, Commands
  <1>4. Closable([t EXCEPT !.request = "none"])
    BY <1>1, <1>3, ZenonT(30) DEF Idle, Closable, StreamState, Commands
  <1> QED  BY <1>3, <1>4

\* setupNextSubsession is a handler step, from any idle stream.
LEMMA SetupNextStep ==
  ASSUME NEW u \in Live, NEW s, Idle(s), SetupNextSubsession(u, s)
  PROVE  HandlerStep(u)
  <1>1. CASE \E t \in SetupSent(s) \cup PlaySent(s) : Continue(u, t)
    BY <1>1, SetupSentOpen, PlaySentOpen DEF HandlerStep
  <1>2. CASE \E t \in PlaySent(s) :
               ShutdownStream(u, [t EXCEPT !.request = "none"], rtspClientCount)
    <2>1. PICK t \in PlaySent(s) :
            ShutdownStream(u, [t EXCEPT !.request = "none"], rtspClientCount)
      BY <1>2
    <2>2. Closable([t EXCEPT !.request = "none"])
      BY PlaySentOpen
    <2> QED  BY <2>1, <2>2 DEF HandlerStep, Closable
  <1> QED  BY <1>1, <1>2 DEF SetupNextSubsession

-----------------------------------------------------------------------------
(* Each handler is a handler step.                                         *)

\* The reply has been taken off the wire: what is left may be shut down, and
\* is idle unless it is the reply to a SETUP that succeeded.
LEMMA DeliveredStream ==
  ASSUME IInv, NEW u \in Urls, stream[u].client = "open",
         stream[u].request # "SETUP" \/ stream[u].reply # "ok"
  PROVE  /\ Closable(Delivered(u))
         /\ OpenInv(Delivered(u))
         /\ stream[u].session => Idle(Delivered(u))
  <1> DEFINE s == stream[u]
             t == Delivered(u)
  <1>1. s \in StreamState /\ OpenInv(s)
    BY DEF IInv, TypeOK, Sound
  <1>2. /\ t \in StreamState /\ t.client = "open"
        /\ t.request = "none" /\ t.reply = "none" /\ t.session = s.session
        /\ t.misc = s.misc /\ t.sinks = s.sinks /\ t.bye = s.bye
        /\ t.timer = s.timer /\ t.up = s.up
    BY <1>1 DEF Delivered, StreamState, Commands
  <1>3. t.up \subseteq t.sinks
    BY <1>1, <1>2 DEF OpenInv
  <1>4. OpenInv(t)
    BY <1>1, <1>2, <1>3 DEF OpenInv
  <1> QED  BY <1>1, <1>2, <1>3, <1>4, OpenIsClosable DEF Idle, OpenInv

LEMMA DescribeStep ==
  ASSUME IInv, NEW u \in Urls, ContinueAfterDESCRIBE(u)
  PROVE  HandlerStep(u) /\ UNCHANGED nextUrl
  <1> DEFINE s == Delivered(u)
  <1>1. /\ u \in Live /\ stream[u].client = "open"
        /\ stream[u].request = "DESCRIBE" /\ stream[u] \in StreamState
    BY DEF ContinueAfterDESCRIBE, Answered, InEventLoop, Live, IInv, TypeOK
  <1>2. Closable(s) /\ OpenInv(s) /\ s \in StreamState
    BY <1>1, DeliveredStream DEF Closable
  <1>3. s.request = "none" /\ s.reply = "none"
    BY <1>1 DEF Delivered, StreamState, Commands
  <1>4. CASE ShutdownStream(u, s, rtspClientCount)
    BY <1>1, <1>2, <1>4 DEF HandlerStep, ContinueAfterDESCRIBE
  <1>5. ASSUME NEW n \in 0..MaxTracks,
               LET t == [s EXCEPT !.session = TRUE, !.tracks = n]
               IN /\ n + OtherTracks(u) <= MaxTotal
                  /\ IF n = 0 THEN ShutdownStream(u, t, rtspClientCount)
                              ELSE SetupNextSubsession(u, t)
        PROVE  HandlerStep(u)
    <2> DEFINE t == [s EXCEPT !.session = TRUE, !.tracks = n]
    <2>1. /\ t \in StreamState /\ t.client = "open" /\ t.session
          /\ t.request = "none" /\ t.reply = "none" /\ t.misc = s.misc
          /\ t.sinks = s.sinks /\ t.bye = s.bye /\ t.up = s.up
      BY <1>2, <1>3 DEF StreamState, Closable
    <2>2. Idle(t)
      BY <2>1, <1>2, <1>3 DEF Idle, OpenInv
    <2>3. Closable(t)
      BY <2>2 DEF Idle, Closable
    <2>4. CASE n = 0
      BY <1>1, <1>5, <2>1, <2>3, <2>4 DEF HandlerStep
    <2>5. CASE n # 0
      BY <1>1, <1>5, <2>2, <2>5, SetupNextStep
    <2> QED  BY <2>4, <2>5
  <1> QED  BY <1>4, <1>5 DEF ContinueAfterDESCRIBE

LEMMA SetupStep ==
  ASSUME IInv, NEW u \in Urls, ContinueAfterSETUP(u)
  PROVE  HandlerStep(u) /\ UNCHANGED nextUrl
  <1> DEFINE s == Delivered(u)
  <1>1. /\ u \in Live /\ stream[u].client = "open"
        /\ stream[u].request = "SETUP" /\ stream[u] \in StreamState
        /\ OpenInv(stream[u])
    BY DEF ContinueAfterSETUP, Answered, InEventLoop, Live, IInv, TypeOK, Sound
  <1>2. CASE stream[u].reply = "error" /\ SetupNextSubsession(u, s)
    <2>1. Idle(s)
      BY <1>1, <1>2, DeliveredStream DEF OpenInv
    <2> QED  BY <1>1, <1>2, <2>1, SetupNextStep DEF ContinueAfterSETUP
  <1>3. ASSUME stream[u].reply = "ok", NEW hasRtcp \in BOOLEAN,
               SetupNextSubsession(u, WithSink(s, hasRtcp))
        PROVE  HandlerStep(u)
    <2> DEFINE t == WithSink(s, hasRtcp)
               i == stream[u].current
    <2>1. /\ s \in StreamState /\ s.client = "open" /\ s.session
          /\ s.request = "none" /\ s.reply = "none" /\ s.current = i
          /\ s.misc = stream[u].misc /\ s.sinks = stream[u].sinks
          /\ s.bye = stream[u].bye /\ s.up = stream[u].up
      BY <1>1 DEF Delivered, StreamState, Commands, OpenInv
    <2>2. i \in Tracks /\ s.up \subseteq s.sinks \cup {i} /\ s.bye \subseteq s.misc
      BY <1>1, <1>3, <2>1 DEF OpenInv
    <2>3. /\ t.misc = s.misc \cup {i} /\ t.sinks = s.sinks \cup {i}
          /\ t.bye = IF hasRtcp THEN s.bye \cup {i} ELSE s.bye
          /\ t.client = "open" /\ t.session /\ t.request = "none"
          /\ t.reply = "none" /\ t.up = s.up /\ t \in StreamState
      BY <2>1, <2>2, ZenonT(30) DEF WithSink, StreamState
    <2>4. Idle(t)
      BY <2>2, <2>3 DEF Idle
    <2> QED  BY <1>1, <1>3, <2>4, SetupNextStep
  <1> QED  BY <1>2, <1>3 DEF ContinueAfterSETUP

LEMMA PlayStep ==
  ASSUME IInv, NEW u \in Urls, ContinueAfterPLAY(u)
  PROVE  HandlerStep(u) /\ UNCHANGED nextUrl
  <1> DEFINE s == Delivered(u)
             d == s.duration + DelaySlop
  <1>1. /\ u \in Live /\ stream[u].client = "open"
        /\ stream[u].request = "PLAY" /\ stream[u] \in StreamState
        /\ OpenInv(stream[u])
    BY DEF ContinueAfterPLAY, Answered, InEventLoop, Live, IInv, TypeOK, Sound
  <1>2. Closable(s) /\ OpenInv(s) /\ Idle(s) /\ s \in StreamState /\ s.client = "open"
    BY <1>1, DeliveredStream DEF OpenInv, Idle
  <1>3. CASE ShutdownStream(u, s, rtspClientCount)
    BY <1>1, <1>2, <1>3 DEF HandlerStep, ContinueAfterPLAY
  <1>4. ASSUME NEW delay \in MicrosecondsToUInt(d),
               Continue(u, [s EXCEPT !.duration = d, !.timer = delay])
        PROVE  HandlerStep(u)
    <2> DEFINE t == [s EXCEPT !.duration = d, !.timer = delay]
    <2>1. d \in Nat
      BY <1>2 DEF StreamState, DelaySlop
    <2>2. d % UIntSpan \in Nat /\ UIntSpan - 1 \in Nat
      BY <2>1, ConstantsAssumption
    <2>3. delay \in Nat
      BY <2>1, <2>2 DEF MicrosecondsToUInt
    <2>4. t \in StreamState /\ t.client = "open" /\ OpenInv(t)
      BY <1>2, <2>1, <2>3 DEF StreamState, OpenInv, Idle
    <2> QED  BY <1>1, <1>4, <2>4 DEF HandlerStep
  <1>5. CASE Continue(u, s)
    BY <1>1, <1>2, <1>5 DEF HandlerStep, ContinueAfterPLAY
  <1> QED  BY <1>3, <1>4, <1>5 DEF ContinueAfterPLAY

\* subsessionAfterPlaying, for a subsession whose media has ended.
LEMMA AfterPlayingStep ==
  ASSUME NEW u \in Live, NEW s \in StreamState, s.client = "open", OpenInv(s),
         NEW i, i \notin s.up, SubsessionAfterPlaying(u, s, i)
  PROVE  HandlerStep(u)
  <1> DEFINE t == [s EXCEPT !.sinks = @ \ {i}]
  <1>1. /\ t \in StreamState /\ t.client = "open" /\ t.sinks = s.sinks \ {i}
        /\ t.session = s.session /\ t.bye = s.bye /\ t.timer = s.timer
        /\ t.up = s.up /\ t.request = s.request /\ t.reply = s.reply
        /\ t.current = s.current /\ t.misc = s.misc
    BY DEF StreamState
  <1>2. Closable(t)
    BY <1>1 DEF Closable, OpenInv
  <1>3. t.sinks # {} => OpenInv(t)
    BY <1>1 DEF OpenInv
  <1> QED  BY <1>1, <1>2, <1>3 DEF SubsessionAfterPlaying, HandlerStep

LEMMA TrackStep ==
  ASSUME IInv, NEW u \in Urls, TrackEvents(u)
  PROVE  HandlerStep(u) /\ UNCHANGED nextUrl
  <1> DEFINE s == stream[u]
  <1> SUFFICES ASSUME NEW i \in Tracks,
                      \/ SourceClosure(u, i) \/ SubsessionByeHandler(u, i)
                      \/ MediaEnds(u, i)
               PROVE  HandlerStep(u) /\ UNCHANGED nextUrl
    BY DEF TrackEvents
  <1>1. /\ u \in Live /\ s.client = "open"
        /\ s \in StreamState /\ OpenInv(s)
    BY DEF SourceClosure, SubsessionByeHandler, MediaEnds, InEventLoop, Live,
           IInv, TypeOK, Sound
  <1>2. UNCHANGED nextUrl
    BY DEF SourceClosure, SubsessionByeHandler, MediaEnds
  <1>3. CASE SourceClosure(u, i)
    BY <1>1, <1>2, <1>3, AfterPlayingStep DEF SourceClosure
  <1>4. CASE SubsessionByeHandler(u, i)
    <2> DEFINE t == [s EXCEPT !.bye = @ \ {i}]
    <2>1. /\ t \in StreamState /\ t.client = "open" /\ t.sinks = s.sinks
          /\ t.session = s.session /\ t.bye = s.bye \ {i} /\ t.timer = s.timer
          /\ t.up = s.up /\ t.request = s.request /\ t.reply = s.reply
          /\ t.current = s.current /\ t.misc = s.misc
      BY <1>1 DEF StreamState
    <2>2. OpenInv(t)
      BY <1>1, <2>1 DEF OpenInv
    <2>3. i \notin t.up /\ SubsessionAfterPlaying(u, t, i)
      BY <1>4, <2>1 DEF SubsessionByeHandler
    <2> QED  BY <1>1, <1>2, <2>1, <2>2, <2>3, AfterPlayingStep
  <1>5. CASE MediaEnds(u, i)
    <2> DEFINE t == [s EXCEPT !.up = @ \ {i}]
    <2>1. /\ t \in StreamState /\ t.client = "open" /\ t.sinks = s.sinks
          /\ t.session = s.session /\ t.bye = s.bye /\ t.timer = s.timer
          /\ t.up = s.up \ {i} /\ t.request = s.request /\ t.reply = s.reply
          /\ t.current = s.current /\ t.misc = s.misc
      BY <1>1 DEF StreamState
    <2>2. OpenInv(t)
      BY <1>1, <2>1 DEF OpenInv
    <2> QED  BY <1>1, <1>2, <1>5, <2>1, <2>2 DEF MediaEnds, HandlerStep
  <1> QED  BY <1>3, <1>4, <1>5

LEMMA TimerStep ==
  ASSUME IInv, NEW u \in Urls, StreamTimerHandler(u)
  PROVE  HandlerStep(u) /\ UNCHANGED nextUrl
  <1> DEFINE s == stream[u]
             t == [s EXCEPT !.timer = NoTimer]
  <1>1. /\ u \in Live /\ s.client = "open"
        /\ s \in StreamState /\ OpenInv(s)
    BY DEF StreamTimerHandler, InEventLoop, Live, IInv, TypeOK, Sound
  <1>2. /\ t \in StreamState /\ t.client = "open" /\ t.sinks = s.sinks
        /\ t.session = s.session /\ t.bye = s.bye /\ t.timer = NoTimer
        /\ t.up = s.up /\ t.request = s.request
    BY <1>1 DEF StreamState
  <1>3. Closable(t)
    BY <1>1, <1>2 DEF Closable, OpenInv
  <1> QED  BY <1>1, <1>2, <1>3 DEF StreamTimerHandler, HandlerStep

LEMMA ServerStep ==
  ASSUME IInv, NEW u \in Urls, ServerAnswers(u)
  PROVE  HandlerStep(u) /\ UNCHANGED nextUrl
  <1> DEFINE s == stream[u]
             e == [s EXCEPT !.reply = "error"]
             o == [s EXCEPT !.reply = "ok",
                     !.up = IF s.request = "SETUP" THEN @ \cup {s.current} ELSE @]
  <1>1. /\ s \in StreamState /\ Sound(s)
        /\ s.request # "none" /\ s.reply = "none" /\ UNCHANGED nextUrl
    BY DEF ServerAnswers, IInv, TypeOK
  <1>2. s.client = "open" /\ u \in Live /\ OpenInv(s)
    BY <1>1 DEF Sound, ClosedInv, NewStream, StreamState, Live
  <1>3. e \in StreamState /\ e.client = "open" /\ OpenInv(e)
    BY <1>1, <1>2 DEF StreamState, OpenInv
  <1>4. o \in StreamState /\ o.client = "open" /\ OpenInv(o)
    BY <1>1, <1>2 DEF StreamState, OpenInv
  <1> QED  BY <1>1, <1>2, <1>3, <1>4 DEF ServerAnswers, HandlerStep

-----------------------------------------------------------------------------
(* The clients in use.                                                     *)

LEMMA LiveFinite == IsFiniteSet(Live) /\ Live \subseteq Urls
  <1>1. IsFiniteSet(Urls)
    BY FS_Interval, ConstantsAssumption DEF Urls
  <1>2. Live \subseteq Urls
    BY DEF Live
  <1> QED  BY <1>1, <1>2, FS_Subset

\* Shutting stream u down takes exactly u out of the streams in use; the
\* process goes on exactly when another stream is left.
LEMMA ShutdownLive ==
  ASSUME IInv, NEW u \in Live, NEW t \in StreamState, Closable(t),
         ShutdownStream(u, t, rtspClientCount)
  PROVE  /\ Live' = Live \ {u}
         /\ stream'[u].client = "closed"
         /\ \A v \in Urls \ {u} : stream'[v] = stream[v]
         /\ stream' \in [Urls -> StreamState] /\ ClosedInv(stream'[u])
         /\ rtspClientCount' = Cardinality(Live \ {u})
         /\ rtspClientCount' \in Nat
         /\ running' = (Live \ {u} # {})
  <1> DEFINE s == CloseClient(CloseSinks(Teardown(t)))
  <1>1. s \in StreamState /\ s.client = "closed" /\ ClosedInv(s)
    BY ShutdownCloses
  <1>2. u \in Urls /\ stream \in [Urls -> StreamState]
    BY LiveFinite DEF IInv, TypeOK
  <1>3. /\ stream' = [stream EXCEPT ![u] = s]
        /\ rtspClientCount' = rtspClientCount - 1
        /\ running' = (rtspClientCount - 1 # 0)
    BY DEF ShutdownStream
  <1>4. /\ stream'[u] = s
        /\ \A v \in Urls \ {u} : stream'[v] = stream[v]
        /\ stream' \in [Urls -> StreamState]
    BY <1>1, <1>2, <1>3
  <1>5. Live' = Live \ {u}
    BY <1>1, <1>4 DEF Live
  <1>6. /\ Cardinality(Live \ {u}) = Cardinality(Live) - 1
        /\ IsFiniteSet(Live \ {u})
    BY LiveFinite, FS_RemoveElement
  <1>7. /\ Cardinality(Live \ {u}) \in Nat
        /\ Cardinality(Live \ {u}) = 0 <=> Live \ {u} = {}
    BY <1>6, FS_CardinalityType, FS_EmptySet
  <1>8. rtspClientCount' = Cardinality(Live \ {u})
    BY <1>3, <1>6 DEF IInv, CountMatchesClients
  <1>9. running' = (Live \ {u} # {})
    BY <1>3, <1>7, <1>8
  <1> QED  BY <1>1, <1>4, <1>5, <1>7, <1>8, <1>9

LEMMA ContinueLive ==
  ASSUME IInv, NEW u \in Live, NEW t \in StreamState, t.client = "open",
         Continue(u, t)
  PROVE  /\ Live' = Live
         /\ stream'[u] = t
         /\ \A v \in Urls \ {u} : stream'[v] = stream[v]
         /\ stream' \in [Urls -> StreamState]
         /\ UNCHANGED <<running, rtspClientCount>>
  <1>1. u \in Urls /\ stream \in [Urls -> StreamState] /\ stream[u].client = "open"
    BY DEF IInv, TypeOK, Live
  <1>2. /\ stream'[u] = t
        /\ \A v \in Urls \ {u} : stream'[v] = stream[v]
        /\ stream' \in [Urls -> StreamState]
        /\ UNCHANGED <<running, rtspClientCount>>
    BY <1>1 DEF Continue
  <1>3. Live' = Live
    BY <1>1, <1>2 DEF Live
  <1> QED  BY <1>2, <1>3

\* Every handler preserves the invariant.
LEMMA HandlerKeepsInv ==
  ASSUME IInv, NEW u \in Urls, HandlerStep(u), UNCHANGED nextUrl
  PROVE  IInv'
  <1>1. u \in Live /\ stream[u].client = "open" /\ u < nextUrl
    BY DEF HandlerStep, Live, IInv
  <1>2. nextUrl # 1
    BY <1>1 DEF IInv, TypeOK, Urls
  <1>3. CASE \E t \in StreamState : t.client = "open" /\ OpenInv(t) /\ Continue(u, t)
    <2>1. PICK t \in StreamState : t.client = "open" /\ OpenInv(t) /\ Continue(u, t)
      BY <1>3
    <2>2. /\ Live' = Live
          /\ stream'[u] = t
          /\ \A v \in Urls \ {u} : stream'[v] = stream[v]
          /\ stream' \in [Urls -> StreamState]
          /\ UNCHANGED <<running, rtspClientCount, nextUrl>>
      BY <1>1, <2>1, ContinueLive
    <2>3. TypeOK'
      BY <2>2 DEF TypeOK, IInv
    <2>4. \A v \in Urls : Sound(stream'[v])
      BY <2>1, <2>2 DEF Sound, IInv
    <2>5. \A v \in Urls : v < nextUrl' <=> stream'[v].client # "unopened"
      BY <1>1, <2>1, <2>2 DEF IInv
    <2>6. CountMatchesClients' /\ ExitsWithLastStream'
      BY <2>2 DEF CountMatchesClients, ExitsWithLastStream, IInv
    <2> QED  BY <2>3, <2>4, <2>5, <2>6 DEF IInv
  <1>4. CASE \E t \in StreamState :
               Closable(t) /\ ShutdownStream(u, t, rtspClientCount)
    <2>1. PICK t \in StreamState : Closable(t) /\ ShutdownStream(u, t, rtspClientCount)
      BY <1>4
    <2>2. /\ Live' = Live \ {u}
          /\ stream'[u].client = "closed"
          /\ \A v \in Urls \ {u} : stream'[v] = stream[v]
          /\ stream' \in [Urls -> StreamState] /\ ClosedInv(stream'[u])
          /\ rtspClientCount' = Cardinality(Live \ {u})
          /\ rtspClientCount' \in Nat
          /\ running' = (Live \ {u} # {})
      BY <1>1, <2>1, ShutdownLive
    <2>3. TypeOK'
      BY <2>2 DEF TypeOK, IInv
    <2>4. \A v \in Urls : Sound(stream'[v])
      BY <2>2 DEF Sound, IInv
    <2>5. \A v \in Urls : v < nextUrl' <=> stream'[v].client # "unopened"
      BY <1>1, <2>2 DEF IInv
    <2>6. CountMatchesClients' /\ ExitsWithLastStream'
      BY <1>2, <2>2 DEF CountMatchesClients, ExitsWithLastStream
    <2> QED  BY <2>3, <2>4, <2>5, <2>6 DEF IInv
  <1> QED  BY <1>3, <1>4 DEF HandlerStep

\* Opening a URL adds one client, or none when DESCRIBE cannot be sent.
LEMMA OpenEffect ==
  ASSUME IInv, OpenURL
  PROVE  /\ running /\ nextUrl \in Urls /\ stream[nextUrl].client = "unopened"
         /\ nextUrl' = nextUrl + 1
         /\ stream' \in [Urls -> StreamState]
         /\ \A v \in Urls \ {nextUrl} : stream'[v] = stream[v]
         /\ \/ /\ Live' = Live \cup {nextUrl}
               /\ stream'[nextUrl].client = "open" /\ OpenInv(stream'[nextUrl])
               /\ rtspClientCount' = rtspClientCount + 1
               /\ running' = running
            \/ /\ Live' = Live
               /\ stream'[nextUrl].client = "closed" /\ ClosedInv(stream'[nextUrl])
               /\ rtspClientCount' = rtspClientCount
               /\ running' = (rtspClientCount # 0)
  <1> DEFINE s == [NewStream EXCEPT !.client = "open"]
             r == [s EXCEPT !.request = "DESCRIBE"]
             c == CloseClient(CloseSinks(Teardown(s)))
  <1>1. /\ running /\ nextUrl \in Urls /\ nextUrl' = nextUrl + 1
        /\ stream \in [Urls -> StreamState] /\ rtspClientCount \in Nat
    BY ConstantsAssumption DEF OpenURL, IInv, TypeOK, Urls
  <1>2. stream[nextUrl].client = "unopened"
    BY <1>1 DEF IInv, Urls
  <1>3. NewStream \in StreamState
    BY ConstantsAssumption DEF NewStream, StreamState, Commands, NoTimer
  <1>4. /\ s \in StreamState /\ s.client = "open" /\ s.sinks = {} /\ s.bye = {}
        /\ s.timer = NoTimer /\ s.up = {} /\ s.misc = {} /\ s.reply = "none"
    BY <1>3 DEF NewStream, StreamState
  <1>5. r \in StreamState /\ r.client = "open" /\ OpenInv(r)
    BY <1>3, <1>4 DEF NewStream, StreamState, OpenInv, Commands
  <1>6. c \in StreamState /\ c.client = "closed" /\ ClosedInv(c)
    BY <1>4, ShutdownCloses DEF Closable
  <1>7. CASE /\ stream' = [stream EXCEPT ![nextUrl] = r]
             /\ rtspClientCount' = rtspClientCount + 1
             /\ UNCHANGED running
    <2>1. /\ stream'[nextUrl] = r /\ stream' \in [Urls -> StreamState]
          /\ \A v \in Urls \ {nextUrl} : stream'[v] = stream[v]
      BY <1>1, <1>5, <1>7
    <2>2. Live' = Live \cup {nextUrl}
      BY <1>1, <1>5, <2>1 DEF Live
    <2> QED  BY <1>1, <1>2, <1>5, <1>7, <2>1, <2>2
  <1>8. CASE ShutdownStream(nextUrl, s, rtspClientCount + 1)
    <2>1. /\ stream'[nextUrl] = c /\ stream' \in [Urls -> StreamState]
          /\ \A v \in Urls \ {nextUrl} : stream'[v] = stream[v]
      BY <1>1, <1>6, <1>8 DEF ShutdownStream
    <2>2. Live' = Live
      BY <1>1, <1>2, <1>6, <2>1 DEF Live
    <2>3. rtspClientCount' = rtspClientCount /\ running' = (rtspClientCount # 0)
      BY <1>1, <1>8 DEF ShutdownStream
    <2> QED  BY <1>1, <1>2, <1>6, <2>1, <2>2, <2>3
  <1> QED  BY <1>7, <1>8 DEF OpenURL

LEMMA OpenKeepsInv ==
  ASSUME IInv, OpenURL
  PROVE  IInv'
  <1>1. /\ running /\ nextUrl \in Urls /\ stream[nextUrl].client = "unopened"
        /\ nextUrl' = nextUrl + 1
        /\ stream' \in [Urls -> StreamState]
        /\ \A v \in Urls \ {nextUrl} : stream'[v] = stream[v]
    BY OpenEffect
  <1>2. /\ nextUrl \notin Live /\ nextUrl' \in 1..(NumUrls + 1)
        /\ rtspClientCount \in Nat /\ rtspClientCount = Cardinality(Live)
    BY <1>1, ConstantsAssumption DEF Live, Urls, IInv, TypeOK, CountMatchesClients
  <1>3. \A v \in Urls : v < nextUrl' <=> v < nextUrl \/ v = nextUrl
    BY <1>1 DEF Urls
  <1>4. CASE /\ Live' = Live \cup {nextUrl}
             /\ stream'[nextUrl].client = "open" /\ OpenInv(stream'[nextUrl])
             /\ rtspClientCount' = rtspClientCount + 1
             /\ running' = running
    <2>1. CountMatchesClients'
      BY <1>2, <1>4, LiveFinite, FS_AddElement DEF CountMatchesClients
    <2>2. ExitsWithLastStream'
      BY <1>1, <1>4 DEF ExitsWithLastStream
    <2>3. TypeOK'
      BY <1>1, <1>2, <1>4 DEF TypeOK, IInv
    <2>4. \A v \in Urls : Sound(stream'[v])
      BY <1>1, <1>4 DEF Sound, IInv
    <2>5. \A v \in Urls : v < nextUrl' <=> stream'[v].client # "unopened"
      BY <1>1, <1>3, <1>4 DEF IInv
    <2> QED  BY <2>1, <2>2, <2>3, <2>4, <2>5 DEF IInv
  <1>5. CASE /\ Live' = Live
             /\ stream'[nextUrl].client = "closed" /\ ClosedInv(stream'[nextUrl])
             /\ rtspClientCount' = rtspClientCount
             /\ running' = (rtspClientCount # 0)
    <2>1. CountMatchesClients'
      BY <1>2, <1>5 DEF CountMatchesClients
    <2>2. ExitsWithLastStream'
      <3>1. Cardinality(Live) = 0 <=> Live = {}
        BY LiveFinite, FS_EmptySet
      <3>2. nextUrl' # 1
        BY <1>1 DEF Urls
      <3> QED  BY <1>2, <1>5, <3>1, <3>2 DEF ExitsWithLastStream
    <2>3. TypeOK'
      BY <1>1, <1>2, <1>5 DEF TypeOK, IInv
    <2>4. \A v \in Urls : Sound(stream'[v])
      BY <1>1, <1>5 DEF Sound, IInv
    <2>5. \A v \in Urls : v < nextUrl' <=> stream'[v].client # "unopened"
      BY <1>1, <1>3, <1>5 DEF IInv
    <2> QED  BY <2>1, <2>2, <2>3, <2>4, <2>5 DEF IInv
  <1> QED  BY <1>4, <1>5, OpenEffect

-----------------------------------------------------------------------------
(* The theorems.                                                           *)

LEMMA InitInv == Init => IInv
  <1> SUFFICES ASSUME Init
               PROVE  IInv
    OBVIOUS
  <1>1. NewStream \in StreamState
    BY ConstantsAssumption DEF NewStream, StreamState, Commands, NoTimer
  <1>2. \A u \in Urls : stream[u] = NewStream /\ stream[u].client = "unopened"
    BY DEF Init, NewStream
  <1>3. Live = {}
    BY <1>2 DEF Live
  <1>4. TypeOK
    BY <1>1, ConstantsAssumption DEF Init, TypeOK
  <1>5. CountMatchesClients /\ ExitsWithLastStream
    BY <1>3, FS_EmptySet DEF Init, CountMatchesClients, ExitsWithLastStream
  <1> QED  BY <1>2, <1>4, <1>5 DEF IInv, Init, Sound, Urls

\* The steps of one stream, all of them handler steps.
StreamStep(u) == Handlers(u) \/ TrackEvents(u) \/ ServerAnswers(u)

LEMMA StreamSteps ==
  ASSUME IInv, NEW u \in Urls, StreamStep(u)
  PROVE  HandlerStep(u) /\ UNCHANGED nextUrl
  BY DescribeStep, SetupStep, PlayStep, TimerStep, TrackStep, ServerStep
     DEF StreamStep, Handlers

LEMMA NextInv == IInv /\ [Next]_vars => IInv'
  <1> SUFFICES ASSUME IInv, [Next]_vars
               PROVE  IInv'
    OBVIOUS
  <1>1. CASE OpenURL
    BY <1>1, OpenKeepsInv
  <1>2. ASSUME NEW u \in Urls, StreamStep(u)
        PROVE  IInv'
    BY <1>2, StreamSteps, HandlerKeepsInv
  <1>3. CASE UNCHANGED vars
    BY <1>3 DEF vars, IInv, TypeOK, CountMatchesClients, ExitsWithLastStream, Live
  <1> QED  BY <1>1, <1>2, <1>3 DEF Next, StreamStep

THEOREM Inductive == Spec => []IInv
  BY InitInv, NextInv, PTL DEF Spec

\* Every reachable state is well typed; in particular rtspClientCount, an
\* unsigned in the code, is never decremented below zero.
THEOREM TypeCorrect == Spec => []TypeOK
  <1>1. IInv => TypeOK
    BY DEF IInv
  <1> QED  BY <1>1, Inductive, PTL

\* rtspClientCount always equals the number of open clients.
THEOREM CountCorrect == Spec => []CountMatchesClients
  <1>1. IInv => CountMatchesClients
    BY DEF IInv
  <1> QED  BY <1>1, Inductive, PTL

\* exit() is called by the shutdown of the last open client and by no other.
THEOREM ExitCorrect == Spec => []ExitsWithLastStream
  <1>1. IInv => ExitsWithLastStream
    BY DEF IInv
  <1> QED  BY <1>1, Inductive, PTL

\* A closed client leaves no response handler, timer, BYE handler or sink.
THEOREM QuietAfterClose == Spec => []ClosedStreamIsQuiet
  <1>1. IInv => ClosedStreamIsQuiet
    BY DEF IInv, Sound, ClosedInv, ClosedStreamIsQuiet
  <1> QED  BY <1>1, Inductive, PTL

\* Media is left streaming at the server only by a close during a SETUP.
THEOREM OrphanCause == Spec => []OrphanOnlyMidSetup
  <1>1. IInv => OrphanOnlyMidSetup
    BY DEF IInv, Sound, ClosedInv, OrphanOnlyMidSetup
  <1> QED  BY <1>1, Inductive, PTL

\* A stream that once had a sink is never left open with nothing to wait for.
THEOREM IdleCause == Spec => []IdleOnlyIfNothingSetUp
  <1>1. IInv => IdleOnlyIfNothingSetUp
    BY DEF IInv, Sound, OpenInv, IdleOnlyIfNothingSetUp
  <1> QED  BY <1>1, Inductive, PTL

-----------------------------------------------------------------------------
(* RtspClient implements StreamLifecycle.                                  *)

Ended == {u \in Urls : stream[u].client = "closed"}

LEMMA StreamStepMaps ==
  ASSUME IInv, NEW u \in Urls, HandlerStep(u)
  PROVE  [Lifecycle!Next]_Lifecycle!vars
  <1>1. u \in Live /\ running
    BY DEF HandlerStep, IInv, ExitsWithLastStream
  <1>2. CASE \E t \in StreamState : t.client = "open" /\ OpenInv(t) /\ Continue(u, t)
    <2>1. /\ Live' = Live /\ running' = running
          /\ stream'[u].client = "open"
          /\ \A v \in Urls \ {u} : stream'[v] = stream[v]
      BY <1>1, <1>2, ContinueLive
    <2>2. Ended' = Ended
      BY <1>1, <2>1 DEF Ended, Live
    <2> QED  BY <2>1, <2>2 DEF Lifecycle!vars, Ended
  <1>3. CASE \E t \in StreamState :
               Closable(t) /\ ShutdownStream(u, t, rtspClientCount)
    <2>1. /\ Live' = Live \ {u} /\ stream'[u].client = "closed"
          /\ \A v \in Urls \ {u} : stream'[v] = stream[v]
          /\ running' = (Live \ {u} # {})
      BY <1>1, <1>3, ShutdownLive
    <2>2. Ended' = Ended \cup {u}
      BY <2>1 DEF Ended
    <2>3. Lifecycle!Close(u)
      BY <1>1, <2>1, <2>2 DEF Lifecycle!Close, Ended
    <2> QED  BY <2>3 DEF Lifecycle!Next
  <1> QED  BY <1>2, <1>3 DEF HandlerStep

LEMMA OpenMaps ==
  ASSUME IInv, OpenURL
  PROVE  Lifecycle!Next
  <1>0. PICK u \in Urls : u = nextUrl
    BY OpenEffect
  <1>1. /\ running /\ u \in Urls /\ stream[u].client = "unopened"
        /\ \A v \in Urls \ {u} : stream'[v] = stream[v]
    BY <1>0, OpenEffect
  <1>2. Lifecycle!Fresh(u)
    BY <1>1 DEF Lifecycle!Fresh, Live
  <1>3. CASE /\ Live' = Live \cup {u} /\ stream'[u].client = "open"
             /\ running' = running
    <2>1. Ended' = Ended
      BY <1>1, <1>3 DEF Ended
    <2>2. Lifecycle!Open(u)
      BY <1>2, <1>3, <2>1 DEF Lifecycle!Open, Ended
    <2> QED  BY <2>2 DEF Lifecycle!Next
  <1>4. CASE /\ Live' = Live /\ stream'[u].client = "closed"
             /\ running' = (rtspClientCount # 0)
    <2>1. Ended' = Ended \cup {u}
      BY <1>1, <1>4 DEF Ended
    <2>2. running' = (Live # {})
      BY <1>4, LiveFinite, FS_EmptySet DEF IInv, CountMatchesClients
    <2>3. Lifecycle!Reject(u)
      BY <1>2, <1>4, <2>1, <2>2 DEF Lifecycle!Reject, Ended
    <2> QED  BY <2>3 DEF Lifecycle!Next
  <1> QED  BY <1>0, <1>3, <1>4, OpenEffect

\* Whatever the server, the network and the commands that fail do, streams
\* are opened once, closed once, and the process ends with the last of them.
THEOREM ImplementsLifecycle == Spec => LifecycleSpec
  <1>1. Init => Lifecycle!Init
    <2> SUFFICES ASSUME Init
                 PROVE  Lifecycle!Init
      OBVIOUS
    <2>1. \A u \in Urls : stream[u].client = "unopened"
      BY DEF Init, NewStream
    <2> QED  BY <2>1 DEF Init, Lifecycle!Init, Live
  <1>2. IInv /\ [Next]_vars => [Lifecycle!Next]_Lifecycle!vars
    <2> SUFFICES ASSUME IInv, [Next]_vars
                 PROVE  [Lifecycle!Next]_Lifecycle!vars
      OBVIOUS
    <2>1. CASE OpenURL
      BY <2>1, OpenMaps
    <2>2. ASSUME NEW u \in Urls, StreamStep(u)
          PROVE  [Lifecycle!Next]_Lifecycle!vars
      BY <2>2, StreamSteps, StreamStepMaps
    <2>3. CASE UNCHANGED vars
      BY <2>3 DEF vars, Lifecycle!vars, Live
    <2> QED  BY <2>1, <2>2, <2>3 DEF Next, StreamStep
  <1> QED  BY <1>1, <1>2, Inductive, PTL DEF Spec, LifecycleSpec, Lifecycle!Spec

-----------------------------------------------------------------------------
(* The action property.                                                    *)

\* A stream that awaits nothing and has no timer is closed only when the
\* media of every subsession it set up has ended.
THEOREM NeverStopsEarly == Spec => NoEarlyStop
  <1> DEFINE Early(u) ==
               /\ stream[u].client = "open" /\ stream'[u].client = "closed"
               /\ stream[u].request = "none" /\ stream[u].timer = NoTimer
             Justified == \A u \in Urls : Early(u) => stream[u].up = {}
  <1>1. IInv /\ [Next]_vars => [Justified]_vars
    <2> SUFFICES ASSUME IInv, Next, NEW u \in Urls, Early(u)
                 PROVE  stream[u].up = {}
      OBVIOUS
    <2> DEFINE s == stream[u]
    <2>1. s \in StreamState /\ OpenInv(s) /\ s.up \subseteq s.sinks
      BY DEF IInv, TypeOK, Sound, OpenInv
    <2>2. ~OpenURL
      BY OpenEffect
    <2>3. PICK v \in Urls : StreamStep(v)
      BY <2>2 DEF Next, StreamStep
    <2>4. v = u
      BY <2>3, StreamSteps, ShutdownLive, ContinueLive DEF HandlerStep
    <2>5. ~Handlers(u)
      BY DEF Handlers, ContinueAfterDESCRIBE, ContinueAfterSETUP,
             ContinueAfterPLAY, Answered, StreamTimerHandler
    <2>6. ~ServerAnswers(u)
      BY DEF ServerAnswers
    <2>7. PICK i \in Tracks : \/ SourceClosure(u, i) \/ SubsessionByeHandler(u, i)
                              \/ MediaEnds(u, i)
      BY <2>3, <2>4, <2>5, <2>6 DEF StreamStep, TrackEvents
    <2>8. ~MediaEnds(u, i)
      <3> DEFINE t == [s EXCEPT !.up = @ \ {i}]
      <3>1. t.client = "open" /\ stream \in [Urls -> StreamState]
        BY <2>1 DEF StreamState, IInv, TypeOK
      <3> QED  BY <3>1 DEF MediaEnds, Continue
    <2>9. i \notin s.up
      BY <2>7, <2>8 DEF SourceClosure, SubsessionByeHandler
    <2> DEFINE b == [s EXCEPT !.bye = @ \ {i}]
               t == [s EXCEPT !.sinks = @ \ {i}]
               r == [b EXCEPT !.sinks = @ \ {i}]
    <2>10. /\ t.client = "open" /\ t.sinks = s.sinks \ {i}
           /\ r.client = "open" /\ r.sinks = s.sinks \ {i}
           /\ stream \in [Urls -> StreamState]
      BY <2>1 DEF StreamState, IInv, TypeOK
    <2>11. ~Continue(u, t) /\ ~Continue(u, r)
      BY <2>10 DEF Continue
    <2>12. SubsessionAfterPlaying(u, s, i) \/ SubsessionAfterPlaying(u, b, i)
      BY <2>7, <2>8 DEF SourceClosure, SubsessionByeHandler
    <2>13. s.sinks \ {i} = {}
      BY <2>10, <2>11, <2>12 DEF SubsessionAfterPlaying
    <2> QED  BY <2>1, <2>9, <2>13
  <1> QED  BY <1>1, Inductive, PTL DEF Spec, NoEarlyStop
=============================================================================

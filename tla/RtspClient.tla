------------------------------ MODULE RtspClient ------------------------------
(***************************************************************************)
(* The RTSP client of src/live555_rtspclient/src/main.cpp.                 *)
(*                                                                         *)
(* One thread: main() opens the URLs of the command line one after the     *)
(* other and then runs live555's event loop, which calls the handlers of   *)
(* this program.  A handler runs to completion, so a handler with all it   *)
(* calls (setupNextSubsession, shutdownStream, the destructors, exit()) is *)
(* one action.  The RTSP server, the network and libliveMedia are external *)
(* and appear as the replies, BYEs and source closures they produce.       *)
(*                                                                         *)
(* live555 calls a response handler either later, from the event loop, or  *)
(* at once, with an error code, when the command cannot be sent; both      *)
(* happen here.  Closing an RTSPClient drops its outstanding handlers.     *)
(***************************************************************************)
EXTENDS Integers, FiniteSetsExt

CONSTANTS NumUrls,    \* argc - 1
          MaxTracks,  \* bound on the subsessions ("m=" lines) of a session
          MaxTotal,   \* bound on the subsessions of all open streams together
          Durations,  \* the durations (s) a session may announce; 0: unbounded,
                      \* or a session indexed by absolute time
          UIntSpan    \* 2^32 microseconds, in seconds (4294 in the code)

ASSUME ConstantsAssumption ==
  /\ NumUrls \in Nat \ {0}
  /\ MaxTracks \in Nat \ {0} /\ MaxTotal \in Nat
  /\ Durations \subseteq Nat
  /\ UIntSpan \in Nat \ {0}

Urls      == 1..NumUrls
Tracks    == 1..MaxTracks
NoTimer   == -1
DelaySlop == 2

VARIABLES running,          \* FALSE after exit()
          nextUrl,          \* main's loop variable i
          rtspClientCount,  \* the static counter of main.cpp
          stream            \* per URL: its RTSPClient, scs and server session

vars == <<running, nextUrl, rtspClientCount, stream>>

Commands == {"none", "DESCRIBE", "SETUP", "PLAY"}

(***************************************************************************)
(* client    the ourRTSPClient object                                      *)
(* request   the command whose response handler is outstanding             *)
(* reply     the answer travelling back to the client                      *)
(* session   scs.session # NULL                                            *)
(* tracks    how many subsessions the session has                          *)
(* current   scs.subsession (0: none yet, tracks + 1: iterator exhausted)  *)
(* misc      the subsessions whose miscPtr is set: set up successfully     *)
(* sinks     the subsessions whose sink # NULL, each with one read pending *)
(* bye       the subsessions with a BYE handler installed                  *)
(* duration  scs.duration                                                  *)
(* timer     the delay scs.streamTimerTask was scheduled with              *)
(* up        the subsessions the server has set up and whose media stream  *)
(*           has neither ended at the server nor lost its transport        *)
(* closedIn  history: the request outstanding when the client was closed   *)
(***************************************************************************)
StreamState ==
  [client   : {"unopened", "open", "closed"},
   request  : Commands,
   reply    : {"none", "ok", "error"},
   session  : BOOLEAN,
   tracks   : 0..MaxTracks,
   current  : 0..(MaxTracks + 1),
   misc     : SUBSET Tracks,
   sinks    : SUBSET Tracks,
   bye      : SUBSET Tracks,
   duration : Nat,
   timer    : Nat \cup {NoTimer},
   up       : SUBSET Tracks,
   closedIn : Commands]

TypeOK ==
  /\ running \in BOOLEAN
  /\ nextUrl \in 1..(NumUrls + 1)
  /\ rtspClientCount \in Nat
  /\ stream \in [Urls -> StreamState]

\* StreamClientState's constructor, before the client exists.
NewStream ==
  [client |-> "unopened", request |-> "none", reply |-> "none",
   session |-> FALSE, tracks |-> 0, current |-> 0,
   misc |-> {}, sinks |-> {}, bye |-> {},
   duration |-> 0, timer |-> NoTimer, up |-> {}, closedIn |-> "none"]

Init == /\ running = TRUE
        /\ nextUrl = 1
        /\ rtspClientCount = 0
        /\ stream = [u \in Urls |-> NewStream]

Live == {u \in Urls : stream[u].client = "open"}

-----------------------------------------------------------------------------
(* shutdownStream and what it destroys.                                    *)

\* Closes every sink still open and clears its BYE handler.
CloseSinks(s) ==
  IF s.session
    THEN [s EXCEPT !.sinks = {}, !.bye = @ \ s.sinks]
    ELSE s

\* Mutant: TEARDOWN only for a stream that has a timer.
TeardownIfTimed(s) ==
  IF s.session /\ s.sinks # {} /\ s.timer # NoTimer THEN [s EXCEPT !.up = {}] ELSE s

\* TEARDOWN is sent when a sink was still open: the server ends all tracks.
Teardown(s) == IF s.session /\ s.sinks # {} THEN [s EXCEPT !.up = {}] ELSE s

\* Mutant: the destructor forgets unscheduleDelayedTask.
CloseClientKeepTimer(s) ==
  [s EXCEPT !.client = "closed",
            !.request = "none", !.reply = "none", !.closedIn = s.request,
            !.bye = IF s.session THEN {} ELSE @]

\* Medium::close(rtspClient): the outstanding handler goes with the client;
\* ~StreamClientState unschedules the timer and closes the session, and the
\* RTCP instances with it, when there is a session.
CloseClient(s) ==
  [s EXCEPT !.client = "closed",
            !.request = "none", !.reply = "none", !.closedIn = s.request,
            !.timer = IF s.session THEN NoTimer ELSE @,
            !.bye = IF s.session THEN {} ELSE @]

\* Mutant: only streams that got as far as a session are counted out.
ShutdownUncounted(u, s, count) ==
  LET left == IF s.session THEN count - 1 ELSE count
  IN /\ stream' = [stream EXCEPT ![u] = CloseClient(CloseSinks(Teardown(s)))]
     /\ rtspClientCount' = left
     /\ running' = (left # 0)

\* Mutant: the counter is tested before it is decremented.
ShutdownPostDecrement(u, s, count) ==
  /\ stream' = [stream EXCEPT ![u] = CloseClient(CloseSinks(Teardown(s)))]
  /\ rtspClientCount' = count - 1
  /\ running' = (count # 0)

\* Mutant: the closed sinks' stream is shut down twice over.
ShutdownCountedTwice(u, s, count) ==
  /\ stream' = [stream EXCEPT ![u] = CloseClient(CloseSinks(Teardown(s)))]
  /\ rtspClientCount' = count - 2
  /\ running' = (count - 2 # 0)

\* shutdownStream on stream u in state s, with count clients in use.
ShutdownStream(u, s, count) ==
  /\ stream' = [stream EXCEPT ![u] = CloseClient(CloseSinks(Teardown(s)))]
  /\ rtspClientCount' = count - 1
  /\ running' = (count - 1 # 0)

\* The handler returns and leaves stream u in state s.
Continue(u, s) ==
  /\ stream' = [stream EXCEPT ![u] = s]
  /\ UNCHANGED <<running, rtspClientCount>>

-----------------------------------------------------------------------------
(* setupNextSubsession.  Its recursion over the subsessions that cannot be *)
(* initiated, or whose SETUP cannot be sent, ends at some later subsession *)
(* or past the last one.                                                   *)

\* Mutant: a new iterator for each call, so the iteration starts over.
SetupFromFirst(s) ==
  {[s EXCEPT !.current = i, !.request = "SETUP"] : i \in 1..s.tracks}

SetupSent(s) ==
  {[s EXCEPT !.current = i, !.request = "SETUP"] : i \in (s.current + 1)..s.tracks}

PlaySent(s) ==
  {[s EXCEPT !.current = s.tracks + 1, !.request = "PLAY", !.duration = d] :
      d \in Durations}

SetupNextSubsession(u, s) ==
  \/ \E t \in SetupSent(s) \cup PlaySent(s) : Continue(u, t)
  \* PLAY cannot be sent: continueAfterPLAY gets the error at once.
  \/ \E t \in PlaySent(s) :
       ShutdownStream(u, [t EXCEPT !.request = "none"], rtspClientCount)

-----------------------------------------------------------------------------
(* main() and openURL.  ourRTSPClient::createNew never returns NULL.       *)

OpenURL ==
  /\ running
  /\ nextUrl <= NumUrls
  /\ nextUrl' = nextUrl + 1
  /\ LET s == [NewStream EXCEPT !.client = "open"]
     IN \/ /\ stream' = [stream EXCEPT ![nextUrl] = [s EXCEPT !.request = "DESCRIBE"]]
           /\ rtspClientCount' = rtspClientCount + 1
           /\ UNCHANGED running
        \* DESCRIBE cannot be sent: continueAfterDESCRIBE shuts the stream down.
        \/ ShutdownStream(nextUrl, s, rtspClientCount + 1)

\* The event loop runs once every URL has been opened.
InEventLoop(u) == running /\ nextUrl > NumUrls /\ stream[u].client = "open"

Answered(u, command) ==
  InEventLoop(u) /\ stream[u].request = command /\ stream[u].reply # "none"

\* The stream as the response handler finds it.
Delivered(u) == [stream[u] EXCEPT !.request = "none", !.reply = "none"]

\* The subsessions of the other streams in use.
OtherTracks(u) == MapThenSumSet(LAMBDA v : stream[v].tracks, Live \ {u})

ContinueAfterDESCRIBE(u) ==
  /\ Answered(u, "DESCRIBE")
  /\ LET s == Delivered(u)
     IN \* an error, or a description no MediaSession can be made from
        \/ ShutdownStream(u, s, rtspClientCount)
        \/ /\ stream[u].reply = "ok"
           /\ \E n \in 0..MaxTracks :
                LET t == [s EXCEPT !.session = TRUE, !.tracks = n]
                IN /\ n + OtherTracks(u) <= MaxTotal
                   /\ IF n = 0
                      THEN ShutdownStream(u, t, rtspClientCount)
                      ELSE SetupNextSubsession(u, t)
  /\ UNCHANGED nextUrl

\* A sink is created and starts reading; the subsession may lack RTCP.
WithSink(s, hasRtcp) ==
  [s EXCEPT !.misc = @ \cup {s.current},
            !.sinks = @ \cup {s.current},
            !.bye = IF hasRtcp THEN @ \cup {s.current} ELSE @]

ContinueAfterSETUP(u) ==
  /\ Answered(u, "SETUP")
  /\ \/ /\ stream[u].reply = "error"
        /\ SetupNextSubsession(u, Delivered(u))
     \/ /\ stream[u].reply = "ok"
        /\ \E hasRtcp \in BOOLEAN :
             SetupNextSubsession(u, WithSink(Delivered(u), hasRtcp))
  /\ UNCHANGED nextUrl

\* (unsigned)(seconds * 1000000): out of range it has no defined value; the
\* builds wrap or saturate.
MicrosecondsToUInt(d) ==
  IF d < UIntSpan THEN {d} ELSE {d % UIntSpan, UIntSpan - 1}

\* Mutant: a failed PLAY is only reported.
ContinueAfterFailedPLAY(u) ==
  /\ Answered(u, "PLAY")
  /\ LET s == Delivered(u)
         d == s.duration + DelaySlop
     IN IF stream[u].reply = "ok" /\ s.duration > 0
          THEN Continue(u, [s EXCEPT !.duration = d, !.timer = d])
          ELSE Continue(u, s)
  /\ UNCHANGED nextUrl

ContinueAfterPLAY(u) ==
  /\ Answered(u, "PLAY")
  /\ LET s == Delivered(u)
         d == s.duration + DelaySlop
     IN \/ /\ stream[u].reply = "error"
           /\ ShutdownStream(u, s, rtspClientCount)
        \/ /\ stream[u].reply = "ok"
           /\ s.duration > 0
           /\ \E delay \in MicrosecondsToUInt(d) :
                Continue(u, [s EXCEPT !.duration = d, !.timer = delay])
        \/ /\ stream[u].reply = "ok"
           /\ s.duration = 0
           /\ Continue(u, s)
  /\ UNCHANGED nextUrl

-----------------------------------------------------------------------------
(* The other event handlers.                                               *)

\* Mutant: the check for the other subsessions' sinks is missing.
SubsessionAfterPlayingAlone(u, s, i) ==
  ShutdownStream(u, [s EXCEPT !.sinks = @ \ {i}], rtspClientCount)

\* Mutant: a subsession counts as active while its BYE handler is installed.
SubsessionAfterPlayingBye(u, s, i) ==
  LET t == [s EXCEPT !.sinks = @ \ {i}]
  IN IF t.sinks \cup t.bye # {} THEN Continue(u, t)
                                ELSE ShutdownStream(u, t, rtspClientCount)

\* Closing the last open sink shuts the client down.
SubsessionAfterPlaying(u, s, i) ==
  LET t == [s EXCEPT !.sinks = @ \ {i}]
  IN IF t.sinks # {} THEN Continue(u, t) ELSE ShutdownStream(u, t, rtspClientCount)

\* DummySink's source closes: onSourceClosure calls subsessionAfterPlaying.
SourceClosure(u, i) ==
  /\ InEventLoop(u)
  /\ i \in stream[u].sinks \ stream[u].up
  /\ SubsessionAfterPlaying(u, stream[u], i)
  /\ UNCHANGED nextUrl

\* An RTCP BYE arrives; the handler is called once only.
SubsessionByeHandler(u, i) ==
  /\ InEventLoop(u)
  /\ i \in stream[u].bye \ stream[u].up
  /\ SubsessionAfterPlaying(u, [stream[u] EXCEPT !.bye = @ \ {i}], i)
  /\ UNCHANGED nextUrl

\* Mutant: the timer leaves a stream that still receives data alone.
StreamTimerHandlerIdle(u) ==
  /\ InEventLoop(u)
  /\ stream[u].timer # NoTimer
  /\ LET s == [stream[u] EXCEPT !.timer = NoTimer]
     IN IF s.sinks # {} THEN Continue(u, s) ELSE ShutdownStream(u, s, rtspClientCount)
  /\ UNCHANGED nextUrl

StreamTimerHandler(u) ==
  /\ InEventLoop(u)
  /\ stream[u].timer # NoTimer
  /\ ShutdownStream(u, [stream[u] EXCEPT !.timer = NoTimer], rtspClientCount)
  /\ UNCHANGED nextUrl

-----------------------------------------------------------------------------
(* The server and the network (external).  An error means the server has   *)
(* not acted on the command.                                               *)

ServerAnswers(u) ==
  /\ running
  /\ stream[u].request # "none" /\ stream[u].reply = "none"
  /\ \/ Continue(u, [stream[u] EXCEPT !.reply = "error"])
     \/ Continue(u, [stream[u] EXCEPT !.reply = "ok",
                       !.up = IF stream[u].request = "SETUP"
                                THEN @ \cup {stream[u].current} ELSE @])
  /\ UNCHANGED nextUrl

\* The media stream of a subsession ends; the client learns of it later, by
\* BYE, by source closure, by both or (both lost) never.
MediaEnds(u, i) ==
  /\ running
  /\ stream[u].client = "open"
  /\ i \in stream[u].up
  /\ Continue(u, [stream[u] EXCEPT !.up = @ \ {i}])
  /\ UNCHANGED nextUrl

-----------------------------------------------------------------------------
Handlers(u) ==
  \/ ContinueAfterDESCRIBE(u) \/ ContinueAfterSETUP(u) \/ ContinueAfterPLAY(u)
  \/ StreamTimerHandler(u)

TrackEvents(u) ==
  \E i \in Tracks : SourceClosure(u, i) \/ SubsessionByeHandler(u, i) \/ MediaEnds(u, i)

Next == \/ OpenURL
        \/ \E u \in Urls : Handlers(u) \/ TrackEvents(u) \/ ServerAnswers(u)

Spec == Init /\ [][Next]_vars

(***************************************************************************)
(* main never blocks while it opens URLs; the event loop serves every      *)
(* readable socket and every expired timer; the server is assumed to       *)
(* answer.  Nothing is assumed of BYEs and source closures.                *)
(***************************************************************************)
FairSpec ==
  /\ Spec
  /\ WF_vars(OpenURL)
  /\ \A u \in Urls : WF_vars(Handlers(u)) /\ WF_vars(ServerAnswers(u))

-----------------------------------------------------------------------------
(* Safety.                                                                 *)

\* rtspClientCount counts the clients in use, whatever path closed a stream:
\* a second shutdown of a stream, or a path that skips one, would drive the
\* exit() in shutdownStream too early or never.
CountMatchesClients == rtspClientCount = Cardinality(Live)

\* "The final stream has ended, so exit the application now": the process has
\* exited exactly when some URL was opened and no client is left.
ExitsWithLastStream == running <=> (nextUrl = 1 \/ Live # {})

\* Nothing that could call back into a closed client is left behind: no
\* response handler, timer, BYE handler or sink.
ClosedStreamIsQuiet ==
  \A u \in Urls : stream[u].client = "closed" =>
    /\ stream[u].request = "none" /\ stream[u].timer = NoTimer
    /\ stream[u].bye = {} /\ stream[u].sinks = {}

\* A client leaves media streaming at the server (no TEARDOWN was sent) only
\* when it was closed while a SETUP was outstanding.
OrphanOnlyMidSetup ==
  \A u \in Urls : stream[u].client = "closed" /\ stream[u].up # {} =>
    stream[u].closedIn = "SETUP"

\* A stream that waits for no response and reads no sink has never set a
\* subsession up: once a stream plays, its last end is always noticed.
IdleOnlyIfNothingSetUp ==
  \A u \in Urls :
    (stream[u].client = "open" /\ stream[u].request = "none" /\ stream[u].sinks = {})
      => stream[u].misc = {}

\* While no timer runs and no response is awaited, a stream is shut down only
\* when the media of all its subsessions has ended.
NoEarlyStop ==
  [][\A u \in Urls :
       (/\ stream[u].client = "open" /\ stream'[u].client = "closed"
        /\ stream[u].request = "none" /\ stream[u].timer = NoTimer)
       => stream[u].up = {}]_vars

\* The streams and the process follow StreamLifecycle.
Lifecycle == INSTANCE StreamLifecycle WITH
  Streams <- Urls,
  active  <- Live,
  ended   <- {u \in Urls : stream[u].client = "closed"}

LifecycleSpec == Lifecycle!Spec

-----------------------------------------------------------------------------
(* What the comments of main.cpp say and the code does not do.             *)

\* main.cpp:56 "There are argc-1 URLs: argv[1] through argv[argc-1].  Open and
\* start streaming each one": no URL is left unopened when the process ends.
EveryUrlIsOpened == ~running => nextUrl = NumUrls + 1

\* main.cpp:347 "All subsessions' streams have now been closed, so shutdown
\* the client": a closed client has no subsession's media left streaming.
NothingLeftStreaming ==
  \A u \in Urls : stream[u].client = "closed" => stream[u].up = {}

\* main.cpp:302 "Set a timer to be handled at the end of the stream's expected
\* duration": the delay is never shorter than the duration (which, once the
\* timer is set, includes the slop).
TimerCoversDuration ==
  \A u \in Urls : stream[u].timer # NoTimer =>
    stream[u].timer >= stream[u].duration - DelaySlop

-----------------------------------------------------------------------------
(* Liveness.                                                               *)

\* The chain DESCRIBE, SETUP..., PLAY ends: a stream that awaits a response
\* comes to play or is closed.
RequestsSettle ==
  \A u \in Urls : stream[u].request # "none" ~> stream[u].request = "none"

\* A stream of known duration that started playing is closed, even when every
\* BYE is lost.
TimedStreamsEnd ==
  \A u \in Urls : stream[u].timer # NoTimer ~> stream[u].client = "closed"

\* When every session that is set up announces a duration, the process exits.
Timed ==
  \A u \in Urls : stream[u].client = "open" /\ stream[u].request \in {"PLAY", "none"} =>
    stream[u].duration > 0

Terminates == []Timed => <>(~running)
=============================================================================

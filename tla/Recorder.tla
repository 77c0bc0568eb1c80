------------------------------- MODULE Recorder -------------------------------
(***************************************************************************)
(* Four callers of mp4v2 on one file: the timed recorder of mp4flie        *)
(* (main.cpp, MP4Encoder.cpp), which writes all of a video file and then   *)
(* all of an audio file until a time limit; the muxer of mux/main.c, which *)
(* takes a frame of each in turn; and two that stand for any caller of the *)
(* library: "edit" writes and reads samples, "cut" makes an edit list of   *)
(* the first track and copies the track.                                   *)
(*                                                                         *)
(* The two input files are chosen frame by frame as they are read.         *)
(***************************************************************************)
EXTENDS EditList

CONSTANTS Frames,         \* the frames a file may hold: [size, idr, gap]
          MinFrameSize,   \* MIN_FRAME_SIZE
          MaxFrames,      \* how many frames each file has at most
          FirstStamps,    \* the time stamps the two files start with
          PtsPerSecond,   \* the ticks per second of a time stamp: 1e+6
          MaxStamp,       \* the largest time stamp of a frame
          RecordTime,     \* m_uSecond
          Kinds,          \* what "edit" writes: [bytes, duration, offset, sync]
          Offsets,        \* the offsets "edit" gives samples afterwards
          MaxEdits,       \* how many files, samples and questions "edit" has
          Segments,       \* the segments "cut" adds: [media, duration, dwell]
          MaxSegments,    \* how many of them the list has at most
          MaxCut          \* how many samples "cut" writes

Video == 1
Audio == 2

ASSUME RecorderAssumption ==
  /\ NumTracks >= 2
  /\ PtsPerSecond \in Nat \ {0}
  /\ MinFrameSize \in Nat /\ RecordTime \in Nat
  /\ MaxStamp \in Nat /\ MaxStamp < PtsSpan - 1
  /\ MaxFrames \in [{Video, Audio} -> Nat]
  /\ Frames \subseteq [size : Nat, idr : BOOLEAN, gap : Int]
  /\ FirstStamps \subseteq [{Video, Audio} -> Nat]
  /\ Kinds \in [Tracks -> SUBSET
                  [bytes : Nat, duration : Nat \cup {-1}, offset : Nat, sync : BOOLEAN]]
  /\ Offsets \in [Tracks -> SUBSET Nat]
  /\ Segments \subseteq [media : Nat, duration : Nat, dwell : BOOLEAN]

\* A frame that is earlier than another by any time stamps the files may hold
\* is beyond the limit.
ASSUME LimitAssumption == MaxStamp + RecordTime * PtsPerSecond <= PtsSpan

VARIABLES program,     \* which of the four runs
          turn,        \* the file that is read next; 0: both are done
          stamp,       \* the time stamp of the frame each file gave last
          frames,      \* how many frames each file has given
          ended,       \* the files that have ended
          firstPTS,    \* m_u64FirstPTS
          lastPTS,     \* m_u64VideoPTS, m_u64AudioPTS; videoPTS, audioPTS
          begun,       \* tracks with a first frame: m_bFirstVideo, videoFirst
          pts,         \* the time stamps of the samples of each track
          edits        \* how often "edit" has opened a file or gone on

vars == <<fileVars, listVars, program, turn, stamp, frames, ended, firstPTS, lastPTS, begun,
          pts, edits>>

NoPTS == PtsSpan - 1      \* INVALID_PTS

Init ==
  /\ FileInit /\ ListInit
  /\ program \in {"record", "mux", "edit", "cut"}
  /\ turn = Video
  /\ stamp \in IF program \in {"edit", "cut"} THEN {<<0, 0>>} ELSE FirstStamps
  /\ frames = [t \in Tracks |-> 0] /\ ended = {}
  /\ firstPTS = NoPTS /\ lastPTS = [t \in Tracks |-> 0] /\ begun = {}
  /\ pts = [t \in Tracks |-> <<>>]
  /\ edits = 0

stampVars  == <<firstPTS, lastPTS, begun, pts>>
inputVars  == <<turn, stamp, frames, ended>>

-----------------------------------------------------------------------------
(* What the recorder and the muxer have in common.                         *)

\* PTS2TIME_SCALE: the unsigned difference in ticks of the track, cut off.
Ticks(t, from, to) == (((to - from) % PtsSpan) * TimeScale[t]) \div PtsPerSecond

\* The time stamp of frame f of file t.
Stamp(t, f) == stamp[t] + f.gap

\* Mutant: the first frame of a track lasts from time 0.
PreviousAlways(t, now) == lastPTS[t]

\* The frame gives track t a sample that lasts from the frame before to it.
Previous(t, now) == IF t \in begun THEN lastPTS[t] ELSE now

Sync(t, f) == t = Audio \/ f.idr

FrameTicks(t, f) == Ticks(t, Previous(t, Stamp(t, f)), Stamp(t, f))

\* The sample of a frame: written, or refused with the sample in the tables.
FrameWritten(t, f) ==
  /\ WriteSample(t, f.size, FrameTicks(t, f), 0, Sync(t, f))
  /\ pts' = [pts EXCEPT ![t] = Append(@, Stamp(t, f))]

FrameRefused(t, f) ==
  /\ WriteSampleFails(t, f.size, FrameTicks(t, f), 0, Sync(t, f))
  /\ pts' = [pts EXCEPT ![t] = Append(@, Stamp(t, f))]

\* The next frame of file t.
NextFrame(t, f) ==
  /\ t \notin ended /\ frames[t] < MaxFrames[t]
  /\ Stamp(t, f) \in 0..MaxStamp
  /\ stamp' = [stamp EXCEPT ![t] = Stamp(t, f)]
  /\ frames' = [frames EXCEPT ![t] = @ + 1]

\* The file ends, or its last frame is cut short.
FileEnds(t) ==
  /\ ended' = ended \cup {t}
  /\ UNCHANGED <<stamp, frames>>

-----------------------------------------------------------------------------
(* The recorder.                                                           *)

\* Mutant: each track is counted from its own first frame.
BeginOwn(t, now) == firstPTS' = IF t \in begun THEN firstPTS ELSE now

\* The first frame of a track moves m_u64FirstPTS back, never forward.
Begin(t, now) ==
  firstPTS' = IF t \notin begun /\ now < firstPTS THEN now ELSE firstPTS

\* MP4ENCODER_WARN_RECORD_OVER.
RecordOver(now) ==
  RecordTime # 0 /\ (now - firstPTS') % PtsSpan >= RecordTime * PtsPerSecond

\* Mutant: main goes back to the video file.
FileDoneAgain(t) == turn' = IF t = Video THEN Audio ELSE Video

\* WriteH264Data or WriteAACData returns, and main goes on with the next file
\* whatever it returned.
FileDone(t) == turn' = IF t = Video THEN Audio ELSE 0

\* A frame below MIN_FRAME_SIZE is passed over.
RecordSkip(t) ==
  /\ program = "record" /\ turn = t /\ mode = "writing"
  /\ \E f \in Frames : f.size < MinFrameSize /\ NextFrame(t, f)
  /\ UNCHANGED <<fileVars, program, turn, ended, stampVars, edits>>

RecordFrame(t) ==
  /\ program = "record" /\ turn = t /\ mode = "writing"
  /\ \E f \in Frames :
       /\ f.size >= MinFrameSize
       /\ NextFrame(t, f)
       /\ Begin(t, Stamp(t, f))
       /\ begun' = begun \cup {t}
       /\ \/ /\ FrameWritten(t, f)
             /\ lastPTS' = [lastPTS EXCEPT ![t] = Stamp(t, f)]
             /\ IF RecordOver(Stamp(t, f)) THEN FileDone(t) ELSE UNCHANGED turn
          \/ /\ FrameRefused(t, f)
             /\ lastPTS' = [lastPTS EXCEPT ![t] = Previous(t, Stamp(t, f))]
             /\ FileDone(t)
  /\ UNCHANGED <<program, ended, edits>>

RecordEnds(t) ==
  /\ program = "record" /\ turn = t /\ mode = "writing"
  /\ FileEnds(t)
  /\ FileDone(t)
  /\ UNCHANGED <<fileVars, program, stampVars, edits>>

-----------------------------------------------------------------------------
(* The muxer.                                                              *)

OtherTurn(t) == turn' = IF t = Video THEN Audio ELSE Video

\* A frame of up to MIN_FRAME_SIZE bytes is passed over.
MuxSkip(t) ==
  /\ program = "mux" /\ turn = t /\ mode = "writing"
  /\ \E f \in Frames : f.size <= MinFrameSize /\ NextFrame(t, f)
  /\ OtherTurn(t)
  /\ UNCHANGED <<fileVars, program, ended, stampVars, edits>>

\* The result of MP4WriteSample is ignored.
MuxFrame(t) ==
  /\ program = "mux" /\ turn = t /\ mode = "writing"
  /\ \E f \in Frames :
       /\ f.size > MinFrameSize
       /\ NextFrame(t, f)
       /\ FrameWritten(t, f) \/ FrameRefused(t, f)
       /\ lastPTS' = [lastPTS EXCEPT ![t] = Stamp(t, f)]
       /\ begun' = begun \cup {t}
  /\ OtherTurn(t)
  /\ UNCHANGED <<program, ended, firstPTS, edits>>

\* The loop of main asks before it reads the video file.
MuxDone == turn = Video /\ ended = {Video, Audio}

\* A file that has ended is read, and ends, again while the other goes on.
MuxEnds(t) ==
  /\ program = "mux" /\ turn = t /\ mode = "writing" /\ ~MuxDone
  /\ FileEnds(t)
  /\ OtherTurn(t)
  /\ UNCHANGED <<fileVars, program, stampVars, edits>>

-----------------------------------------------------------------------------

\* MP4CreateFile and the calls that add both tracks, from the first frame of
\* each file.
Start ==
  /\ program \in {"record", "mux"}
  /\ Create
  /\ UNCHANGED <<program, inputVars, stampVars, edits>>

\* Both have closed their file when main returns.
Finish ==
  /\ IF program = "record" THEN turn = 0 ELSE program = "mux" /\ MuxDone
  /\ Close
  /\ UNCHANGED <<program, inputVars, stampVars, edits>>

ProgramStep ==
  /\ \/ Start \/ Finish
     \/ \E t \in {Video, Audio} :
          RecordSkip(t) \/ RecordFrame(t) \/ RecordEnds(t) \/ MuxSkip(t) \/ MuxFrame(t) \/ MuxEnds(t)
  /\ UNCHANGED listVars

-----------------------------------------------------------------------------
(* Any other caller.                                                       *)

\* MP4_INVALID_DURATION stands for the duration of all samples.
Default == -1
Length(t, k) == IF k.duration = Default THEN GetFixedSampleDuration(track[t]) ELSE k.duration

\* A caller may ask for the duration of all samples as long as they have one
\* (include/mp4v2/sample.h:188).
EditWrite(t) ==
  \E k \in Kinds[t] :
    /\ Length(t, k) # NotFixed
    /\ \/ WriteSample(t, k.bytes, Length(t, k), k.offset, k.sync)
       \/ WriteSampleFails(t, k.bytes, Length(t, k), k.offset, k.sync)

\* The calls that MaxEdits bounds.
EditStep ==
  /\ program = "edit"
  /\ edits < MaxEdits
  /\ edits' = edits + 1
  /\ \/ Create \/ Modify \/ Read \/ Optimize
     \/ \E t \in Tracks :
          \/ EditWrite(t)
          \/ \E id \in DOMAIN log[t] :
               ReadSample(t, id) \/ \E o \in Offsets[t] : SetSampleRenderingOffset(t, id, o)
  /\ UNCHANGED <<program, inputVars, stampVars, listVars>>

\* Those that end what was begun.
EditEnds ==
  /\ program = "edit"
  /\ Close \/ CloseRead \/ Rename \/ OptimizeFails \/ \E t \in Tracks : RewriteChunk(t)
  /\ UNCHANGED <<program, inputVars, stampVars, edits, listVars>>

\* "cut" writes samples, opens and closes the file, and changes the list of
\* the first track, in any order; then it copies the track and ends.
CutStep ==
  /\ program = "cut" /\ dub.phase = "none"
  /\ \/ Create \/ Close \/ Read \/ CloseRead \/ Modify
     \/ Len(log[Video]) < MaxCut /\ EditWrite(Video)
  /\ UNCHANGED <<program, inputVars, stampVars, edits, listVars>>

ListStep ==
  /\ program = "cut" /\ dub.phase = "none"
  /\ \/ /\ Len(elst[Video]) < MaxSegments
        /\ \E id \in 1..(Len(elst[Video]) + 1), s \in Segments : AddTrackEdit(Video, id, s)
     \/ \E id \in DOMAIN elst[Video] : DeleteTrackEdit(Video, id)
     \/ \E applyEdits \in BOOLEAN : CopyTrack(Video, applyEdits)
  /\ UNCHANGED <<program, inputVars, stampVars, edits>>

CopyStep ==
  /\ program = "cut"
  /\ CopyTurn
  /\ UNCHANGED <<program, inputVars, stampVars, edits>>

\* The process that writes the file dies; its memory is gone.
Death ==
  /\ Die
  /\ turn' = Video
  /\ frames' = [t \in Tracks |-> 0] /\ ended' = {}
  /\ firstPTS' = NoPTS /\ lastPTS' = [t \in Tracks |-> 0] /\ begun' = {}
  /\ pts' = [t \in Tracks |-> <<>>]
  /\ elst' = [t \in Tracks |-> <<>>]
  /\ UNCHANGED <<program, stamp, edits, dub>>

Next == ProgramStep \/ EditStep \/ EditEnds \/ CutStep \/ ListStep \/ CopyStep \/ Death

\* The input files have ends, and the recorder and the muxer read on.
Spec == Init /\ [][Next]_vars /\ WF_vars(ProgramStep)

-----------------------------------------------------------------------------
(* Properties.                                                             *)

TypeOK ==
  /\ FileTypeOK /\ ListTypeOK
  /\ turn \in {0, Video, Audio} /\ ended \subseteq {Video, Audio}
  /\ firstPTS \in 0..(PtsSpan - 1)
  /\ begun \subseteq {Video, Audio}
  /\ \A t \in {Video, Audio} : lastPTS[t] \in 0..(PtsSpan - 1) /\ frames[t] \in 0..MaxFrames[t]

InOrderPts(t) == \A i \in 2..Len(pts[t]) : pts[t][i - 1] <= pts[t][i]

\* The recorder and the muxer give each frame the time since the one before, so
\* a frame is shown at the time stamp of its predecessor, counted from the
\* first of its own track, and early by less than a tick for each frame since.
StartIsPreviousPts ==
  \A t \in {Video, Audio} : InOrderPts(t) /\ FitsSpan(t) =>
    \A i \in 2..Len(pts[t]) :
      LET stamped == (pts[t][i - 1] - pts[t][1]) * TimeScale[t]
          shown   == GetSampleTimes(track[t], i).start * PtsPerSecond
      IN shown <= stamped /\ stamped - shown <= (i - 2) * (PtsPerSecond - 1)

\* The time stamp the limit of track t is counted from.
Origin(t) ==
  IF t = Audio /\ pts[Video] # <<>> /\ pts[Video][1] < pts[Audio][1]
  THEN pts[Video][1] ELSE pts[t][1]

\* In each track of a recording every sample but the last lies within the
\* limit, counted from the first frame of this and the tracks before: a frame
\* before it ends the track like one beyond the limit.
WithinLimit ==
  program = "record" /\ RecordTime # 0 =>
    \A t \in {Video, Audio} : \A i \in 1..(Len(pts[t]) - 1) :
      pts[t][i] - Origin(t) \in 0..(RecordTime * PtsPerSecond - 1)

\* A recorder or a muxer that is not killed closes its file.
RecordingEnds == program \in {"record", "mux"} ~> mode \in {"closed", "lost"}
=============================================================================

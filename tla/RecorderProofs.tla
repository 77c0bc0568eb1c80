---------------------------- MODULE RecorderProofs ----------------------------
(***************************************************************************)
(* Theorems about the callers of mp4v2, for every value of the constants:  *)
(* a recording keeps its limit, the recorder and the muxer show each frame *)
(* when the one before it was stamped, MP4CopyTrack copies what the edit   *)
(* list shows, and the state stays within its types.                       *)
(***************************************************************************)
EXTENDS Mp4FileProofs

(***************************************************************************)
(* The limit.  What is inductive is that the first time stamp of the       *)
(* recorder is the earlier of those its tracks begin with, and that the    *)
(* track it writes has not a single sample beyond the limit yet.           *)
(***************************************************************************)

Limit == RecordTime * PtsPerSecond

\* The recorder passes over or keeps each frame of the file it reads.
Stamped ==
  /\ program \in {"record", "mux", "edit", "cut"}
  /\ turn \in {0, Video, Audio}
  /\ begun \subseteq {Video, Audio}
  /\ pts \in [Tracks -> Seq(0..MaxStamp)]
  /\ firstPTS \in 0..(PtsSpan - 1)

\* m_u64FirstPTS: the first frame of either track moves it back.
FirstOfBoth ==
  program = "record" =>
    /\ turn = Video => pts[Audio] = <<>>
    /\ \A t \in {Video, Audio} : t \in begun <=> pts[t] # <<>>
    /\ begun = {} => firstPTS = NoPTS
    /\ \A t \in begun : firstPTS <= pts[t][1]
    /\ begun # {} => \E t \in begun : firstPTS = pts[t][1]

Inside(t, n) == \A i \in 1..n : pts[t][i] - Origin(t) \in 0..(Limit - 1)

Limited ==
  program = "record" /\ RecordTime # 0 =>
    /\ turn # 0 => Inside(turn, Len(pts[turn]))
    /\ \A t \in {Video, Audio} : Inside(t, Len(pts[t]) - 1)

RecInv == Stamped /\ FirstOfBoth /\ Limited

LEMMA StampConstants ==
  /\ Video \in Tracks /\ Audio \in Tracks /\ Video # Audio /\ {Video, Audio} \subseteq Tracks
  /\ Video = 1 /\ Audio = 2
  /\ PtsSpan \in Nat \ {0} /\ PtsPerSecond \in Nat \ {0} /\ RecordTime \in Nat
  /\ MaxStamp \in Nat /\ MaxStamp < PtsSpan - 1
BY Mp4Assumption, ListAssumption, RecorderAssumption DEF Tracks, Video, Audio

LEMMA LimitBounds == Limit \in Nat /\ MaxStamp + Limit <= PtsSpan
<1> DEFINE R == RecordTime
           P == PtsPerSecond
<1>1. R \in Nat /\ P \in Nat
  BY RecorderAssumption
<1>2. R * P \in Nat
  BY <1>1
<1> QED
  BY <1>2, LimitAssumption DEF Limit

\* The difference of two time stamps is taken without a sign: an earlier one is
\* further away than any limit.
LEMMA UnsignedDifference ==
  ASSUME NEW a \in 0..MaxStamp, NEW b \in 0..(PtsSpan - 1), b <= MaxStamp,
         ~((a - b) % PtsSpan >= Limit)
  PROVE  a - b \in 0..(Limit - 1)
<1>1. PtsSpan \in Nat \ {0} /\ MaxStamp \in Nat /\ Limit \in Nat /\ MaxStamp + Limit <= PtsSpan
  BY StampConstants, LimitBounds
<1>2. CASE a >= b
  <2>1. (a - b) % PtsSpan = a - b
    BY <1>1, <1>2, StampConstants
  <2> QED
    BY <1>1, <1>2, <2>1
<1>3. CASE a < b
  <2>1. (a - b) % PtsSpan = a - b + PtsSpan
    BY <1>1, <1>3, StampConstants
  <2> QED
    BY <1>1, <1>3, <2>1
<1> QED
  BY <1>1, <1>2, <1>3

LEMMA FirstStamp ==
  ASSUME NEW q \in Seq(0..MaxStamp), q # <<>>
  PROVE  q[1] \in 0..MaxStamp /\ q[1] \in Int
<1>1. Len(q) \in Nat /\ Len(q) # 0
  OBVIOUS
<1>2. 1 \in 1..Len(q)
  BY <1>1
<1>3. q[1] \in 0..MaxStamp
  BY <1>2, ElementOfSeq
<1> QED
  BY <1>3

\* Frame s of track t has been given to the library, and the recorder goes on
\* with the track only when the frame is inside the limit.
Counted(t, s) ==
  /\ program = "record" /\ turn = t /\ program' = program
  /\ pts' = [pts EXCEPT ![t] = Append(@, s)]
  /\ firstPTS' = IF t \notin begun /\ s < firstPTS THEN s ELSE firstPTS
  /\ begun' = begun \cup {t}
  /\ \/ turn' = t /\ (RecordTime # 0 => ~((s - firstPTS') % PtsSpan >= Limit))
     \/ turn' = IF t = Video THEN Audio ELSE 0

LEMMA RecordFrameRecords ==
  ASSUME NEW t \in {Video, Audio}, RecordFrame(t)
  PROVE  \E s \in 0..MaxStamp : Counted(t, s)
<1>1. PICK f \in Frames :
        /\ NextFrame(t, f)
        /\ Begin(t, Stamp(t, f))
        /\ \/ FrameWritten(t, f) /\ (IF RecordOver(Stamp(t, f)) THEN FileDone(t) ELSE UNCHANGED turn)
           \/ FrameRefused(t, f) /\ FileDone(t)
  BY DEF RecordFrame
<1>2. Stamp(t, f) \in 0..MaxStamp
  BY <1>1 DEF NextFrame
<1>3. /\ program = "record" /\ turn = t /\ program' = program
      /\ begun' = begun \cup {t}
  BY DEF RecordFrame
<1>4. /\ pts' = [pts EXCEPT ![t] = Append(@, Stamp(t, f))]
      /\ firstPTS' = IF t \notin begun /\ Stamp(t, f) < firstPTS THEN Stamp(t, f) ELSE firstPTS
  BY <1>1 DEF FrameWritten, FrameRefused, Begin
<1>5. \/ turn' = t /\ (RecordTime # 0 => ~((Stamp(t, f) - firstPTS') % PtsSpan >= Limit))
      \/ turn' = IF t = Video THEN Audio ELSE 0
  <2>1. CASE RecordOver(Stamp(t, f))
    BY <1>1, <2>1 DEF FileDone
  <2>2. CASE ~RecordOver(Stamp(t, f))
    BY <1>1, <1>3, <2>2 DEF FileDone, RecordOver, Limit
  <2> QED
    BY <2>1, <2>2
<1> QED
  BY <1>2, <1>3, <1>4, <1>5 DEF Counted

LEMMA RecordedStamped ==
  ASSUME Stamped, NEW t \in {Video, Audio}, NEW s \in 0..MaxStamp, Counted(t, s)
  PROVE  Stamped'
<1>1. pts' \in [Tracks -> Seq(0..MaxStamp)]
  BY StampConstants DEF Stamped, Counted
<1>2. firstPTS' \in 0..(PtsSpan - 1)
  BY StampConstants DEF Stamped, Counted
<1>3. turn' \in {0, Video, Audio} /\ begun' \subseteq {Video, Audio} /\ program' = program
  BY DEF Stamped, Counted
<1> QED
  BY <1>1, <1>2, <1>3 DEF Stamped

LEMMA RecordedFirst ==
  ASSUME Stamped, FirstOfBoth, NEW t \in {Video, Audio}, NEW s \in 0..MaxStamp, Counted(t, s)
  PROVE  FirstOfBoth'
<1>1. /\ pts' = [pts EXCEPT ![t] = Append(@, s)]
      /\ pts \in [Tracks -> Seq(0..MaxStamp)]
      /\ begun' = begun \cup {t} /\ t \in Tracks
      /\ begun \subseteq {Video, Audio}
  BY StampConstants DEF Counted, Stamped
<1>2. pts[t] \in Seq(0..MaxStamp) /\ pts'[t] = Append(pts[t], s) /\ pts'[t] # <<>>
  BY <1>1
<1>3. pts'[t][1] = IF t \in begun THEN pts[t][1] ELSE s
  <2>1. t \in begun <=> pts[t] # <<>>
    BY DEF FirstOfBoth, Counted
  <2> QED
    BY <1>2, <2>1
<1>4. \A u \in {Video, Audio} \ {t} : pts'[u] = pts[u]
  BY <1>1, StampConstants
<1>5. turn' = Video => pts'[Audio] = <<>>
  BY <1>4, StampConstants DEF Counted, FirstOfBoth
<1>6. \A u \in {Video, Audio} : u \in begun' <=> pts'[u] # <<>>
  BY <1>1, <1>2, <1>4 DEF FirstOfBoth, Counted
<1>7. \A u \in begun' : firstPTS' <= pts'[u][1]
  <2> SUFFICES ASSUME NEW u \in begun'
               PROVE  firstPTS' <= pts'[u][1]
    OBVIOUS
  <2>1. firstPTS' \in Int /\ firstPTS \in Int /\ firstPTS' <= firstPTS
    BY StampConstants DEF Counted, Stamped
  <2>2. CASE u = t
    <3>1. CASE t \in begun
      <4>1. pts[t][1] \in Int /\ firstPTS <= pts[t][1]
        BY <1>1, <3>1, FirstStamp DEF FirstOfBoth, Counted
      <4> QED
        BY <1>3, <2>1, <2>2, <3>1, <4>1
    <3>2. CASE t \notin begun
      BY <1>3, <2>1, <2>2, <3>2 DEF Counted
    <3> QED
      BY <3>1, <3>2
  <2>3. CASE u # t
    <3>1. u \in begun /\ pts'[u] = pts[u] /\ u \in Tracks
      BY <1>1, <1>4, <2>3, StampConstants
    <3>2. pts[u] # <<>> /\ pts[u] \in Seq(0..MaxStamp) /\ firstPTS <= pts[u][1]
      BY <1>1, <3>1 DEF FirstOfBoth, Counted
    <3>3. pts[u][1] \in Int
      BY <3>2, FirstStamp
    <3> QED
      BY <2>1, <3>1, <3>2, <3>3
  <2> QED
    BY <2>2, <2>3
<1>8. \E u \in begun' : firstPTS' = pts'[u][1]
  <2>1. CASE t \notin begun /\ s < firstPTS
    <3>1. firstPTS' = s /\ pts'[t][1] = s /\ t \in begun'
      BY <1>1, <1>3, <2>1 DEF Counted
    <3> QED
      BY <3>1
  <2>2. CASE t \notin begun /\ ~(s < firstPTS)
    <3>1. begun # {}
      BY <2>2, StampConstants DEF FirstOfBoth, Counted, NoPTS
    <3>2. PICK u \in begun : firstPTS = pts[u][1]
      BY <3>1 DEF FirstOfBoth, Counted
    <3>3. u # t /\ pts'[u] = pts[u]
      BY <1>1, <1>4, <2>2
    <3> QED
      BY <1>1, <2>2, <3>2, <3>3 DEF Counted
  <2>3. CASE t \in begun
    <3>1. PICK u \in begun : firstPTS = pts[u][1]
      BY <2>3 DEF FirstOfBoth, Counted
    <3>2. pts'[u][1] = pts[u][1]
      BY <1>1, <1>3, <1>4, <2>3
    <3>3. u \in begun' /\ firstPTS' = firstPTS
      BY <1>1, <2>3 DEF Counted
    <3> QED
      BY <3>1, <3>2, <3>3
  <2> QED
    BY <2>1, <2>2, <2>3
<1> QED
  BY <1>1, <1>5, <1>6, <1>7, <1>8 DEF FirstOfBoth

\* The recorder measures a frame from the origin of its track.
LEMMA FirstIsOrigin ==
  ASSUME Stamped, FirstOfBoth, NEW t \in {Video, Audio}, NEW s \in 0..MaxStamp, Counted(t, s)
  PROVE  firstPTS' = Origin(t)' /\ firstPTS' <= MaxStamp /\ firstPTS' \in 0..(PtsSpan - 1)
<1>1. Stamped' /\ FirstOfBoth'
  BY RecordedStamped, RecordedFirst
<1>2. /\ program' = "record" /\ t \in begun' /\ begun' # {}
      /\ begun' \subseteq {Video, Audio}
  BY <1>1 DEF Counted, Stamped
<1>3. /\ \A u \in {Video, Audio} : u \in begun' <=> pts'[u] # <<>>
      /\ \A u \in begun' : firstPTS' <= pts'[u][1]
      /\ \E u \in begun' : firstPTS' = pts'[u][1]
  BY <1>1, <1>2 DEF FirstOfBoth
<1>4. \A u \in begun' : pts'[u][1] \in 0..MaxStamp /\ pts'[u][1] \in Int
  BY <1>1, <1>2, <1>3, FirstStamp, StampConstants DEF Stamped
<1>5. firstPTS' <= MaxStamp /\ firstPTS' \in 0..(PtsSpan - 1)
  <2>1. \E u \in begun' : firstPTS' = pts'[u][1] /\ pts'[u][1] \in 0..MaxStamp
    BY <1>3, <1>4
  <2> QED
    BY <2>1, StampConstants
<1>6. CASE t = Video
  <2>1. pts'[Audio] = pts[Audio] /\ pts[Audio] = <<>>
    BY <1>6, StampConstants DEF Stamped, FirstOfBoth, Counted
  <2>2. begun' = {Video}
    BY <1>2, <1>3, <1>6, <2>1, StampConstants
  <2>3. firstPTS' = pts'[Video][1]
    BY <1>3, <2>2
  <2> QED
    BY <1>5, <1>6, <2>3, StampConstants DEF Origin
<1>7. CASE t = Audio
  <2>1. CASE pts'[Video] # <<>> /\ pts'[Video][1] < pts'[Audio][1]
    <3>1. Origin(Audio)' = pts'[Video][1]
      BY <2>1 DEF Origin
    <3>2. Video \in begun' /\ Audio \in begun' /\ \A u \in begun' : u = Video \/ u = Audio
      BY <1>2, <1>3, <1>7, <2>1
    <3>3. firstPTS' = pts'[Video][1]
      BY <1>3, <1>4, <2>1, <3>2
    <3> QED
      BY <1>5, <1>7, <3>1, <3>3
  <2>2. CASE ~(pts'[Video] # <<>> /\ pts'[Video][1] < pts'[Audio][1])
    <3>1. Origin(Audio)' = pts'[Audio][1]
      BY <2>2 DEF Origin
    <3>2. Audio \in begun' /\ \A u \in begun' : u = Video \/ u = Audio
      BY <1>2, <1>7
    <3>3. firstPTS' = pts'[Audio][1]
      BY <1>3, <1>4, <1>5, <2>2, <3>2
    <3> QED
      BY <1>5, <1>7, <3>1, <3>3
  <2> QED
    BY <2>1, <2>2
<1> QED
  BY <1>6, <1>7

\* Frames do not change the origin of a track that has begun.
LEMMA OriginKept ==
  ASSUME Stamped, FirstOfBoth, NEW t \in {Video, Audio}, NEW s \in 0..MaxStamp, Counted(t, s),
         NEW u \in {Video, Audio}, pts[u] # <<>>
  PROVE  Origin(u)' = Origin(u)
<1>1. /\ pts \in [Tracks -> Seq(0..MaxStamp)] /\ t \in Tracks /\ u \in Tracks /\ Video \in Tracks
      /\ pts' = [pts EXCEPT ![t] = Append(@, s)]
  BY StampConstants DEF Stamped, Counted
<1>2. ASSUME NEW v \in Tracks, pts[v] # <<>>
      PROVE  pts'[v][1] = pts[v][1] /\ pts'[v] # <<>>
  <2>1. CASE v = t
    <3>1. pts[v] \in Seq(0..MaxStamp) /\ pts'[v] = Append(pts[v], s) /\ Len(pts[v]) # 0
      BY <1>1, <1>2, <2>1, EmptySeq
    <3> QED
      BY <3>1
  <2>2. CASE v # t
    BY <1>1, <1>2, <2>2
  <2> QED
    BY <2>1, <2>2
<1>3. pts[Video] = <<>> /\ u = Audio => pts'[Video] = <<>>
  BY <1>1, StampConstants DEF FirstOfBoth, Counted
<1> QED
  BY <1>1, <1>2, <1>3, StampConstants DEF Origin

LEMMA RecordedLimited ==
  ASSUME Stamped, FirstOfBoth, Limited,
         NEW t \in {Video, Audio}, NEW s \in 0..MaxStamp, Counted(t, s)
  PROVE  Limited'
<1> SUFFICES ASSUME RecordTime # 0
             PROVE  /\ turn' # 0 => Inside(turn, Len(pts[turn]))'
                    /\ \A u \in {Video, Audio} : Inside(u, Len(pts[u]) - 1)'
  BY DEF Limited
<1>1. /\ pts \in [Tracks -> Seq(0..MaxStamp)] /\ t \in Tracks /\ t # 0
      /\ pts' = [pts EXCEPT ![t] = Append(@, s)]
      /\ turn = t /\ program = "record"
  BY StampConstants DEF Stamped, Counted
<1>2. /\ pts[t] \in Seq(0..MaxStamp) /\ pts'[t] = Append(pts[t], s)
      /\ Len(pts[t]) \in Nat /\ Len(pts'[t]) = Len(pts[t]) + 1
      /\ pts'[t][Len(pts[t]) + 1] = s
      /\ \A i \in 1..Len(pts[t]) : pts'[t][i] = pts[t][i]
  BY <1>1
<1>3. \A i \in 1..Len(pts[t]) : pts'[t][i] - Origin(t)' \in 0..(Limit - 1)
  <2> SUFFICES ASSUME NEW i \in 1..Len(pts[t])
               PROVE  pts'[t][i] - Origin(t)' \in 0..(Limit - 1)
    OBVIOUS
  <2>1. pts[t] # <<>>
    BY <1>2, EmptySeq
  <2>2. Origin(t)' = Origin(t)
    BY <2>1, OriginKept
  <2>3. pts[t][i] - Origin(t) \in 0..(Limit - 1)
    BY <1>1 DEF Limited, Inside
  <2> QED
    BY <1>2, <2>2, <2>3
<1>4. ASSUME turn' = t
      PROVE  Inside(t, Len(pts[t]))'
  <2>1. ~((s - firstPTS') % PtsSpan >= Limit)
    BY <1>4, StampConstants DEF Counted
  <2>2. s - Origin(t)' \in 0..(Limit - 1)
    BY <2>1, FirstIsOrigin, UnsignedDifference
  <2>3. \A i \in 1..(Len(pts[t]) + 1) : i \in 1..Len(pts[t]) \/ i = Len(pts[t]) + 1
    BY <1>2
  <2> QED
    BY <1>2, <1>3, <2>2, <2>3 DEF Inside
<1>5. ASSUME turn' # 0
      PROVE  Inside(turn, Len(pts[turn]))'
  <2>1. CASE turn' = t
    BY <1>4, <2>1
  <2>2. CASE turn' # t
    <3>1. t = Video /\ turn' = Audio
      BY <1>5, <2>2 DEF Counted
    <3>2. pts'[Audio] = <<>>
      BY <1>1, <3>1, StampConstants DEF FirstOfBoth
    <3> QED
      BY <3>1, <3>2 DEF Inside
  <2> QED
    BY <2>1, <2>2
<1>6. ASSUME NEW u \in {Video, Audio}
      PROVE  Inside(u, Len(pts[u]) - 1)'
  <2>1. CASE u = t
    BY <1>2, <1>3, <2>1 DEF Inside
  <2>2. CASE u # t
    <3>1. pts'[u] = pts[u] /\ pts[u] \in Seq(0..MaxStamp) /\ Len(pts[u]) \in Nat
      BY <1>1, <2>2, StampConstants
    <3>2. CASE pts[u] = <<>>
      BY <3>1, <3>2 DEF Inside
    <3>3. CASE pts[u] # <<>>
      <4>1. Origin(u)' = Origin(u)
        BY <3>3, OriginKept
      <4>2. Inside(u, Len(pts[u]) - 1)
        BY <1>1 DEF Limited
      <4> QED
        BY <3>1, <4>1, <4>2 DEF Inside
    <3> QED
      BY <3>2, <3>3
  <2> QED
    BY <2>1, <2>2
<1> QED
  BY <1>5, <1>6

LEMMA InitRec == Init => RecInv
<1> SUFFICES ASSUME Init
             PROVE  RecInv
  OBVIOUS
<1>1. pts = [t \in Tracks |-> <<>>] /\ turn = Video /\ begun = {} /\ firstPTS = NoPTS
  BY DEF Init
<1>2. \A t \in {Video, Audio} : pts[t] = <<>> /\ Len(pts[t]) = 0
  BY <1>1, StampConstants
<1>3. Stamped
  BY <1>1, StampConstants DEF Init, Stamped, NoPTS
<1>4. FirstOfBoth
  BY <1>1, <1>2, StampConstants DEF FirstOfBoth
<1>5. Limited
  BY <1>1, <1>2 DEF Limited, Inside
<1> QED
  BY <1>3, <1>4, <1>5 DEF RecInv

\* What the recorder has taken stays, and it may go on with the next file.
LEMMA KeptRec ==
  ASSUME RecInv, UNCHANGED <<program, begun, pts, firstPTS>>,
         \/ UNCHANGED turn
         \/ turn = Video /\ turn' = Audio
         \/ turn' = 0
  PROVE  RecInv'
<1>1. Stamped'
  BY DEF RecInv, Stamped
<1>2. FirstOfBoth'
  BY StampConstants DEF RecInv, FirstOfBoth
<1>3. Limited'
  <2>1. CASE UNCHANGED turn
    BY <2>1 DEF RecInv, Limited, Inside, Origin
  <2>2. CASE turn = Video /\ turn' = Audio
    <3>1. program = "record" => pts'[Audio] = <<>> /\ Len(pts'[Audio]) = 0
      BY <2>2 DEF RecInv, FirstOfBoth
    <3> QED
      BY <2>2, <3>1 DEF RecInv, Limited, Inside, Origin
  <2>3. CASE turn' = 0
    BY <2>3 DEF RecInv, Limited, Inside, Origin
  <2> QED
    BY <2>1, <2>2, <2>3
<1> QED
  BY <1>1, <1>2, <1>3 DEF RecInv

\* The recorder alone has a limit.
LEMMA OtherProgram ==
  ASSUME program' # "record", Stamped'
  PROVE  RecInv'
BY DEF RecInv, FirstOfBoth, Limited

LEMMA StepRec == RecInv /\ [Next]_vars => RecInv'
<1> SUFFICES ASSUME RecInv, [Next]_vars
             PROVE  RecInv'
  OBVIOUS
<1> USE DEF stampVars, inputVars
<1>1. CASE \/ Start \/ Finish \/ EditStep \/ EditEnds
           \/ CutStep \/ ListStep \/ CopyStep \/ UNCHANGED vars
  BY <1>1, KeptRec DEF Start, Finish, EditStep, EditEnds, CutStep, ListStep, CopyStep, vars
<1>2. ASSUME NEW t \in {Video, Audio}, RecordSkip(t) \/ RecordEnds(t)
      PROVE  RecInv'
  BY <1>2, KeptRec, StampConstants DEF RecordSkip, RecordEnds, FileDone
<1>3. ASSUME NEW t \in {Video, Audio}, RecordFrame(t)
      PROVE  RecInv'
  <2>1. PICK s \in 0..MaxStamp : Counted(t, s)
    BY <1>3, RecordFrameRecords
  <2> QED
    BY <2>1, RecordedStamped, RecordedFirst, RecordedLimited DEF RecInv
<1>4. ASSUME NEW t \in {Video, Audio}, MuxSkip(t) \/ MuxEnds(t)
      PROVE  RecInv'
  <2>1. program' = "mux" /\ UNCHANGED <<begun, pts, firstPTS>> /\ turn' \in {Video, Audio}
    BY <1>4 DEF MuxSkip, MuxEnds, OtherTurn
  <2> QED
    BY <2>1, OtherProgram DEF RecInv, Stamped
<1>5. ASSUME NEW t \in {Video, Audio}, MuxFrame(t)
      PROVE  RecInv'
  <2>1. PICK f \in Frames : NextFrame(t, f) /\ (FrameWritten(t, f) \/ FrameRefused(t, f))
    BY <1>5 DEF MuxFrame
  <2>2. Stamp(t, f) \in 0..MaxStamp /\ pts' = [pts EXCEPT ![t] = Append(@, Stamp(t, f))]
    BY <2>1 DEF NextFrame, FrameWritten, FrameRefused
  <2>3. /\ program' = "mux" /\ turn' \in {0, Video, Audio}
        /\ begun' = begun \cup {t} /\ firstPTS' = firstPTS
    BY <1>5 DEF MuxFrame, OtherTurn
  <2>4. pts' \in [Tracks -> Seq(0..MaxStamp)]
    BY <2>2, StampConstants DEF RecInv, Stamped
  <2> QED
    BY <2>3, <2>4, OtherProgram DEF RecInv, Stamped
<1>6. CASE Death
  <2>1. /\ pts' = [t \in Tracks |-> <<>>] /\ turn' = Video /\ begun' = {} /\ firstPTS' = NoPTS
        /\ program' = program
    BY <1>6 DEF Death
  <2>2. \A t \in {Video, Audio} : pts'[t] = <<>> /\ Len(pts'[t]) = 0
    BY <2>1, StampConstants
  <2>3. Stamped'
    BY <2>1, StampConstants DEF RecInv, Stamped, NoPTS
  <2>4. FirstOfBoth'
    BY <2>1, <2>2, StampConstants DEF FirstOfBoth
  <2>5. Limited'
    BY <2>1, <2>2 DEF Limited, Inside
  <2> QED
    BY <2>3, <2>4, <2>5 DEF RecInv
<1> QED
  BY <1>1, <1>2, <1>3, <1>4, <1>5, <1>6 DEF Next, ProgramStep

\* Whatever the two files hold and whatever fails, every sample of a recorded
\* track but the last lies within the limit.
THEOREM KeepsLimit == Spec => []WithinLimit
<1>1. RecInv => WithinLimit
  BY DEF RecInv, Limited, Inside, WithinLimit, Limit
<1> QED
  BY <1>1, InitRec, StepRec, PTL DEF Spec

(***************************************************************************)
(* The time stamps.  What is inductive is that each sample of the log has  *)
(* the ticks from the time stamp before its own, which is the one that     *)
(* lastPTS remembers while more frames may come.                           *)
(***************************************************************************)

\* The time stamp that sample k of a track is counted from.
From(q, k) == IF k = 1 THEN q[1] ELSE q[k - 1]

Counting(t) == program = "mux" \/ turn = t

GapsOf(t) ==
  /\ Len(log[t]) = Len(pts[t])
  /\ t \in begun <=> pts[t] # <<>>
  /\ Counting(t) /\ pts[t] # <<>> => lastPTS[t] = pts[t][Len(pts[t])]
  /\ \A k \in 1..Len(pts[t]) : log[t][k].duration = Ticks(t, From(pts[t], k), pts[t][k])

Gaps ==
  IF program \in {"record", "mux"} THEN \A t \in {Video, Audio} : GapsOf(t)
  ELSE \A t \in {Video, Audio} : pts[t] = <<>>

StampInv == TableInv /\ RecInv /\ Gaps

\* The ticks of a gap are those of the time that has passed, but for a part of
\* a tick.
LEMMA TicksElapsed ==
  ASSUME NEW t \in Tracks, NEW a \in 0..MaxStamp, NEW b \in 0..MaxStamp, a <= b
  PROVE  /\ Ticks(t, a, b) \in Nat
         /\ Ticks(t, a, b) * PtsPerSecond <= (b - a) * TimeScale[t]
         /\ (b - a) * TimeScale[t] < Ticks(t, a, b) * PtsPerSecond + PtsPerSecond
<1> DEFINE gap == b - a
           scale == TimeScale[t]
           x == gap * scale
<1>1. /\ PtsSpan \in Nat \ {0} /\ PtsPerSecond \in Nat \ {0} /\ scale \in Nat
      /\ MaxStamp \in Nat /\ MaxStamp < PtsSpan
  BY Constants, StampConstants
<1>2. gap \in Nat /\ gap < PtsSpan
  BY <1>1
<1>3. gap % PtsSpan = gap
  <2> HIDE DEF gap
  <2> QED
    BY <1>1, <1>2
<1>4. x \in Nat
  <2> HIDE DEF gap, scale
  <2> QED
    BY <1>1, <1>2
<1>5. Ticks(t, a, b) = x \div PtsPerSecond
  BY <1>3 DEF Ticks
<1> HIDE DEF x
<1>6. /\ x \div PtsPerSecond \in Nat
      /\ (x \div PtsPerSecond) * PtsPerSecond <= x
      /\ x < (x \div PtsPerSecond) * PtsPerSecond + PtsPerSecond
  BY <1>1, <1>4, Quotient
<1> QED
  BY <1>5, <1>6 DEF x

\* One gap more.
LEMMA EarlyByOneMore ==
  ASSUME NEW P \in Nat \ {0}, NEW scale \in Nat, NEW n \in Int, n >= 2,
         NEW first \in Int, NEW from \in Int, NEW to \in Int,
         NEW sum \in Int, NEW d \in Int,
         sum * P <= (from - first) * scale,
         (from - first) * scale - sum * P <= (n - 2) * (P - 1),
         d * P <= (to - from) * scale,
         (to - from) * scale < d * P + P
  PROVE  /\ (sum + d) * P <= (to - first) * scale
         /\ (to - first) * scale - (sum + d) * P <= (n - 1) * (P - 1)
<1>1. (sum + d) * P = sum * P + d * P
  OBVIOUS
<1>2. (to - first) * scale = (from - first) * scale + (to - from) * scale
  OBVIOUS
<1>3. (n - 1) * (P - 1) = (n - 2) * (P - 1) + (P - 1)
  OBVIOUS
<1> DEFINE a == sum * P
           b == d * P
           c == (from - first) * scale
           e == (to - from) * scale
           g == (n - 2) * (P - 1)
<1>4. a \in Int /\ b \in Int /\ c \in Int /\ e \in Int /\ g \in Int
  OBVIOUS
<1>5. a <= c /\ c - a <= g /\ b <= e /\ e < b + P
  OBVIOUS
<1> HIDE DEF a, b, c, e, g
<1>6. a + b <= c + e /\ (c + e) - (a + b) <= g + (P - 1)
  BY <1>4, <1>5
<1> QED
  BY <1>1, <1>2, <1>3, <1>6 DEF a, b, c, e, g

LEMMA ShownEarly ==
  ASSUME NEW t \in Tracks, NEW q \in Seq(0..MaxStamp), \A i \in 2..Len(q) : q[i - 1] <= q[i],
         NEW d, \A k \in 1..Len(q) : d[k] = Ticks(t, From(q, k), q[k])
  PROVE  \A n \in 1..Len(q) :
           /\ SumOver(d, 1, n) * PtsPerSecond <= (q[n] - q[1]) * TimeScale[t]
           /\ (q[n] - q[1]) * TimeScale[t] - SumOver(d, 1, n) * PtsPerSecond
                <= (n - 1) * (PtsPerSecond - 1)
<1> DEFINE Early(n) ==
             /\ SumOver(d, 1, n) * PtsPerSecond <= (q[n] - q[1]) * TimeScale[t]
             /\ (q[n] - q[1]) * TimeScale[t] - SumOver(d, 1, n) * PtsPerSecond
                  <= (n - 1) * (PtsPerSecond - 1)
           S == {n \in Int : n \in 1..Len(q) => Early(n)}
<1>1. /\ PtsPerSecond \in Nat \ {0} /\ TimeScale[t] \in Nat /\ MaxStamp \in Nat
      /\ Len(q) \in Nat
  BY Constants, StampConstants
<1>2. \A k \in 1..Len(q) : q[k] \in 0..MaxStamp
  BY ElementOfSeq
<1>3. ASSUME NEW n \in 1..Len(q)
      PROVE  From(q, n) \in 0..MaxStamp /\ From(q, n) <= q[n]
  <2>1. CASE n = 1
    BY <1>1, <1>2, <2>1 DEF From
  <2>2. CASE n # 1
    <3>1. n \in 2..Len(q) /\ n - 1 \in 1..Len(q)
      BY <1>1, <2>2
    <3> QED
      BY <1>2, <2>2, <3>1 DEF From
  <2> QED
    BY <2>1, <2>2
<1>4. ASSUME NEW n \in 1..Len(q)
      PROVE  /\ d[n] \in Nat
             /\ d[n] * PtsPerSecond <= (q[n] - From(q, n)) * TimeScale[t]
             /\ (q[n] - From(q, n)) * TimeScale[t] < d[n] * PtsPerSecond + PtsPerSecond
  BY <1>2, <1>3, TicksElapsed
<1>5. \A n \in 1..Len(q) :
        SumOver(d, 1, n) \in Int /\ SumOver(d, 1, n) = SumOver(d, 1, n - 1) + d[n]
  <2> SUFFICES ASSUME NEW n \in 1..Len(q)
               PROVE  SumOver(d, 1, n) \in Int /\ SumOver(d, 1, n) = SumOver(d, 1, n - 1) + d[n]
    OBVIOUS
  <2>1. n \in Int /\ n >= 1 /\ \A i \in 1..n : d[i] \in Int
    BY <1>1, <1>4
  <2>2. SumOver(d, 1, n) \in Int
    BY <2>1, SumInt
  <2>3. SumOver(d, 1, n) = IF n < 1 THEN 0 ELSE SumOver(d, 1, n - 1) + d[n]
    BY <2>1, SumStep
  <2> QED
    BY <2>1, <2>2, <2>3
<1>6. ASSUME 1 \in 1..Len(q)
      PROVE  Early(1)
  <2>1. From(q, 1) = q[1] /\ q[1] \in Int
    BY <1>2, <1>6 DEF From
  <2>2. (q[1] - q[1]) * TimeScale[t] = 0
    BY <1>1, <2>1
  <2>3. d[1] \in Nat /\ d[1] * PtsPerSecond <= 0
    BY <1>4, <1>6, <2>1, <2>2
  <2>4. d[1] = 0
    <3>1. \A k, p \in Nat : k * p = IF k = 0 THEN 0 ELSE (k - 1) * p + p
      OBVIOUS
    <3>2. \A k, p \in Nat : k * p \in Nat
      OBVIOUS
    <3>3. d[1] # 0 => (d[1] - 1) * PtsPerSecond \in Nat
      BY <1>1, <2>3, <3>2, SMTT(30)
    <3> QED
      BY <1>1, <2>3, <3>1, <3>3
  <2>5. \A z \in Int : z < 1 => SumOver(d, 1, z) = 0
    BY SumEmpty
  <2>6. SumOver(d, 1, 1) = 0
    BY <1>5, <1>6, <2>4, <2>5
  <2>7. (1 - 1) * (PtsPerSecond - 1) = 0 /\ SumOver(d, 1, 1) * PtsPerSecond = 0
    BY <1>1, <2>6
  <2> QED
    BY <2>2, <2>7
<1>7. ASSUME NEW n \in Int, n >= 2, n - 1 \in S
      PROVE  n \in S
  <2> SUFFICES ASSUME n \in 1..Len(q)
               PROVE  Early(n)
    OBVIOUS
  <2>1. n - 1 \in 1..Len(q) /\ Early(n - 1) /\ From(q, n) = q[n - 1] /\ n - 1 - 1 = n - 2
    BY <1>1, <1>7 DEF From
  <2>2. /\ q[1] \in Int /\ q[n - 1] \in Int /\ q[n] \in Int
        /\ SumOver(d, 1, n - 1) \in Int /\ d[n] \in Int
        /\ SumOver(d, 1, n) = SumOver(d, 1, n - 1) + d[n]
    <3>1. 1 \in 1..Len(q)
      BY <1>1
    <3> QED
      BY <1>2, <1>4, <1>5, <2>1, <3>1, SMTT(30)
  <2>3. /\ d[n] * PtsPerSecond <= (q[n] - q[n - 1]) * TimeScale[t]
        /\ (q[n] - q[n - 1]) * TimeScale[t] < d[n] * PtsPerSecond + PtsPerSecond
    BY <1>4, <2>1
  <2>4. /\ SumOver(d, 1, n - 1) * PtsPerSecond <= (q[n - 1] - q[1]) * TimeScale[t]
        /\ (q[n - 1] - q[1]) * TimeScale[t] - SumOver(d, 1, n - 1) * PtsPerSecond
             <= (n - 2) * (PtsPerSecond - 1)
    BY <2>1
  <2>5. /\ (SumOver(d, 1, n - 1) + d[n]) * PtsPerSecond <= (q[n] - q[1]) * TimeScale[t]
        /\ (q[n] - q[1]) * TimeScale[t] - (SumOver(d, 1, n - 1) + d[n]) * PtsPerSecond
             <= (n - 1) * (PtsPerSecond - 1)
    BY <1>1, <1>7, <2>2, <2>3, <2>4, EarlyByOneMore
  <2> QED
    BY <2>2, <2>5
<1> HIDE DEF Early
<1>8. 1 \in S
  BY <1>6
<1> HIDE DEF S
<1>9. \A n \in Int : n >= 1 => n \in S
  <2>1. ASSUME NEW m \in Int, m = 2
        PROVE  \A n \in Int : n >= 1 => n \in S
    <3>1. m - 1 \in S /\ m - 1 = 1
      BY <1>8, <2>1
    <3>2. \A n \in Int : n >= m /\ n - 1 \in S => n \in S
      BY <1>7, <2>1
    <3>3. \A n \in Int : n >= m - 1 => n \in S
      BY <3>1, <3>2, SumInduction
    <3> QED
      BY <3>1, <3>3
  <2> QED
    BY <2>1
<1>10. ASSUME NEW n \in 1..Len(q)
       PROVE  Early(n)
  BY <1>1, <1>9 DEF S
<1> QED
  BY <1>10 DEF Early

\* A frame more, written or refused.
LEMMA FrameGap ==
  ASSUME TableInv, RecInv, Gaps, NEW t \in {Video, Audio}, RecordFrame(t) \/ MuxFrame(t)
  PROVE  Gaps'
<1>1. PICK f \in Frames :
        /\ NextFrame(t, f)
        /\ FrameWritten(t, f) \/ FrameRefused(t, f)
        /\ \/ lastPTS' = [lastPTS EXCEPT ![t] = Stamp(t, f)]
           \/ /\ lastPTS' = [lastPTS EXCEPT ![t] = Previous(t, Stamp(t, f))]
              /\ program = "record" /\ turn' # t
  <2>1. CASE RecordFrame(t)
    <3>1. FileDone(t) => turn' # t
      BY StampConstants DEF FileDone
    <3> QED
      BY <2>1, <3>1 DEF RecordFrame
  <2>2. CASE MuxFrame(t)
    BY <2>2 DEF MuxFrame
  <2> QED
    BY <2>1, <2>2
<1> DEFINE s == Stamp(t, f)
           e == [bytes |-> f.size, duration |-> FrameTicks(t, f), offset |-> 0, sync |-> Sync(t, f)]
           n == Len(pts[t])
<1>2. /\ program \in {"record", "mux"} /\ program' = program /\ begun' = begun \cup {t}
      /\ program = "record" => turn = t
      /\ program = "record" => turn' \in {t, 0} \/ (t = Video /\ turn' = Audio)
  BY StampConstants DEF RecordFrame, MuxFrame, FileDone
<1>3. /\ pts' = [pts EXCEPT ![t] = Append(@, s)]
      /\ log' = [log EXCEPT ![t] = Append(@, e)]
  BY <1>1 DEF FrameWritten, FrameRefused, WriteSample, WriteSampleFails, Logged
<1>4. /\ pts \in [Tracks -> Seq(0..MaxStamp)] /\ log \in [Tracks -> Seq(Sample)]
      /\ lastPTS \in [Tracks -> Nat] /\ t \in Tracks /\ s \in 0..MaxStamp
      /\ {Video, Audio} \subseteq Tracks
  BY <1>1, StampConstants DEF RecInv, Stamped, TableInv, FileInv, Clocks, NextFrame
<1>5. GapsOf(t) /\ Counting(t)
  BY <1>2 DEF Gaps, Counting
<1>6. Previous(t, s) = IF pts[t] = <<>> THEN s ELSE pts[t][n]
  BY <1>5 DEF Previous, GapsOf
<1> HIDE DEF s, e
<1>7. /\ pts'[t] = Append(pts[t], s) /\ log'[t] = Append(log[t], e)
      /\ n \in Nat /\ Len(pts'[t]) = n + 1 /\ Len(log'[t]) = n + 1 /\ pts'[t] # <<>>
      /\ pts'[t][n + 1] = s /\ log'[t][n + 1] = e
      /\ \A k \in 1..n : pts'[t][k] = pts[t][k] /\ log'[t][k] = log[t][k]
  <2>1. pts[t] \in Seq(0..MaxStamp) /\ log[t] \in Seq(Sample) /\ Len(log[t]) = n
    BY <1>4, <1>5 DEF GapsOf
  <2>2. pts'[t] = Append(pts[t], s) /\ log'[t] = Append(log[t], e)
    BY <1>3, <1>4
  <2> QED
    BY <2>1, <2>2, LenProperties, AppendProperties, SMTT(30)
<1>8. e.duration = Ticks(t, From(pts'[t], n + 1), pts'[t][n + 1])
  <2>1. e.duration = Ticks(t, Previous(t, s), s)
    BY DEF e, s, FrameTicks
  <2>2. From(pts'[t], n + 1) = IF n = 0 THEN s ELSE pts[t][n]
    BY <1>7 DEF From
  <2>3. n = 0 <=> pts[t] = <<>>
    <3>1. pts[t] \in Seq(0..MaxStamp)
      BY <1>4
    <3> QED
      BY <3>1, EmptySeq
  <2> QED
    BY <1>6, <1>7, <2>1, <2>2, <2>3
<1>9. ASSUME NEW k \in 1..n
      PROVE  log'[t][k].duration = Ticks(t, From(pts'[t], k), pts'[t][k])
  <2>1. k = 1 \/ k - 1 \in 1..n
    BY <1>7
  <2>2. From(pts'[t], k) = From(pts[t], k)
    BY <1>7, <2>1 DEF From
  <2> QED
    BY <1>5, <1>7, <2>2 DEF GapsOf
<1>10. GapsOf(t)'
  <2>1. \A k \in 1..(n + 1) : k \in 1..n \/ k = n + 1
    BY <1>7
  <2>2. \A k \in 1..Len(pts'[t]) : log'[t][k].duration = Ticks(t, From(pts'[t], k), pts'[t][k])
    BY <1>7, <1>8, <1>9, <2>1
  <2>3. Counting(t)' => lastPTS'[t] = s
    BY <1>1, <1>2, <1>4 DEF Counting, s
  <2>4. t \in begun'
    BY <1>2
  <2> QED
    BY <1>7, <2>2, <2>3, <2>4 DEF GapsOf
<1>11. ASSUME NEW u \in {Video, Audio}, u # t
       PROVE  GapsOf(u)'
  <2>1. pts'[u] = pts[u] /\ log'[u] = log[u] /\ lastPTS'[u] = lastPTS[u] /\ (u \in begun' <=> u \in begun)
    BY <1>1, <1>2, <1>3, <1>4, <1>11
  <2>2. GapsOf(u)
    BY <1>2 DEF Gaps
  <2>3. Counting(u)' => Counting(u) \/ pts[u] = <<>>
    <3>1. CASE program = "mux"
      BY <3>1 DEF Counting
    <3>2. CASE program = "record"
      <4>1. turn' = u => t = Video /\ u = Audio
        BY <1>2, <1>11, <3>2, StampConstants
      <4> QED
        BY <1>2, <3>2, <4>1 DEF Counting, RecInv, FirstOfBoth
    <3> QED
      BY <1>2, <3>1, <3>2
  <2>4. /\ Len(log'[u]) = Len(pts'[u])
        /\ u \in begun' <=> pts'[u] # <<>>
        /\ Counting(u)' /\ pts'[u] # <<>> => lastPTS'[u] = pts'[u][Len(pts'[u])]
    BY <2>1, <2>2, <2>3 DEF GapsOf
  <2>5. \A k \in 1..Len(pts'[u]) : log'[u][k].duration = Ticks(u, From(pts'[u], k), pts'[u][k])
    BY <2>1, <2>2 DEF GapsOf
  <2> QED
    BY <2>4, <2>5 DEF GapsOf
<1> QED
  BY <1>2, <1>10, <1>11 DEF Gaps

\* No sample is written, and the recorder may go on with the next file.
LEMMA KeptGaps ==
  ASSUME RecInv, Gaps, UNCHANGED <<program, pts, begun, lastPTS, log>>,
         \/ UNCHANGED turn \/ program = "mux"
         \/ turn = Video /\ turn' = Audio
         \/ turn' = 0
  PROVE  Gaps'
<1>1. CASE program \notin {"record", "mux"}
  BY <1>1 DEF Gaps
<1>2. CASE program \in {"record", "mux"}
  <2> SUFFICES ASSUME NEW t \in {Video, Audio}
               PROVE  GapsOf(t)'
    BY <1>2 DEF Gaps
  <2>1. GapsOf(t)
    BY <1>2 DEF Gaps
  <2>2. Counting(t)' => Counting(t) \/ pts[t] = <<>>
    BY <1>2, StampConstants DEF Counting, RecInv, FirstOfBoth
  <2>3. /\ Len(log'[t]) = Len(pts'[t])
        /\ t \in begun' <=> pts'[t] # <<>>
        /\ Counting(t)' /\ pts'[t] # <<>> => lastPTS'[t] = pts'[t][Len(pts'[t])]
    BY <2>1, <2>2 DEF GapsOf
  <2>4. \A k \in 1..Len(pts'[t]) : log'[t][k].duration = Ticks(t, From(pts'[t], k), pts'[t][k])
    BY <2>1 DEF GapsOf
  <2> QED
    BY <2>3, <2>4 DEF GapsOf
<1> QED
  BY <1>1, <1>2

LEMMA OtherGaps ==
  ASSUME Gaps, program \notin {"record", "mux"}, UNCHANGED <<program, pts>>
  PROVE  Gaps'
BY DEF Gaps

LEMMA NoGaps ==
  ASSUME pts = [t \in Tracks |-> <<>>], log = [t \in Tracks |-> <<>>], begun = {}
  PROVE  Gaps
<1>1. \A t \in {Video, Audio} : pts[t] = <<>> /\ log[t] = <<>> /\ Len(pts[t]) = 0 /\ t \notin begun
  BY StampConstants
<1>2. \A t \in {Video, Audio} : GapsOf(t)
  BY <1>1 DEF GapsOf
<1> QED
  BY <1>1, <1>2 DEF Gaps

LEMMA StepGaps ==
  ASSUME TableInv, RecInv, Gaps, [Next]_vars
  PROVE  Gaps'
<1>1. CASE Start \/ Finish
  BY <1>1, KeptGaps DEF Start, Finish, Create, Close, stampVars, inputVars
<1>2. ASSUME NEW t \in {Video, Audio}, RecordFrame(t) \/ MuxFrame(t)
      PROVE  Gaps'
  BY <1>2, FrameGap
<1>3. ASSUME NEW t \in {Video, Audio},
             RecordSkip(t) \/ RecordEnds(t) \/ MuxSkip(t) \/ MuxEnds(t)
      PROVE  Gaps'
  <2>1. UNCHANGED <<program, pts, begun, lastPTS, log>>
    BY <1>3 DEF RecordSkip, RecordEnds, MuxSkip, MuxEnds, fileVars, stampVars
  <2>2. \/ UNCHANGED turn \/ program = "mux"
        \/ turn = Video /\ turn' = Audio
        \/ turn' = 0
    BY <1>3, StampConstants DEF RecordSkip, RecordEnds, MuxSkip, MuxEnds, FileDone
  <2> QED
    BY <2>1, <2>2, KeptGaps
<1>4. CASE EditStep \/ EditEnds \/ CutStep \/ ListStep \/ CopyStep
  <2>1. program \in {"edit", "cut"} /\ UNCHANGED <<program, pts>>
    BY <1>4 DEF EditStep, EditEnds, CutStep, ListStep, CopyStep, stampVars
  <2> QED
    BY <2>1, OtherGaps
<1>5. CASE Death
  <2>1. /\ pts' = [t \in Tracks |-> <<>>] /\ log' = [t \in Tracks |-> <<>>] /\ begun' = {}
    BY <1>5 DEF Death, Die
  <2>2. \A t \in {Video, Audio} : pts'[t] = <<>> /\ log'[t] = <<>> /\ Len(pts'[t]) = 0 /\ t \notin begun'
    BY <2>1, StampConstants
  <2>3. \A t \in {Video, Audio} : GapsOf(t)'
    BY <2>2 DEF GapsOf
  <2> QED
    BY <2>2, <2>3 DEF Gaps
<1>6. CASE UNCHANGED vars
  BY <1>6, KeptGaps DEF vars, fileVars
<1> QED
  BY <1>1, <1>2, <1>3, <1>4, <1>5, <1>6 DEF Next, ProgramStep

LEMMA InitStamps == Init => StampInv
<1> SUFFICES ASSUME Init
             PROVE  StampInv
  OBVIOUS
<1>1. Gaps
  BY NoGaps DEF Init, FileInit
<1> QED
  BY <1>1, InitTables, InitRec DEF StampInv

LEMMA StepStamps == StampInv /\ [Next]_vars => StampInv'
BY StepTables, StepRec, StepGaps DEF StampInv

LEMMA ShownAtPrevious == StampInv => StartIsPreviousPts
<1> SUFFICES ASSUME StampInv, NEW t \in {Video, Audio}, InOrderPts(t), FitsSpan(t),
                    NEW i \in 2..Len(pts[t])
             PROVE  LET stamped == (pts[t][i - 1] - pts[t][1]) * TimeScale[t]
                        shown   == GetSampleTimes(track[t], i).start * PtsPerSecond
                    IN shown <= stamped /\ stamped - shown <= (i - 2) * (PtsPerSecond - 1)
  BY DEF StartIsPreviousPts
<1> DEFINE q == pts[t]
           d == Durations(log[t])
           n == i - 1
<1>1. t \in Tracks /\ q \in Seq(0..MaxStamp) /\ log[t] \in Seq(Sample) /\ FileInv
  BY StampConstants DEF StampInv, RecInv, Stamped, TableInv, FileInv
<1>2. i \in Int /\ n \in 1..Len(q) /\ Len(q) \in Nat /\ q # <<>> /\ n - 1 = i - 2
  <2>1. Len(q) \in Nat
    BY <1>1, LenProperties
  <2>2. i \in Int /\ n \in 1..Len(q) /\ Len(q) # 0 /\ n - 1 = i - 2
    BY <2>1
  <2> QED
    BY <2>1, <2>2
<1>3. GapsOf(t)
  <2>1. program \in {"record", "mux"}
    BY <1>2 DEF StampInv, Gaps
  <2> QED
    BY <2>1 DEF StampInv, Gaps
<1>4. Len(log[t]) = Len(q)
  BY <1>3 DEF GapsOf
<1>5. \A k \in 1..Len(q) : d[k] = Ticks(t, From(q, k), q[k])
  <2>1. \A k \in 1..Len(log[t]) : d[k] = log[t][k].duration
    BY <1>1, LoggedDurations
  <2> QED
    BY <1>3, <1>4, <2>1 DEF GapsOf
<1>6. \A k \in 2..Len(q) : q[k - 1] <= q[k]
  BY DEF InOrderPts
<1>7. GetSampleTimes(track[t], i).start = SumOver(d, 1, n)
  <2>1. i \in 1..Len(log[t])
    BY <1>2, <1>4
  <2>2. GetSampleTimes(track[t], i) = [start |-> LoggedTime(t, i), duration |-> log[t][i].duration]
    BY <1>1, <2>1, SearchOfFile
  <2> QED
    BY <2>2 DEF LoggedTime
<1>8. /\ SumOver(d, 1, n) * PtsPerSecond <= (q[n] - q[1]) * TimeScale[t]
      /\ (q[n] - q[1]) * TimeScale[t] - SumOver(d, 1, n) * PtsPerSecond
           <= (n - 1) * (PtsPerSecond - 1)
  <2> HIDE DEF q, d, n
  <2>1. \A k \in 1..Len(q) :
           /\ SumOver(d, 1, k) * PtsPerSecond <= (q[k] - q[1]) * TimeScale[t]
           /\ (q[k] - q[1]) * TimeScale[t] - SumOver(d, 1, k) * PtsPerSecond
                <= (k - 1) * (PtsPerSecond - 1)
    BY <1>1, <1>5, <1>6, ShownEarly
  <2> QED
    BY <1>2, <2>1
<1> HIDE DEF d
<1> QED
  BY <1>2, <1>7, <1>8

\* Whatever frames are written or refused, a frame of the recorder and of the
\* muxer is shown at the time stamp of the one before, and the parts of ticks
\* that are cut off never add up to more than one for each frame: each is taken
\* from the difference of two time stamps and never made up for.
THEOREM ShowsPrevious == Spec => []StartIsPreviousPts
<1> QED
  BY ShownAtPrevious, InitStamps, StepStamps, PTL DEF Spec

(***************************************************************************)
(* The types.                                                              *)
(***************************************************************************)

\* What the two input files have given.
Inputs ==
  /\ ended \subseteq {Video, Audio}
  /\ frames \in [Tracks -> Nat]
  /\ \A t \in {Video, Audio} : lastPTS[t] \in 0..(PtsSpan - 1) /\ frames[t] \in 0..MaxFrames[t]

LEMMA FrameInputs ==
  ASSUME Inputs, Clocks, NEW t \in {Video, Audio}, RecordFrame(t) \/ MuxFrame(t)
  PROVE  Inputs'
<1>1. PICK f \in Frames :
        /\ NextFrame(t, f)
        /\ \/ lastPTS' = [lastPTS EXCEPT ![t] = Stamp(t, f)]
           \/ lastPTS' = [lastPTS EXCEPT ![t] = Previous(t, Stamp(t, f))]
  BY DEF RecordFrame, MuxFrame
<1>2. /\ frames[t] < MaxFrames[t] /\ Stamp(t, f) \in 0..MaxStamp
      /\ frames' = [frames EXCEPT ![t] = @ + 1]
  BY <1>1 DEF NextFrame
<1>3. Stamp(t, f) \in 0..(PtsSpan - 1) /\ Previous(t, Stamp(t, f)) \in 0..(PtsSpan - 1)
  BY <1>2, StampConstants DEF Previous, Inputs
<1>4. t \in Tracks /\ MaxFrames[t] \in Nat /\ ended' = ended
  BY StampConstants, RecorderAssumption DEF RecordFrame, MuxFrame
<1>5. \A u \in {Video, Audio} : lastPTS'[u] \in 0..(PtsSpan - 1)
  BY <1>1, <1>3, <1>4, StampConstants DEF Inputs, Clocks
<1>6. frames' \in [Tracks -> Nat] /\ \A u \in {Video, Audio} : frames'[u] \in 0..MaxFrames[u]
  BY <1>2, <1>4, StampConstants DEF Inputs
<1> QED
  BY <1>4, <1>5, <1>6 DEF Inputs

\* A frame that gives no sample, and the end of a file.
LEMMA PassedInputs ==
  ASSUME Inputs, NEW t \in {Video, Audio},
         RecordSkip(t) \/ MuxSkip(t) \/ RecordEnds(t) \/ MuxEnds(t)
  PROVE  Inputs'
<1>1. lastPTS' = lastPTS
  BY DEF RecordSkip, MuxSkip, RecordEnds, MuxEnds, stampVars
<1>2. CASE RecordSkip(t) \/ MuxSkip(t)
  <2>1. /\ frames[t] < MaxFrames[t] /\ frames' = [frames EXCEPT ![t] = @ + 1]
        /\ ended' = ended
    BY <1>2 DEF RecordSkip, MuxSkip, NextFrame
  <2>2. t \in Tracks /\ MaxFrames[t] \in Nat
    BY StampConstants, RecorderAssumption
  <2>3. frames' \in [Tracks -> Nat] /\ \A u \in {Video, Audio} : frames'[u] \in 0..MaxFrames[u]
    BY <2>1, <2>2, StampConstants DEF Inputs
  <2> QED
    BY <1>1, <2>1, <2>3 DEF Inputs
<1>3. CASE RecordEnds(t) \/ MuxEnds(t)
  BY <1>1, <1>3 DEF RecordEnds, MuxEnds, FileEnds, Inputs
<1> QED
  BY <1>2, <1>3

LEMMA StepInputs ==
  ASSUME Inputs, Clocks, [Next]_vars
  PROVE  Inputs'
<1> USE DEF stampVars, inputVars
<1>1. CASE \/ Start \/ Finish \/ EditStep \/ EditEnds
           \/ CutStep \/ ListStep \/ CopyStep \/ UNCHANGED vars
  BY <1>1 DEF Inputs, Start, Finish, EditStep, EditEnds, CutStep, ListStep, CopyStep, vars
<1>2. CASE Death
  <2>1. /\ ended' = {} /\ lastPTS' = [t \in Tracks |-> 0] /\ frames' = [t \in Tracks |-> 0]
    BY <1>2 DEF Death
  <2>2. \A t \in {Video, Audio} : t \in Tracks /\ MaxFrames[t] \in Nat
    BY StampConstants, RecorderAssumption
  <2> QED
    BY <2>1, <2>2, StampConstants DEF Inputs
<1> QED
  BY <1>1, <1>2, FrameInputs, PassedInputs DEF Next, ProgramStep

LEMMA InitInputs == Init => Inputs
<1> SUFFICES ASSUME Init
             PROVE  Inputs
  OBVIOUS
<1>1. ended = {} /\ lastPTS = [t \in Tracks |-> 0] /\ frames = [t \in Tracks |-> 0]
  BY DEF Init
<1>2. \A t \in {Video, Audio} : t \in Tracks /\ MaxFrames[t] \in Nat
  BY StampConstants, RecorderAssumption
<1> QED
  BY <1>1, <1>2, StampConstants DEF Inputs

\* The fields of a track.
LEMMA TrackTyped ==
  ASSUME FileInv, MediaInv, NEW t \in Tracks
  PROVE  /\ track[t].count \in Nat /\ track[t].size \in Nat
         /\ track[t].next \in Nat \ {0}
         /\ track[t].samples \in Nat /\ track[t].elapsed \in Nat
         /\ track[t].sizes \in Seq(Nat)
         /\ track[t].stss \in Seq(Nat \ {0})
         /\ track[t].hasStss \in BOOLEAN /\ track[t].hasCtts \in BOOLEAN
         /\ \A i \in DOMAIN track[t].stts : track[t].stts[i] \in [n : Nat \ {0}, v : 0..(Span - 1)]
         /\ \A i \in DOMAIN track[t].ctts : track[t].ctts[i] \in [n : Nat \ {0}, v : 0..(Span - 1)]
         /\ \A i \in DOMAIN track[t].chunks : track[t].chunks[i] \in 0..Len(media)
         /\ \A i \in DOMAIN track[t].stsc : track[t].stsc[i] \in
              [chunk : 1..Len(track[t].chunks), per : Nat \ {0}, first : 0..(Span - 1)]
<1> DEFINE tr == track[t]
<1>1. IsTrack(tr) /\ Chunked(tr, t, log[t], media)
  BY DEF FileInv, MediaInv, TrackMedia
<1> HIDE DEF tr
<1>2. /\ tr.count \in Nat /\ tr.size \in Nat /\ tr.next \in Nat \ {0}
      /\ tr.samples \in Nat /\ tr.elapsed \in Nat /\ tr.sizes \in Seq(Nat)
      /\ tr.stss \in Seq(Nat \ {0}) /\ tr.hasStss \in BOOLEAN /\ tr.hasCtts \in BOOLEAN
      /\ tr.stts \in Seq(Row) /\ tr.ctts \in Seq(Row)
  BY <1>1 DEF IsTrack
<1>3. \A i \in DOMAIN tr.stts : tr.stts[i] \in [n : Nat \ {0}, v : 0..(Span - 1)]
  <2>1. \A i \in DOMAIN tr.stts : tr.stts[i] \in Row
    BY <1>2, ElementOfSeq, LenProperties
  <2> QED
    BY <2>1 DEF Row
<1>4. \A i \in DOMAIN tr.ctts : tr.ctts[i] \in [n : Nat \ {0}, v : 0..(Span - 1)]
  <2>1. \A i \in DOMAIN tr.ctts : tr.ctts[i] \in Row
    BY <1>2, ElementOfSeq, LenProperties
  <2> QED
    BY <2>1 DEF Row
<1>5. \A i \in DOMAIN tr.chunks : tr.chunks[i] \in 0..Len(media)
  BY <1>1, ElementOfSeq, LenProperties DEF Chunked
<1>6. ASSUME NEW i \in DOMAIN tr.stsc
      PROVE  tr.stsc[i] \in [chunk : 1..Len(tr.chunks), per : Nat \ {0}, first : 0..(Span - 1)]
  <2> DEFINE row == tr.stsc[i]
             n   == Len(tr.chunks)
  <2>1. IsStsc(tr.stsc, n)
    BY <1>1 DEF Chunked
  <2>2. i \in 1..Len(tr.stsc)
    BY <1>6, <2>1, StscFields
  <2>3. row \in StscRow /\ row.chunk \in Nat \ {0} /\ row.chunk <= n /\ n \in Nat
    BY <2>1, <2>2, StscFields
  <2> HIDE DEF row, n
  <2>4. row \in [chunk : 1..n, per : Nat \ {0}, first : 0..(Span - 1)]
    BY <2>3 DEF StscRow
  <2> QED
    BY <2>4 DEF row, n
<1> QED
  BY <1>2, <1>3, <1>4, <1>5, <1>6 DEF tr

LEMMA FileTyped ==
  ASSUME FileInv, MediaInv
  PROVE  FileTypeOK
BY TrackTyped DEF FileTypeOK, MediaInv, MediaTypes

LEMMA ListTyped ==
  ASSUME ListInv
  PROVE  ListTypeOK
<1>1. ASSUME NEW t \in Tracks, NEW i \in DOMAIN elst[t]
      PROVE  elst[t][i] \in [media : 0..(Span - 1), duration : 0..(Span - 1), dwell : BOOLEAN]
  BY ElementOfSeq, LenProperties DEF ListInv, Entry
<1> QED
  BY <1>1 DEF ListTypeOK, ListInv, IsDub

TypeInv == TableInv /\ MediaInv /\ RecInv /\ Inputs

LEMMA AllTyped == TypeInv => TypeOK
BY FileTyped, ListTyped DEF TypeInv, TableInv, RecInv, Stamped, Inputs, TypeOK

\* Whatever the input files hold and whichever calls follow each other, the
\* state stays within its types: each track a record of tables, a chunk within
\* the media data, the times of the edit list in 32 bits and those of the frames
\* in 64, and no more frames read than the files have.
THEOREM TypesKept == Spec => []TypeOK
<1>1. Init => TypeInv
  BY InitTables, InitMedia, InitRec, InitInputs DEF TypeInv
<1>2. TypeInv /\ [Next]_vars => TypeInv'
  BY StepTables, StepMedia, StepRec, StepInputs DEF TypeInv, TableInv
<1> QED
  BY <1>1, <1>2, AllTyped, PTL DEF Spec

(***************************************************************************)
(* The copy of a track.                                                    *)
(***************************************************************************)

\* Sample id of the track in the copy.
CopiedAs(t, id) ==
  [id |-> id, duration |-> IF dub.viaEdits THEN log[t][id].duration ELSE InvalidDuration]

\* The first n samples of the copy from sample a on, as far as they are
\* remembered.
Copies(t, a, n) == [k \in 1..Min({n, MaxCopied}) |-> CopiedAs(t, a + k - 1)]

\* Without the edit list the copy has come to sample dub.id.
WholeCopy(t) ==
  /\ dub.id \in 0..Len(log[t])
  /\ dub.samples = Copies(t, 1, dub.id)
  /\ dub.phase = "done" => dub.id = Len(log[t])

\* With a list of one segment, which shows the track from sample a on, it has
\* come to n samples.
SegmentCopy(t, a, n) ==
  LET s == elst[t][1]
  IN /\ a + n \in 1..Len(log[t])
     /\ s.media = LoggedTime(t, a)
     /\ dub.when = LoggedTime(t, a + n) - s.media /\ dub.when < s.duration
     /\ dub.samples = Copies(t, a, n)
     /\ dub.phase = "done" => LoggedTime(t, a + n + 1) - s.media >= s.duration

OneSegment(t) == Len(elst[t]) = 1 /\ Aligned(t)

\* The inductive invariant: how far a copy has come.
Dubbing ==
  dub.phase # "none" =>
    /\ program = "cut" /\ mode = "reading"
    /\ ~dub.viaEdits => WholeCopy(dub.track)
    /\ dub.viaEdits /\ OneSegment(dub.track) =>
         \E a \in 1..Len(log[dub.track]), n \in Nat : SegmentCopy(dub.track, a, n)

LEMMA LeastOf ==
  ASSUME NEW a \in Int, NEW b \in Int
  PROVE  /\ Min({a, b}) = IF a <= b THEN a ELSE b
         /\ Max({a, b}) = IF a <= b THEN b ELSE a
<1>1. Min({a, b}) = IF a <= b THEN a ELSE b
  BY MinIs
<1>2. Max({a, b}) = IF a <= b THEN b ELSE a
  BY MaxIs
<1> QED
  BY <1>1, <1>2

\* The first m values of a function.
LEMMA FirstValues ==
  ASSUME NEW e, NEW m \in Nat
  PROVE  LET q == [k \in 1..m |-> e[k]]
         IN /\ q \in Seq({e[k] : k \in Nat}) /\ Len(q) = m
            /\ Append(q, e[m + 1]) = [k \in 1..(m + 1) |-> e[k]]
            /\ \A l \in 0..m : SubSeq(q, 1, l) = [k \in 1..l |-> e[k]]
<1> DEFINE S == {e[k] : k \in Nat}
           q == [k \in 1..m |-> e[k]]
<1>1. \A l \in Nat : [k \in 1..l |-> e[k]] \in Seq(S) /\ Len([k \in 1..l |-> e[k]]) = l
  OBVIOUS
<1>2. e[m + 1] \in S
  OBVIOUS
<1> DEFINE more == [k \in 1..(m + 1) |-> e[k]]
<1>3. /\ q \in Seq(S) /\ Len(q) = m /\ \A k \in 1..m : q[k] = e[k]
      /\ more \in Seq(S) /\ Len(more) = m + 1 /\ \A k \in 1..(m + 1) : more[k] = e[k]
  BY <1>1
<1> HIDE DEF S, q, more
<1>4. Append(q, e[m + 1]) = more
  <2> DEFINE r == Append(q, e[m + 1])
  <2>1. r \in Seq(S) /\ Len(r) = m + 1 /\ r[m + 1] = e[m + 1] /\ \A k \in 1..m : r[k] = q[k]
    BY <1>2, <1>3, AppendProperties
  <2> HIDE DEF r
  <2>2. \A k \in 1..(m + 1) : r[k] = more[k]
    <3>1. \A k \in 1..(m + 1) : k \in 1..m \/ k = m + 1
      OBVIOUS
    <3> QED
      BY <1>3, <2>1, <3>1
  <2>3. r = more
    BY <1>3, <2>1, <2>2, SeqEqual
  <2> QED
    BY <2>3 DEF r
<1>5. ASSUME NEW l \in 0..m
      PROVE  SubSeq(q, 1, l) = [k \in 1..l |-> e[k]]
  <2> DEFINE r == SubSeq(q, 1, l)
             w == [k \in 1..l |-> e[k]]
  <2>1. r \in Seq(S) /\ Len(r) = l /\ \A k \in 1..l : r[k] = q[k]
    <3>1. 1 \in 1..(Len(q) + 1) /\ l \in (1 - 1)..Len(q) /\ l - 1 + 1 = l /\ \A k \in 1..l : 1 + k - 1 = k
      BY <1>3
    <3> QED
      BY <1>3, <3>1, SubSeqProperties
  <2>2. w \in Seq(S) /\ Len(w) = l /\ \A k \in 1..l : w[k] = e[k]
    BY <1>1
  <2> HIDE DEF r, w
  <2>3. \A k \in 1..l : r[k] = w[k]
    BY <1>3, <2>1, <2>2
  <2>4. r = w
    BY <2>1, <2>2, <2>3, SeqEqual
  <2> QED
    BY <2>4 DEF r, w
<1> QED
  BY <1>3, <1>4, <1>5 DEF q, S, more

LEMMA FirstIsPrefix ==
  ASSUME NEW e, NEW m \in Nat, NEW l \in Nat, m <= l
  PROVE  LET q   == [k \in 1..m |-> e[k]]
             all == [k \in 1..l |-> e[k]]
         IN /\ IsPrefix(q, all) /\ q = SubSeq(all, 1, m) /\ Len(all) = l
<1> DEFINE q   == [k \in 1..m |-> e[k]]
           all == [k \in 1..l |-> e[k]]
<1>1. Len(q) = m /\ SubSeq(q, 1, m) = q
  BY FirstValues
<1>2. Len(all) = l /\ SubSeq(all, 1, m) = q
  BY FirstValues
<1> HIDE DEF q, all
<1>3. IsPrefix(q, all)
  BY <1>1, <1>2 DEF IsPrefix
<1> QED
  BY <1>1, <1>2, <1>3 DEF q, all

\* One sample more.
LEMMA CopiesMore ==
  ASSUME NEW t, NEW a \in Nat, NEW n \in Nat
  PROVE  /\ Copies(t, a, 0) = <<>>
         /\ Copies(t, a, n + 1) =
              IF Len(Copies(t, a, n)) < MaxCopied THEN Append(Copies(t, a, n), CopiedAs(t, a + n))
              ELSE Copies(t, a, n)
<1> DEFINE e == [k \in Nat |-> CopiedAs(t, a + k - 1)]
<1>1. MaxCopied \in Nat
  BY ListAssumption
<1>2. ASSUME NEW m \in Nat
      PROVE  /\ m <= MaxCopied => Copies(t, a, m) = [k \in 1..m |-> e[k]]
             /\ ~(m <= MaxCopied) => Copies(t, a, m) = [k \in 1..MaxCopied |-> e[k]]
  <2> DEFINE r == Min({m, MaxCopied})
  <2>1. r = IF m <= MaxCopied THEN m ELSE MaxCopied
    BY <1>1, LeastOf
  <2>2. r \in Nat
    BY <1>1, <2>1
  <2>3. Copies(t, a, m) = [k \in 1..r |-> CopiedAs(t, a + k - 1)]
    BY DEF Copies
  <2> HIDE DEF r
  <2>4. \A k \in 1..r : e[k] = CopiedAs(t, a + k - 1)
    BY <2>2
  <2> HIDE DEF e
  <2>5. Copies(t, a, m) = [k \in 1..r |-> e[k]]
    BY <2>3, <2>4
  <2> QED
    BY <2>1, <2>5
<1>3. \A k \in Nat : e[k + 1] = CopiedAs(t, a + k)
  <2>1. \A k \in Nat : k + 1 \in Nat /\ a + (k + 1) - 1 = a + k
    OBVIOUS
  <2> QED
    BY <2>1
<1> HIDE DEF e
<1>4. Copies(t, a, 0) = <<>>
  <2>1. 0 \in Nat /\ 0 <= MaxCopied
    BY <1>1
  <2>2. Copies(t, a, 0) = [k \in 1..0 |-> e[k]]
    BY <1>2, <2>1
  <2> QED
    BY <2>2
<1>5. CASE n < MaxCopied
  <2>1. n <= MaxCopied /\ n + 1 \in Nat /\ n + 1 <= MaxCopied
    BY <1>1, <1>5
  <2>2. Copies(t, a, n) = [k \in 1..n |-> e[k]] /\ Copies(t, a, n + 1) = [k \in 1..(n + 1) |-> e[k]]
    BY <1>2, <2>1
  <2>3. Len(Copies(t, a, n)) = n
    BY <2>2, FirstValues
  <2>4. Append(Copies(t, a, n), e[n + 1]) = Copies(t, a, n + 1)
    BY <2>2, FirstValues
  <2> QED
    BY <1>3, <1>4, <1>5, <2>3, <2>4
<1>6. CASE ~(n < MaxCopied)
  <2>1. /\ Copies(t, a, n) = [k \in 1..MaxCopied |-> e[k]]
        /\ Copies(t, a, n + 1) = [k \in 1..MaxCopied |-> e[k]]
    <3>1. n + 1 \in Nat /\ ~(n + 1 <= MaxCopied)
      BY <1>1, <1>6
    <3>2. n <= MaxCopied => n = MaxCopied
      BY <1>1, <1>6
    <3>3. Copies(t, a, n + 1) = [k \in 1..MaxCopied |-> e[k]]
      BY <1>2, <3>1
    <3>4. Copies(t, a, n) = [k \in 1..MaxCopied |-> e[k]]
      BY <1>2, <3>2
    <3> QED
      BY <3>3, <3>4
  <2>2. Len(Copies(t, a, n)) = MaxCopied
    BY <1>1, <2>1, FirstValues
  <2> QED
    BY <1>1, <1>4, <2>1, <2>2
<1> QED
  BY <1>5, <1>6

LEMMA TimeOfNext ==
  ASSUME FileInv, NEW t \in Tracks, NEW id \in 1..Len(log[t])
  PROVE  /\ LoggedTime(t, id) \in Nat /\ LoggedTime(t, id + 1) \in Nat
         /\ log[t][id].duration \in Nat
         /\ LoggedTime(t, id + 1) = LoggedTime(t, id) + log[t][id].duration
<1>1. /\ log[t] \in Seq(Sample) /\ Len(log[t]) \in Nat
  BY TrackOfFile
<1> DEFINE v == Durations(log[t])
<1>2. \A k \in 1..Len(log[t]) : v[k] = log[t][k].duration /\ v[k] \in Nat
  BY <1>1, LoggedDurations
<1>3. LoggedTime(t, id) = SumOver(v, 1, id - 1)
  BY DEF LoggedTime
<1>4. LoggedTime(t, id + 1) = SumOver(v, 1, id)
  <2>1. (id + 1) - 1 = id
    BY <1>1
  <2> QED
    BY <2>1 DEF LoggedTime
<1> HIDE DEF v
<1>5. SumOver(v, 1, id) = SumOver(v, 1, id - 1) + v[id]
  <2>1. id \in Int /\ ~(id < 1)
    BY <1>1
  <2> QED
    BY <2>1, SumStep
<1>6. LoggedTime(t, id) \in Nat /\ LoggedTime(t, id + 1) \in Nat
  <2>1. id \in Nat \ {0} /\ id + 1 \in Nat /\ id <= id + 1 /\ id + 1 <= Len(log[t]) + 1
    BY <1>1
  <2> QED
    BY <2>1, LoggedInOrder
<1> QED
  BY <1>2, <1>3, <1>4, <1>5, <1>6

\* Samples that last start one after the other.
LEMMA LoggedStrictly ==
  ASSUME FileInv, NEW t \in Tracks, \A id \in 1..Len(log[t]) : log[t][id].duration > 0,
         NEW i \in Nat \ {0}, NEW j \in Nat, i < j, j <= Len(log[t]) + 1
  PROVE  /\ LoggedTime(t, i) \in Nat /\ LoggedTime(t, j) \in Nat
         /\ LoggedTime(t, i) < LoggedTime(t, j)
<1>1. Len(log[t]) \in Nat
  BY TrackOfFile
<1>2. i \in 1..Len(log[t]) /\ i + 1 \in Nat \ {0} /\ i + 1 <= j
  BY <1>1
<1>3. /\ LoggedTime(t, i) \in Nat /\ log[t][i].duration \in Nat
      /\ LoggedTime(t, i + 1) = LoggedTime(t, i) + log[t][i].duration
  BY <1>2, TimeOfNext
<1>4. LoggedTime(t, i + 1) \in Nat /\ LoggedTime(t, j) \in Nat /\ LoggedTime(t, i + 1) <= LoggedTime(t, j)
  BY <1>2, LoggedInOrder
<1>5. log[t][i].duration > 0
  BY <1>2
<1> QED
  BY <1>3, <1>4, <1>5

\* A search for the time at which a sample starts finds that sample.
LEMMA SampleStarting ==
  ASSUME FileInv, NEW t \in Tracks, FitsSpan(t),
         \A id \in 1..Len(log[t]) : log[t][id].duration > 0, NEW id \in 1..Len(log[t])
  PROVE  SampleAt(track[t], LoggedTime(t, id)) =
           [id |-> id, start |-> LoggedTime(t, id), duration |-> log[t][id].duration]
<1> DEFINE last  == Len(log[t])
           rows  == track[t].stts
           found == GetSampleIdFromTime(track[t], LoggedTime(t, id))
<1>1. last \in Nat /\ IsTrack(track[t]) /\ Timed(track[t], log[t])
  BY TrackOfFile DEF Recorded
<1>2. id \in Nat \ {0} /\ last + 1 \in Nat /\ id < last + 1 /\ last + 1 <= Len(log[t]) + 1
  BY <1>1
<1>3. LoggedTime(t, id) \in Nat /\ LoggedTime(t, id) < LoggedTime(t, last + 1)
  BY <1>2, LoggedStrictly
<1>4. /\ found \in 1..last
      /\ LoggedTime(t, found) = LoggedTime(t, id)
           \/ (LoggedTime(t, found) < LoggedTime(t, id) /\ LoggedTime(t, id) < LoggedTime(t, found + 1))
  BY <1>3, SearchOfFile
<1> HIDE DEF last, found
<1>5. found = id
  <2>1. ~(found < id)
    <3> SUFFICES ASSUME found < id
                 PROVE  FALSE
      OBVIOUS
    <3>1. /\ found \in Nat \ {0} /\ id \in Nat /\ id <= Len(log[t]) + 1
          /\ found + 1 \in Nat \ {0} /\ found + 1 <= id
      BY <1>1, <1>2, <1>4 DEF last
    <3>2. LoggedTime(t, found) \in Nat /\ LoggedTime(t, found) < LoggedTime(t, id)
      BY <3>1, LoggedStrictly
    <3>3. LoggedTime(t, found + 1) \in Nat /\ LoggedTime(t, found + 1) <= LoggedTime(t, id)
      BY <3>1, LoggedInOrder
    <3> QED
      BY <1>3, <1>4, <3>2, <3>3
  <2>2. ~(id < found)
    <3> SUFFICES ASSUME id < found
                 PROVE  FALSE
      OBVIOUS
    <3>1. found \in Nat /\ found <= Len(log[t]) + 1
      BY <1>1, <1>4 DEF last
    <3>2. LoggedTime(t, found) \in Nat /\ LoggedTime(t, id) < LoggedTime(t, found)
      BY <1>2, <3>1, LoggedStrictly
    <3> QED
      BY <1>3, <1>4, <3>2
  <2> QED
    BY <1>1, <1>2, <1>4, <2>1, <2>2
<1>6. RowFrom(rows, FirstRow, id).index # 0
  <2>1. RunsOf(rows, last, DurationsOf(log[t])) /\ id \in 1..last
    BY <1>1 DEF Timed, last
  <2>2. RowOf(rows, id).index \in 1..Len(rows)
    BY <2>1, RunsLookup
  <2>3. rows \in Seq(Row) /\ Len(rows) \in Nat
    BY <2>1, LenProperties DEF RunsOf
  <2>4. RowFrom(rows, FirstRow, id) = RowOf(rows, id)
    <3>1. CacheOK(rows, NoCache) /\ id \in Int
      BY <1>2, NoCacheOK
    <3> HIDE DEF rows
    <3> QED
      BY <2>3, <3>1, CachedSearch
  <2> QED
    BY <2>2, <2>3, <2>4
<1>7. GetSampleTimes(track[t], id) = [start |-> LoggedTime(t, id), duration |-> log[t][id].duration]
  BY SearchOfFile
<1>8. id # 0
  BY <1>2
<1> QED
  BY <1>5, <1>6, <1>7, <1>8 DEF SampleAt, found, rows

\* What the list of one segment is.
LEMMA SegmentFields ==
  ASSUME ListInv, NEW t \in Tracks, OneSegment(t)
  PROVE  LET s == elst[t][1]
         IN /\ DOMAIN elst[t] = {1} /\ elst[t] # <<>> /\ Len(elst[t]) = 1
            /\ s.media \in Nat /\ s.duration \in Nat /\ s.duration < Span /\ s.duration > 0 /\ ~s.dwell
            /\ s.media + s.duration <= LoggedTime(t, Len(log[t]) + 1)
            /\ \E id \in DOMAIN log[t] : s.media = LoggedTime(t, id)
            /\ GetEditTotalDuration(t, 0) = 0 /\ GetEditTotalDuration(t, 1) = s.duration
<1> DEFINE list == elst[t]
           s    == list[1]
           f    == [i \in DOMAIN list |-> list[i].duration]
<1>1. list \in Seq(Entry) /\ Len(list) = 1 /\ DOMAIN list = 1..Len(list)
  BY LenProperties DEF ListInv, OneSegment
<1>2. 1..1 = {1} /\ 1 \in 1..Len(list)
  BY <1>1
<1>3. s \in Entry
  BY <1>1, <1>2, ElementOfSeq
<1>4. s.media \in Nat /\ s.duration \in Nat /\ s.duration < Span
  <2>1. s.media \in 0..(Span - 1) /\ s.duration \in 0..(Span - 1)
    BY <1>3 DEF Entry
  <2>2. Span \in Nat
    BY Mp4Assumption
  <2> HIDE DEF s
  <2> QED
    BY <2>1, <2>2
<1>5. /\ ~s.dwell /\ s.duration > 0
      /\ s.media + s.duration <= LoggedTime(t, Len(log[t]) + 1)
      /\ \E id \in DOMAIN log[t] : s.media = LoggedTime(t, id)
  BY <1>1, <1>2 DEF OneSegment, Aligned
<1>6. f[1] = s.duration
  BY <1>1, <1>2
<1>7. /\ GetEditTotalDuration(t, 0) = SumOver(f, 1, 0)
      /\ GetEditTotalDuration(t, 1) = SumOver(f, 1, 1)
  BY DEF GetEditTotalDuration
<1>8. list # <<>> /\ DOMAIN list = {1}
  <2>1. list # <<>>
    <3>1. Len(<<>>) # 1
      OBVIOUS
    <3> HIDE DEF list
    <3> QED
      BY <1>1, <3>1
  <2> HIDE DEF list
  <2> QED
    BY <1>1, <1>2, <2>1
<1> HIDE DEF f
<1>9. SumOver(f, 1, 0) = 0
  BY SumEmpty
<1>10. SumOver(f, 1, 1) = s.duration
  <2>1. SumOver(f, 1, 1) = SumOver(f, 1, 0) + f[1]
    <3>1. ~(1 < 1) /\ 1 - 1 = 0
      OBVIOUS
    <3> QED
      BY <3>1, SumStep
  <2> QED
    BY <1>4, <1>6, <1>9, <2>1
<1> QED
  BY <1>1, <1>4, <1>5, <1>7, <1>8, <1>9, <1>10

\* The list of one segment shows sample id when the samples before it in the
\* segment have gone by, and for as long as the segment lasts.
LEMMA SampleShown ==
  ASSUME FileInv, ListInv, NEW t \in Tracks, OneSegment(t), NEW id \in 1..Len(log[t]),
         NEW when \in Nat, when < elst[t][1].duration, elst[t][1].media + when = LoggedTime(t, id)
  PROVE  LET shown  == GetSampleIdFromEditTime(t, when)
             end    == elst[t][1].duration
             length == log[t][id].duration
         IN /\ shown.id = id
            /\ shown.duration = IF when + length > end THEN end - when ELSE length
<1> DEFINE s      == elst[t][1]
           end    == s.duration
           length == log[t][id].duration
           begins == LoggedTime(t, id)
           sample == [id |-> id, start |-> begins, duration |-> length]
<1>1. /\ DOMAIN elst[t] = {1} /\ elst[t] # <<>>
      /\ s.media \in Nat /\ end \in Nat /\ end < Span /\ ~s.dwell
      /\ GetEditTotalDuration(t, 0) = 0 /\ GetEditTotalDuration(t, 1) = end
  BY SegmentFields
<1>2. PtsSpan \in Nat /\ Span \in Nat /\ Span <= PtsSpan
  BY ListAssumption, Mp4Assumption
<1>3. begins \in Nat /\ length \in Nat /\ begins + length < Span
  <2>1. begins \in Nat /\ length \in Nat /\ LoggedTime(t, id + 1) = begins + length
    BY TimeOfNext
  <2>2. Len(log[t]) \in Nat
    BY TrackOfFile
  <2>3. /\ id + 1 \in Nat \ {0} /\ Len(log[t]) + 1 \in Nat
        /\ id + 1 <= Len(log[t]) + 1 /\ Len(log[t]) + 1 <= Len(log[t]) + 1
    BY <2>2
  <2>4. /\ LoggedTime(t, id + 1) \in Nat /\ LoggedTime(t, Len(log[t]) + 1) \in Nat
        /\ LoggedTime(t, id + 1) <= LoggedTime(t, Len(log[t]) + 1)
    BY <2>3, LoggedInOrder
  <2>5. LoggedTime(t, Len(log[t]) + 1) < Span
    BY DEF OneSegment, Aligned, FitsSpan
  <2> HIDE DEF begins, length
  <2> QED
    BY <1>2, <2>1, <2>4, <2>5
<1>4. SampleAt(track[t], begins) = sample
  <2>1. FitsSpan(t) /\ \A k \in 1..Len(log[t]) : log[t][k].duration > 0
    BY TrackOfFile DEF OneSegment, Aligned
  <2> QED
    BY <2>1, SampleStarting
<1>5. s.media + when = begins /\ when < end
  OBVIOUS
<1> HIDE DEF s, end, length, begins
<1>6. SegmentsAt(t, when) = {1}
  <2>1. (end - when) % PtsSpan = end - when /\ end - when > 0
    <3>1. end - when \in Nat /\ end - when < PtsSpan /\ end - when > 0 /\ PtsSpan \in Nat \ {0}
      BY <1>1, <1>2, <1>5
    <3> QED
      BY <3>1
  <2> QED
    BY <1>1, <2>1 DEF SegmentsAt
<1>7. Min({1}) = 1
  <2>1. 1 \in {1} /\ {1} \subseteq Int /\ \A j \in {1} : 1 <= j
    OBVIOUS
  <2> QED
    BY ONLY <2>1, MinIs
<1> DEFINE offset == when - GetEditTotalDuration(t, 1 - 1)
           place  == (s.media + offset) % PtsSpan
           late   == place - sample.start
           start  == when - Min({offset, late})
<1>8. offset = when
  BY <1>1
<1>9. place = begins
  <2>1. s.media + offset = begins
    BY <1>5, <1>8
  <2>2. begins < PtsSpan /\ PtsSpan \in Nat \ {0}
    BY <1>2, <1>3
  <2> QED
    BY <1>3, <2>1, <2>2
<1>10. late = 0
  BY <1>3, <1>9
<1>11. start = when
  <2>1. Min({when, 0}) = 0
    <3>1. Min({when, 0}) = IF when <= 0 THEN when ELSE 0
      BY LeastOf
    <3> QED
      BY <3>1
  <2> HIDE DEF offset, late
  <2>2. Min({offset, late}) = 0
    BY <1>8, <1>10, <2>1
  <2> QED
    BY <2>2
<1>12. SampleInSegment(t, 1, when) =
         [id |-> id, start |-> start,
          duration |-> Shortened(sample, start, offset, late, GetEditTotalDuration(t, 1)) % PtsSpan]
  <2>1. SampleAt(track[t], place) = sample /\ sample.id = id /\ id # 0
    BY <1>4, <1>9
  <2> QED
    BY <1>1, <2>1 DEF SampleInSegment, s
<1>13. GetSampleIdFromEditTime(t, when) = SampleInSegment(t, 1, when)
  BY <1>1, <1>6, <1>7 DEF GetSampleIdFromEditTime
<1> DEFINE over  == when + length - end
           value == IF when + length > end THEN end - when ELSE length
<1>14. Shortened(sample, start, offset, late, GetEditTotalDuration(t, 1)) = value
  <2>1. Shortened(sample, when, when, 0, end) = length - Max({0, over})
    <3>1. ~(when < 0) /\ sample.duration = length
      OBVIOUS
    <3> QED
      BY <3>1 DEF Shortened
  <2>2. over \in Int
    BY <1>1, <1>3
  <2>3. Max({0, over}) = IF 0 <= over THEN over ELSE 0
    <3>1. \A b \in Int : Max({0, b}) = IF 0 <= b THEN b ELSE 0
      <4>1. \A a, b \in Int : Max({a, b}) = IF a <= b THEN b ELSE a
        BY LeastOf
      <4> QED
        BY <4>1
    <3> HIDE DEF over
    <3> QED
      BY <2>2, <3>1
  <2>4. length - Max({0, over}) = value
    BY <1>1, <1>3, <2>3
  <2> QED
    BY <1>1, <1>8, <1>10, <1>11, <2>1, <2>4
<1>15. value % PtsSpan = value
  <2>1. value \in Nat /\ value < PtsSpan /\ PtsSpan \in Nat \ {0}
    BY <1>1, <1>2, <1>3, <1>5, SMTT(30)
  <2> HIDE DEF value
  <2> QED
    BY <2>1
<1> HIDE DEF offset, late, start, sample, value
<1> QED
  BY <1>12, <1>13, <1>14, <1>15 DEF value, end, length, s

\* What a turn does to the copy.
LEMMA TurnOf ==
  ASSUME ListInv, CopyTurn
  PROVE  LET s == NextSample
         IN /\ dub.phase = "copying" /\ UNCHANGED <<elst, log, mode>>
            /\ dub.track' = dub.track /\ dub.viaEdits' = dub.viaEdits
            /\ \/ /\ CopyIsOver(s) /\ dub.phase' = "done"
                  /\ dub.id' = dub.id /\ dub.when' = dub.when /\ dub.samples' = dub.samples
               \/ /\ ~CopyIsOver(s) /\ dub.phase' = "copying"
                  /\ dub.id' = s.id
                  /\ dub.when' = IF dub.viaEdits THEN TimeAfter(s) ELSE dub.when
                  /\ dub.samples' = IF Len(dub.samples) < MaxCopied
                                    THEN Append(dub.samples, [id |-> s.id, duration |-> s.duration])
                                    ELSE dub.samples
               \/ /\ dub.phase' = "failed"
                  /\ dub.id' = dub.id /\ dub.when' = dub.when /\ dub.samples' = dub.samples
<1> DEFINE s == NextSample
<1>1. dub.phase = "copying" /\ UNCHANGED <<elst, log, mode>> /\ (CopyDone(s) \/ CopySample(s) \/ CopyFails(s))
  BY DEF CopyTurn, Copying
<1>2. dub = [phase |-> dub.phase, track |-> dub.track, viaEdits |-> dub.viaEdits, when |-> dub.when,
             id |-> dub.id, samples |-> dub.samples]
  BY DEF ListInv, IsDub
<1> HIDE DEF s
<1>3. CASE CopyDone(s)
  <2>1. dub' = [dub EXCEPT !.phase = "done"] /\ CopyIsOver(s)
    BY <1>3 DEF CopyDone
  <2> QED
    BY <1>1, <1>2, <2>1 DEF s
<1>4. CASE CopySample(s)
  <2> DEFINE when == IF dub.viaEdits THEN TimeAfter(s) ELSE dub.when
             samples == IF Len(dub.samples) < MaxCopied
                        THEN Append(dub.samples, [id |-> s.id, duration |-> s.duration])
                        ELSE dub.samples
  <2>1. ~CopyIsOver(s) /\ dub' = [dub EXCEPT !.id = s.id, !.when = when, !.samples = samples]
    BY <1>4 DEF CopySample
  <2> HIDE DEF when, samples
  <2>2. /\ dub.id' = s.id /\ dub.when' = when /\ dub.samples' = samples
        /\ dub.phase' = dub.phase /\ dub.track' = dub.track /\ dub.viaEdits' = dub.viaEdits
    BY <1>2, <2>1
  <2> QED
    BY <1>1, <2>1, <2>2 DEF s, when, samples
<1>5. CASE CopyFails(s)
  <2>1. dub' = [dub EXCEPT !.phase = "failed"]
    BY <1>5 DEF CopyFails
  <2> QED
    BY <1>1, <1>2, <2>1 DEF s
<1> QED
  BY <1>1, <1>3, <1>4, <1>5

\* A turn without the edit list.
LEMMA WholeTurn ==
  ASSUME FileInv, ListInv, CopyTurn, ~dub.viaEdits, WholeCopy(dub.track)
  PROVE  WholeCopy(dub.track)'
<1> DEFINE t == dub.track
           n == dub.id
           s == NextSample
           x == [id |-> s.id, duration |-> s.duration]
<1>1. /\ dub.phase = "copying" /\ log' = log
      /\ dub.track' = t /\ dub.viaEdits' = dub.viaEdits
      /\ \/ /\ CopyIsOver(s) /\ dub.phase' = "done" /\ dub.id' = n /\ dub.samples' = dub.samples
         \/ /\ ~CopyIsOver(s) /\ dub.phase' = "copying" /\ dub.id' = s.id
            /\ dub.samples' = IF Len(dub.samples) < MaxCopied THEN Append(dub.samples, x) ELSE dub.samples
         \/ dub.phase' = "failed" /\ dub.id' = n /\ dub.samples' = dub.samples
  BY TurnOf
<1>2. t \in Tracks
  BY DEF ListInv, IsDub
<1>3. Len(log[t]) \in Nat /\ track[t].count = Len(log[t])
  BY <1>2, TrackOfFile DEF Recorded, Sized
<1>4. n \in 0..Len(log[t]) /\ dub.samples = Copies(t, 1, n)
  BY DEF WholeCopy
<1>5. s.id = n + 1 /\ s.duration = InvalidDuration /\ x = CopiedAs(t, 1 + n)
  <2>1. s = [NoSample EXCEPT !.id = n + 1, !.duration = InvalidDuration]
    BY DEF NextSample
  <2>2. s.id = n + 1 /\ s.duration = InvalidDuration
    BY <2>1 DEF NoSample
  <2>3. n + 1 = 1 + n
    BY <1>3, <1>4
  <2> HIDE DEF s, n
  <2> QED
    BY <2>2, <2>3 DEF CopiedAs
<1>6. CopyIsOver(s) <=> n + 1 > Len(log[t])
  BY <1>3, <1>5 DEF CopyIsOver
<1>7. Copies(t, 1, n + 1) = IF Len(Copies(t, 1, n)) < MaxCopied THEN Append(Copies(t, 1, n), CopiedAs(t, 1 + n))
                            ELSE Copies(t, 1, n)
  <2>1. \A k, m \in Nat :
          Copies(t, k, m + 1) = IF Len(Copies(t, k, m)) < MaxCopied
                                THEN Append(Copies(t, k, m), CopiedAs(t, k + m)) ELSE Copies(t, k, m)
    BY CopiesMore
  <2>2. n \in Nat
    BY <1>3, <1>4
  <2> HIDE DEF n
  <2> QED
    BY <2>1, <2>2
<1> HIDE DEF s, n, x
<1> DEFINE m == dub.id'
<1>9. /\ m \in 0..Len(log[t]) /\ dub.samples' = Copies(t, 1, m)
      /\ dub.phase' = "done" => m = Len(log[t])
  <2>1. CASE /\ ~CopyIsOver(s) /\ dub.phase' = "copying" /\ dub.id' = s.id
             /\ dub.samples' = IF Len(dub.samples) < MaxCopied THEN Append(dub.samples, x) ELSE dub.samples
    <3>1. m = n + 1 /\ m \in 0..Len(log[t])
      BY <1>3, <1>4, <1>5, <1>6, <2>1
    <3>2. dub.samples' = Copies(t, 1, n + 1)
      BY <1>4, <1>5, <1>7, <2>1
    <3> QED
      BY <2>1, <3>1, <3>2
  <2>2. CASE /\ CopyIsOver(s) /\ dub.phase' = "done" /\ dub.id' = n /\ dub.samples' = dub.samples
    <3>1. n = Len(log[t])
      BY <1>3, <1>4, <1>6, <2>2
    <3> QED
      BY <1>4, <2>2, <3>1
  <2>3. CASE dub.phase' = "failed" /\ dub.id' = n /\ dub.samples' = dub.samples
    BY <1>4, <2>3
  <2> QED
    BY <1>1, <2>1, <2>2, <2>3
<1>10. Copies(dub.track, 1, dub.id)' = Copies(t, 1, m)
  BY <1>1 DEF Copies, CopiedAs
<1> QED
  BY <1>1, <1>9, <1>10 DEF WholeCopy

\* The time after a sample that may be cut off by the end of the segment.
LEMMA TurnTimes ==
  ASSUME NEW when \in Nat, NEW length \in Nat, NEW end \in Nat, NEW span \in Nat,
         when < end, end < span, NEW d \in Int,
         when + length > end => d = end - when, when + length <= end => d = length
  PROVE  /\ (when + d) % span >= end <=> when + length >= end
         /\ when + length < end => d = length /\ (when + d) % span = when + length
<1> DEFINE sum == when + d
<1>1. sum = IF when + length > end THEN end ELSE when + length
  <2>1. CASE when + length > end
    BY <2>1
  <2>2. CASE ~(when + length > end)
    BY <2>2
  <2> QED
    BY <2>1, <2>2
<1>2. sum \in Nat /\ sum < span /\ span \in Nat \ {0}
  BY <1>1
<1>3. sum % span = sum
  <2> HIDE DEF sum
  <2> QED
    BY <1>2
<1>4. sum >= end <=> when + length >= end
  BY <1>1
<1>5. when + length < end => d = length /\ sum = when + length
  OBVIOUS
<1> HIDE DEF sum
<1>6. /\ sum % span >= end <=> when + length >= end
      /\ when + length < end => d = length /\ sum % span = when + length
  BY <1>3, <1>4, <1>5
<1> QED
  BY <1>6 DEF sum

\* A turn with a list of one segment: the next sample, or the end of the loop.
LEMMA SegmentTurn ==
  ASSUME FileInv, ListInv, CopyTurn, dub.viaEdits, OneSegment(dub.track),
         NEW a \in 1..Len(log[dub.track]), NEW n \in Nat, SegmentCopy(dub.track, a, n)
  PROVE  \E m \in Nat : SegmentCopy(dub.track, a, m)'
<1> DEFINE t      == dub.track
           s      == NextSample
           x      == [id |-> s.id, duration |-> s.duration]
           last   == Len(log[t])
           from  == elst[t][1].media
           end    == elst[t][1].duration
           length == log[t][a + n].duration
           time(k) == LoggedTime(t, k)
<1>1. /\ dub.phase = "copying" /\ log' = log /\ elst' = elst
      /\ dub.track' = t /\ dub.viaEdits' = dub.viaEdits
      /\ \/ /\ CopyIsOver(s) /\ dub.phase' = "done"
            /\ dub.when' = dub.when /\ dub.samples' = dub.samples
         \/ /\ ~CopyIsOver(s) /\ dub.phase' = "copying" /\ dub.when' = TimeAfter(s)
            /\ dub.samples' = IF Len(dub.samples) < MaxCopied THEN Append(dub.samples, x) ELSE dub.samples
         \/ /\ dub.phase' = "failed"
            /\ dub.when' = dub.when /\ dub.samples' = dub.samples
  BY TurnOf
<1>2. /\ t \in Tracks /\ last \in Nat /\ a \in Nat \ {0} /\ PtsSpan \in Nat /\ Span <= PtsSpan /\ Span \in Nat
  BY TrackOfFile, ListAssumption, Mp4Assumption DEF ListInv, IsDub
<1>3. /\ a + n \in 1..last /\ from = time(a)
      /\ dub.when = time(a + n) - from /\ dub.when < end
      /\ dub.samples = Copies(t, a, n)
  BY DEF SegmentCopy
<1>4. /\ elst[t] # <<>> /\ Len(elst[t]) = 1 /\ GetEditTotalDuration(t, 1) = end
      /\ from \in Nat /\ end \in Nat /\ end < Span /\ from + end <= time(last + 1)
  BY <1>2, SegmentFields
<1>5. /\ time(a) \in Nat /\ time(a + n) \in Nat /\ length \in Nat /\ time(a + n + 1) \in Nat
      /\ time(a + n + 1) = time(a + n) + length /\ time(a) <= time(a + n)
  <2>1. /\ time(a + n) \in Nat /\ length \in Nat /\ time(a + n + 1) \in Nat
        /\ time(a + n + 1) = time(a + n) + length
    BY <1>2, <1>3, TimeOfNext
  <2>2. a + n \in Nat /\ a <= a + n /\ a + n <= last + 1
    BY <1>2, <1>3
  <2>3. time(a) \in Nat /\ time(a) <= time(a + n)
    BY <1>2, <2>2, LoggedInOrder
  <2> QED
    BY <2>1, <2>3
<1> HIDE DEF last, from, end, length, time
<1>6. dub.when \in Nat /\ from + dub.when = time(a + n)
  BY <1>3, <1>4, <1>5, SMTT(30)
<1>7. s.id = a + n /\ s.duration = IF dub.when + length > end THEN end - dub.when ELSE length
  <2>1. s = GetSampleIdFromEditTime(t, dub.when)
    BY DEF NextSample
  <2>2. a + n \in 1..Len(log[t]) /\ dub.when < elst[t][1].duration
        /\ elst[t][1].media + dub.when = LoggedTime(t, a + n)
    BY <1>3, <1>6 DEF last, end, from, time
  <2> DEFINE shown == GetSampleIdFromEditTime(t, dub.when)
  <2>3. shown.id = a + n
    BY <1>2, <1>6, <2>2, SampleShown
  <2>4. shown.duration = IF dub.when + log[t][a + n].duration > elst[t][1].duration
                         THEN elst[t][1].duration - dub.when ELSE log[t][a + n].duration
    BY <1>2, <1>6, <2>2, SampleShown
  <2> QED
    BY <2>1, <2>3, <2>4 DEF length, end
<1> DEFINE when == dub.when
           d    == s.duration
<1>8. /\ TimeAfter(s) >= end <=> when + length >= end
      /\ when + length < end => d = length /\ TimeAfter(s) = when + length
  <2>1. when \in Nat /\ length \in Nat /\ end \in Nat /\ when < end
    BY <1>3, <1>4, <1>5, <1>6
  <2>2. PtsSpan \in Nat /\ end < PtsSpan
    BY <1>2, <1>4
  <2>3. d = IF when + length > end THEN end - when ELSE length
    BY <1>7
  <2>4. TimeAfter(s) = (when + d) % PtsSpan
    BY DEF TimeAfter
  <2> DEFINE t1 == TimeAfter(s)
  <2> HIDE DEF when, d, s, t1, length, end
  <2>5. PICK w \in Nat, l \in Nat, e \in Nat : w = when /\ l = length /\ e = end
    BY <2>1
  <2>6. /\ w < e /\ e < PtsSpan /\ d \in Int
        /\ (w + l > e => d = e - w) /\ (w + l <= e => d = l)
    BY <2>1, <2>2, <2>3, <2>5
  <2>7. t1 = (w + d) % PtsSpan
    BY <2>4, <2>5 DEF t1
  <2>8. /\ (w + d) % PtsSpan >= e <=> w + l >= e
        /\ w + l < e => d = l /\ (w + d) % PtsSpan = w + l
    BY ONLY w \in Nat, l \in Nat, e \in Nat, <2>2, <2>6, TurnTimes
  <2> QED
    BY <2>5, <2>7, <2>8 DEF t1
<1>9. CopyIsOver(s) <=> when + length >= end
  <2>1. s.id # 0
    BY <1>2, <1>7
  <2>2. CopyIsOver(s) <=> TimeAfter(s) >= end
    BY <1>4, <2>1 DEF CopyIsOver
  <2> QED
    BY <1>8, <2>2
<1> HIDE DEF s, when, d
<1>10. ASSUME NEW m \in Nat, a + m \in 1..last,
              dub.when' = time(a + m) - from, dub.when' < end, dub.samples' = Copies(t, a, m),
              dub.phase' = "done" => time(a + m + 1) - from >= end
       PROVE  SegmentCopy(dub.track, a, m)'

  <2>1. Copies(dub.track, a, m)' = Copies(t, a, m)
    BY <1>1 DEF Copies, CopiedAs
  <2>2. LoggedTime(dub.track, a)' = time(a) /\ LoggedTime(dub.track, a + m)' = time(a + m)
        /\ LoggedTime(dub.track, a + m + 1)' = time(a + m + 1)
    BY <1>1 DEF LoggedTime, time
  <2>3. elst'[dub.track'][1].media = from /\ elst'[dub.track'][1].duration = end
        /\ Len(log'[dub.track']) = last
    BY <1>1 DEF from, end, last
  <2> HIDE DEF t
  <2> QED
    BY <1>3, <1>10, <2>1, <2>2, <2>3 DEF SegmentCopy
<1>11. CASE dub.phase' \in {"done", "failed"}
  <2>1. dub.when' = dub.when /\ dub.samples' = dub.samples /\ (dub.phase' = "done" => CopyIsOver(s))
    BY <1>1, <1>11
  <2>2. dub.phase' = "done" => time(a + n + 1) - from >= end
    <3>1. dub.phase' = "done" => when + length >= end
      BY <1>9, <2>1
    <3>2. when \in Nat /\ from + when = time(a + n)
      BY <1>6 DEF when
    <3> QED
      BY <1>4, <1>5, <3>1, <3>2, SMTT(30)
  <2>3. SegmentCopy(dub.track, a, n)'
    BY <1>3, <1>10, <2>1, <2>2
  <2> QED
    BY <2>3
<1>12. CASE dub.phase' = "copying"
  <2>1. /\ ~CopyIsOver(s) /\ dub.when' = TimeAfter(s)
        /\ dub.samples' = IF Len(dub.samples) < MaxCopied THEN Append(dub.samples, x) ELSE dub.samples
    BY <1>1, <1>12
  <2>2. when + length < end /\ d = length /\ dub.when' = when + length
    <3>1. when \in Nat /\ from + when = time(a + n)
      BY <1>6 DEF when
    <3>2. when + length < end
      BY <1>4, <1>5, <1>9, <2>1, <3>1
    <3> QED
      BY <1>8, <2>1, <3>2
  <2>3. n + 1 \in Nat /\ a + (n + 1) = a + n + 1
    BY <1>2
  <2>4. dub.when' = time(a + (n + 1)) - from /\ dub.when' < end
    <3>1. when \in Nat /\ from + when = time(a + n)
      BY <1>6 DEF when
    <3>2. time(a + n + 1) - from = when + length
      BY <1>4, <1>5, <3>1
    <3> QED
      BY <2>2, <2>3, <3>2
  <2>5. a + (n + 1) \in 1..last
    <3>1. a + n # last
      <4>1. when \in Nat /\ from + when = time(a + n)
        BY <1>6 DEF when
      <4>2. time(a + n + 1) < time(last + 1)
        <5>1. time(last + 1) \in Nat
          <6>1. Len(log[t]) + 1 \in Nat \ {0} /\ last + 1 = Len(log[t]) + 1
            BY <1>2 DEF last
          <6> QED
            BY <1>2, <6>1, LoggedInOrder DEF time
        <5> QED
          BY <1>4, <1>5, <2>2, <4>1, <5>1
      <4> QED
        BY <1>5, <4>2
    <3> QED
      BY <1>2, <1>3, <3>1
  <2>6. x = CopiedAs(t, a + n)
    BY <1>7, <2>2 DEF CopiedAs, length, d
  <2>7. dub.samples' = Copies(t, a, n + 1)
    <3>1. Copies(t, a, n + 1) =
            IF Len(Copies(t, a, n)) < MaxCopied THEN Append(Copies(t, a, n), CopiedAs(t, a + n))
            ELSE Copies(t, a, n)
      BY <1>2, CopiesMore
    <3> HIDE DEF x, t
    <3> QED
      BY <1>3, <2>1, <2>6, <3>1
  <2>8. SegmentCopy(dub.track, a, n + 1)'
    BY <1>10, <1>12, <2>3, <2>4, <2>5, <2>7
  <2> QED
    BY <2>3, <2>8
<1> QED
  BY <1>1, <1>11, <1>12

LEMMA TurnDubbed ==
  ASSUME FileInv, ListInv, Dubbing, CopyStep
  PROVE  Dubbing'
<1>1. /\ dub.phase = "copying" /\ UNCHANGED <<elst, log, mode, program>>
      /\ dub.track' = dub.track /\ dub.viaEdits' = dub.viaEdits
  <2>1. CopyTurn /\ program' = program
    BY DEF CopyStep
  <2> QED
    BY <2>1, TurnOf
<1>2. CopyTurn
  BY DEF CopyStep
<1>3. /\ program = "cut" /\ mode = "reading"
      /\ ~dub.viaEdits => WholeCopy(dub.track)
      /\ dub.viaEdits /\ OneSegment(dub.track) =>
           \E a \in 1..Len(log[dub.track]), n \in Nat : SegmentCopy(dub.track, a, n)
  BY <1>1 DEF Dubbing
<1>4. program' = "cut" /\ mode' = "reading"
  BY <1>1, <1>3
<1>5. CASE ~dub.viaEdits
  <2>1. WholeCopy(dub.track)'
    BY <1>2, <1>3, <1>5, WholeTurn
  <2> QED
    BY <1>1, <1>4, <1>5, <2>1 DEF Dubbing
<1>6. CASE dub.viaEdits /\ OneSegment(dub.track)
  <2>1. PICK a \in 1..Len(log[dub.track]), n \in Nat : SegmentCopy(dub.track, a, n)
    BY <1>3, <1>6
  <2>2. PICK m \in Nat : SegmentCopy(dub.track, a, m)'
    BY <1>2, <1>6, <2>1, SegmentTurn
  <2>3. a \in 1..Len(log[dub.track])'
    BY <1>1
  <2>4. (\E b \in 1..Len(log[dub.track]), k \in Nat : SegmentCopy(dub.track, b, k))'
    BY <2>2, <2>3
  <2> QED
    BY <1>1, <1>4, <1>6, <2>4 DEF Dubbing
<1>7. CASE dub.viaEdits /\ ~OneSegment(dub.track)
  <2>1. ~OneSegment(dub.track)'
    BY <1>1, <1>7 DEF OneSegment, Aligned, FitsSpan, LoggedTime
  <2> QED
    BY <1>1, <1>4, <1>7, <2>1 DEF Dubbing
<1> QED
  BY <1>5, <1>6, <1>7

\* MP4CopyTrack begins.
LEMMA CopyBegins ==
  ASSUME FileInv, ListInv, NEW t \in Tracks, NEW applyEdits \in BOOLEAN, CopyTrack(t, applyEdits),
         program = "cut", program' = program
  PROVE  Dubbing'
<1>1. /\ mode' = "reading" /\ UNCHANGED <<log, elst>> /\ program' = "cut"
      /\ dub' = [NoDub EXCEPT !.phase = "copying", !.track = t,
                              !.viaEdits = applyEdits /\ elst[t] # <<>>]
  BY DEF CopyTrack, fileVars
<1>2. /\ dub.phase' = "copying" /\ dub.track' = t /\ dub.when' = 0 /\ dub.id' = 0 /\ dub.samples' = <<>>
  BY <1>1 DEF NoDub
<1>3. Len(log[t]) \in Nat /\ DOMAIN log[t] = 1..Len(log[t])
  BY TrackOfFile
<1>4. WholeCopy(dub.track)'
  <2>1. Copies(t, 1, 0) = <<>>
    BY CopiesMore
  <2>2. Copies(dub.track, 1, 0)' = <<>>
    <3>1. Copies(dub.track, 1, 0)' = [k \in 1..Min({0, MaxCopied}) |-> CopiedAs(dub.track, 1 + k - 1)']
      BY DEF Copies
    <3>2. Min({0, MaxCopied}) = 0
      <4>1. MaxCopied \in Int /\ 0 <= MaxCopied
        BY ListAssumption
      <4> QED
        BY <4>1, LeastOf
    <3> QED
      BY <3>1, <3>2
  <2> QED
    BY <1>1, <1>2, <1>3, <2>2 DEF WholeCopy
<1>5. ASSUME OneSegment(dub.track)'
      PROVE  (\E a \in 1..Len(log[dub.track]), n \in Nat : SegmentCopy(dub.track, a, n))'
  <2>1. OneSegment(t)
    BY <1>1, <1>2, <1>5 DEF OneSegment, Aligned, FitsSpan, LoggedTime
  <2> DEFINE s == elst[t][1]
  <2>2. /\ s.media \in Nat /\ s.duration \in Nat /\ s.duration > 0
        /\ \E id \in DOMAIN log[t] : s.media = LoggedTime(t, id)
    BY <2>1, SegmentFields
  <2>3. PICK a \in 1..Len(log[t]) : s.media = LoggedTime(t, a)
    BY <1>3, <2>2
  <2>4. a + 0 = a /\ a \in Nat
    BY <1>3
  <2>5. Copies(dub.track, a, 0)' = <<>>
    <3>1. Copies(dub.track, a, 0)' = [k \in 1..Min({0, MaxCopied}) |-> CopiedAs(dub.track, a + k - 1)']
      BY DEF Copies
    <3>2. Min({0, MaxCopied}) = 0
      <4>1. MaxCopied \in Int /\ 0 <= MaxCopied
        BY ListAssumption
      <4> QED
        BY <4>1, LeastOf
    <3> QED
      BY <3>1, <3>2
  <2>6. LoggedTime(dub.track, a)' = LoggedTime(t, a) /\ LoggedTime(dub.track, a + 0)' = LoggedTime(t, a)
    BY <1>1, <1>2, <2>4 DEF LoggedTime
  <2>7. elst'[dub.track'][1] = s /\ log'[dub.track'] = log[t]
    BY <1>1, <1>2
  <2>8. 0 = LoggedTime(t, a) - s.media
    BY <2>2, <2>3
  <2> HIDE DEF s
  <2>9. SegmentCopy(dub.track, a, 0)'
    BY <1>2, <2>2, <2>3, <2>4, <2>5, <2>6, <2>7, <2>8 DEF SegmentCopy
  <2>10. a \in 1..Len(log[dub.track])'
    BY <2>7
  <2> QED
    BY <2>9, <2>10
<1> QED
  BY <1>1, <1>4, <1>5 DEF Dubbing

\* Only MP4CopyTrack changes what it copies, and no other step follows it.
LEMMA StepDubbing == TableInv /\ Dubbing /\ [Next]_vars => Dubbing'
<1> SUFFICES ASSUME FileInv, ListInv, Dubbing, [Next]_vars
             PROVE  Dubbing'
  BY DEF TableInv
<1>1. CASE dub.phase = "none" /\ dub' = dub
  BY <1>1 DEF Dubbing
<1>2. CASE CopyStep
  BY <1>2, TurnDubbed
<1>3. CASE ListStep
  <2>1. program = "cut" /\ program' = program /\ dub.phase = "none"
    BY <1>3 DEF ListStep
  <2>2. CASE \E applyEdits \in BOOLEAN : CopyTrack(Video, applyEdits)
    BY <2>1, <2>2, Constants, CopyBegins
  <2>3. CASE \E id : (\E s : AddTrackEdit(Video, id, s)) \/ DeleteTrackEdit(Video, id)
    BY <1>1, <2>1, <2>3 DEF AddTrackEdit, DeleteTrackEdit
  <2> QED
    BY <1>3, <2>2, <2>3 DEF ListStep
<1>4. CASE ProgramStep \/ EditStep \/ EditEnds \/ CutStep
  <2>1. dub' = dub /\ (program # "cut" \/ dub.phase = "none")
    BY <1>4 DEF ProgramStep, EditStep, EditEnds, CutStep, listVars, Start, Finish,
         RecordSkip, RecordFrame, RecordEnds, MuxSkip, MuxFrame, MuxEnds
  <2> QED
    BY <1>1, <2>1 DEF Dubbing
<1>5. CASE Death
  <2>1. dub' = dub /\ mode = "writing"
    BY <1>5 DEF Death, Die
  <2> QED
    BY <1>1, <2>1 DEF Dubbing
<1>6. CASE UNCHANGED vars
  <2>1. UNCHANGED <<dub, program, mode, log, elst>>
    BY <1>6 DEF vars, fileVars, listVars
  <2>2. WholeCopy(dub.track)' <=> WholeCopy(dub.track)
    BY <2>1 DEF WholeCopy, Copies, CopiedAs
  <2>3. OneSegment(dub.track)' <=> OneSegment(dub.track)
    BY <2>1 DEF OneSegment, Aligned, FitsSpan, LoggedTime
  <2>4. \A a, n : SegmentCopy(dub.track, a, n)' <=> SegmentCopy(dub.track, a, n)
    BY <2>1 DEF SegmentCopy, Copies, CopiedAs, LoggedTime
  <2> QED
    BY <2>1, <2>2, <2>3, <2>4 DEF Dubbing
<1> QED
  BY <1>2, <1>3, <1>4, <1>5, <1>6 DEF Next

LEMMA InitDubbing == Init => Dubbing
BY DEF Init, ListInit, NoDub, Dubbing

LEMMA FlattensOne ==
  ASSUME NEW f, Len(f) = 1
  PROVE  FlattenSeq(f) = f[1]
<1> DEFINE F(s) == [i \in 1..1 |-> IF i = 1 THEN f[i] ELSE s[i - 1] \o f[i]]
           s    == CHOOSE s : s = F(s)
<1>1. FlattenSeq(f) = s[1]
  BY DEF FlattenSeq
<1>2. s = F(s)
  <2>1. \E r : FlattensUpto(r, f, 1)
    BY FlattensExist
  <2>2. \E r : r = F(r)
    BY <2>1 DEF FlattensUpto
  <2> HIDE DEF F
  <2> QED
    BY <2>2
<1>3. 1 \in 1..1
  OBVIOUS
<1> HIDE DEF s
<1> QED
  BY <1>1, <1>2, <1>3

\* kept is all of a copy of the l samples from a on.
AllCopies(kept, t, a, l) == kept = [k \in 1..l |-> CopiedAs(t, a + k - 1)]

\* What is remembered of a copy of all of it.
Remembered(kept) == SubSeq(kept, 1, Min({MaxCopied, Len(kept)}))

\* The first samples of what is to be copied are a prefix of it.
LEMMA CopyIsPrefix ==
  ASSUME NEW t, NEW a \in Nat, NEW n \in Nat, NEW l \in Nat, n <= l, NEW kept,
         AllCopies(kept, t, a, l),
         dub.samples = Copies(t, a, n), dub.phase = "done" => n = l
  PROVE  /\ IsPrefix(dub.samples, kept)
         /\ dub.phase = "done" => dub.samples = Remembered(kept)
<1> DEFINE e == [k \in Nat |-> CopiedAs(t, a + k - 1)]
           m == Min({n, MaxCopied})
<1>1. m \in Nat /\ m <= l
  <2>1. MaxCopied \in Nat
    BY ListAssumption
  <2>2. m = IF n <= MaxCopied THEN n ELSE MaxCopied
    BY <2>1, LeastOf
  <2> HIDE DEF m
  <2> QED
    BY <2>1, <2>2
<1> HIDE DEF m
<1>2. /\ \A k \in 1..m : e[k] = CopiedAs(t, a + k - 1)
      /\ \A k \in 1..l : e[k] = CopiedAs(t, a + k - 1)
  BY <1>1
<1> HIDE DEF e
<1>3. kept = [k \in 1..l |-> e[k]]
  BY <1>2 DEF AllCopies
<1>4. dub.samples = [k \in 1..m |-> e[k]]
  BY <1>2 DEF Copies, m
<1>5. IsPrefix(dub.samples, kept) /\ dub.samples = SubSeq(kept, 1, m) /\ Len(kept) = l
  BY <1>1, <1>3, <1>4, FirstIsPrefix
<1>6. ASSUME dub.phase = "done"
      PROVE  m = Min({MaxCopied, Len(kept)})
  <2>1. {n, MaxCopied} = {MaxCopied, Len(kept)}
    BY <1>5, <1>6
  <2> QED
    BY <2>1 DEF m
<1> QED
  BY <1>5, <1>6 DEF Remembered

\* What a list of one segment shows: the samples from a, where it starts, to b,
\* the last one that starts before its end.
LEMMA SegmentShows ==
  ASSUME FileInv, ListInv, NEW t \in Tracks, OneSegment(t), NEW a \in 1..Len(log[t]),
         elst[t][1].media = LoggedTime(t, a)
  PROVE  LET end == elst[t][1].media + elst[t][1].duration
         IN \E b \in a..Len(log[t]) :
              /\ LoggedTime(t, b) < end /\ end <= LoggedTime(t, b + 1)
              /\ Shown(t) = [k \in 1..(b - a + 1) |->
                   [id |-> a + k - 1,
                    duration |-> Min({end, LoggedTime(t, a + k)}) - LoggedTime(t, a + k - 1)]]
<1> DEFINE from   == elst[t][1].media
           end     == from + elst[t][1].duration
           last    == Len(log[t])
           time(k) == LoggedTime(t, k)
           early   == {id \in 1..last : time(id) < end}
           ids     == {id \in DOMAIN log[t] : time(id) \in from..(end - 1)}
           b       == Max(early)
<1>1. /\ last \in Nat /\ DOMAIN log[t] = 1..last /\ a \in 1..last
      /\ \A id \in 1..last : log[t][id].duration > 0
  BY TrackOfFile DEF OneSegment, Aligned
<1>2. /\ DOMAIN elst[t] = {1} /\ Len(elst[t]) = 1
      /\ from \in Nat /\ end \in Nat /\ from < end /\ end <= time(last + 1)
  <2>1. /\ DOMAIN elst[t] = {1} /\ Len(elst[t]) = 1
        /\ elst[t][1].media \in Nat /\ elst[t][1].duration \in Nat /\ elst[t][1].duration > 0
        /\ elst[t][1].media + elst[t][1].duration <= LoggedTime(t, Len(log[t]) + 1)
    BY SegmentFields
  <2> QED
    BY <2>1
<1>3. from = time(a)
  OBVIOUS
<1>4. \A i \in 1..(last + 1) : time(i) \in Nat
  <2>1. \A i \in 1..(last + 1) : i \in Nat \ {0} /\ i \in Nat /\ i <= i /\ i <= last + 1
    BY <1>1
  <2> QED
    BY <2>1, LoggedInOrder
<1>5. \A i, j \in 1..(last + 1) : i < j => time(i) < time(j)
  <2> SUFFICES ASSUME NEW i \in 1..(last + 1), NEW j \in 1..(last + 1), i < j
               PROVE  time(i) < time(j)
    OBVIOUS
  <2>1. i \in Nat \ {0} /\ j \in Nat /\ j <= Len(log[t]) + 1
    BY <1>1
  <2> QED
    BY <1>1, <2>1, LoggedStrictly
<1>6. Shown(t) = ShownBy(t, 1)
  <2> DEFINE f == [i \in DOMAIN elst[t] |-> ShownBy(t, i)]
  <2>1. f = [i \in 1..1 |-> ShownBy(t, i)]
    BY <1>2
  <2>2. Len(f) = 1 /\ f[1] = ShownBy(t, 1)
    BY <2>1
  <2>3. Shown(t) = FlattenSeq(f)
    BY DEF Shown
  <2> HIDE DEF f
  <2> QED
    BY <2>2, <2>3, FlattensOne
<1>7. ShownBy(t, 1) =
        [k \in 1..Cardinality(ids) |->
           [id |-> Min(ids) + k - 1,
            duration |-> Min({end, time(Min(ids) + k - 1 + 1)}) - time(Min(ids) + k - 1)]]
  BY DEF ShownBy
<1> HIDE DEF from, end, last, time
<1>8. b \in early /\ \A id \in early : id <= b
  <2>1. a \in early
    BY <1>1, <1>2, <1>3
  <2>2. last \in Int /\ early # {} /\ \A i \in early : i \in Int /\ i <= last
    BY <1>1, <2>1
  <2> HIDE DEF early
  <2> QED
    BY <2>2, MaxOfInts
<1> HIDE DEF b
<1>9. b \in a..last /\ time(b) < end
  <2>1. a \in early
    BY <1>1, <1>2, <1>3
  <2>2. a <= b /\ b \in 1..last /\ time(b) < end
    BY <1>8, <2>1
  <2> QED
    BY <1>1, <2>2
<1>10. end <= time(b + 1)
  <2>1. CASE b = last
    BY <1>2, <2>1
  <2>2. CASE b # last
    <3>1. b + 1 \in 1..last /\ b + 1 \in 1..(last + 1) /\ ~(b + 1 <= b)
      BY <1>1, <1>9, <2>2
    <3>2. ~(time(b + 1) < end)
      BY <1>8, <3>1
    <3>3. time(b + 1) \in Nat
      BY <1>4, <3>1
    <3> QED
      BY <1>2, <3>2, <3>3
  <2> QED
    BY <2>1, <2>2
<1>11. ids = a..b
  <2>1. ASSUME NEW id \in ids
        PROVE  id \in a..b
    <3>1. id \in 1..last /\ time(id) \in from..(end - 1)
      BY <1>1
    <3>2. time(id) < end /\ from <= time(id)
      BY <1>2, <3>1
    <3>3. id <= b
      BY <1>8, <3>1, <3>2
    <3>4. ~(id < a)
      <4>1. id \in 1..(last + 1) /\ a \in 1..(last + 1)
        BY <1>1, <3>1
      <4>2. time(id) \in Nat /\ time(a) \in Nat
        BY <1>4, <4>1
      <4> QED
        BY <1>3, <1>5, <3>2, <4>1, <4>2
    <3> QED
      BY <1>1, <1>9, <3>1, <3>3, <3>4
  <2>2. ASSUME NEW id \in a..b
        PROVE  id \in ids
    <3>1. id \in 1..last /\ id \in 1..(last + 1) /\ a \in 1..(last + 1) /\ b \in 1..(last + 1)
      BY <1>1, <1>9
    <3>2. time(id) \in Nat /\ time(a) \in Nat /\ time(b) \in Nat
      BY <1>4, <3>1
    <3>3. time(a) <= time(id)
      <4>1. id = a \/ a < id
        BY <1>1, <1>9
      <4> QED
        BY <1>5, <3>1, <3>2, <4>1
    <3>4. time(id) <= time(b)
      <4>1. id = b \/ id < b
        BY <1>1, <1>9
      <4> QED
        BY <1>5, <3>1, <3>2, <4>1
    <3>5. time(id) \in from..(end - 1)
      BY <1>2, <1>3, <1>9, <3>2, <3>3, <3>4
    <3> QED
      BY <1>1, <3>1, <3>5
  <2> HIDE DEF ids
  <2> QED
    BY <2>1, <2>2
<1> HIDE DEF ids
<1>12. Cardinality(ids) = b - a + 1
  <2>1. a \in Int /\ b \in Int /\ ~(a > b)
    BY <1>1, <1>9
  <2> QED
    BY <1>11, <2>1, FS_Interval
<1>13. Min(ids) = a
  <2>1. a \in a..b /\ a..b \subseteq Int /\ \A j \in a..b : a <= j
    BY <1>1, <1>9
  <2> QED
    BY <1>11, <2>1, MinIs
<1> DEFINE row(k) == [id |-> a + k - 1, duration |-> Min({end, time(a + k)}) - time(a + k - 1)]
<1>14. Shown(t) = [k \in 1..(b - a + 1) |-> row(k)]
  <2>1. \A k \in 1..(b - a + 1) : a + k - 1 + 1 = a + k
    BY <1>1, <1>9
  <2> QED
    BY <1>6, <1>7, <1>12, <1>13, <2>1
<1> QED
  BY <1>9, <1>10, <1>14 DEF from, end, last, time

\* The copy is the first part of what the segment shows but for its last sample.
LEMMA SegmentInOrder ==
  ASSUME FileInv, ListInv, dub.viaEdits, OneSegment(dub.track),
         NEW a \in 1..Len(log[dub.track]), NEW n \in Nat, SegmentCopy(dub.track, a, n)
  PROVE  LET all  == Shown(dub.track)
             kept == SubSeq(all, 1, Len(all) - 1)
         IN /\ IsPrefix(dub.samples, kept)
            /\ dub.phase = "done" => dub.samples = SubSeq(kept, 1, Min({MaxCopied, Len(kept)}))
<1> DEFINE t       == dub.track
           from   == elst[t][1].media
           end     == from + elst[t][1].duration
           last    == Len(log[t])
           time(k) == LoggedTime(t, k)
           all     == Shown(t)
           row(k)  == [id |-> a + k - 1, duration |-> Min({end, time(a + k)}) - time(a + k - 1)]
<1>1. t \in Tracks /\ last \in Nat
  BY TrackOfFile DEF ListInv, IsDub
<1>2. from \in Nat /\ end \in Nat
  <2>1. elst[t][1].media \in Nat /\ elst[t][1].duration \in Nat
    BY <1>1, SegmentFields
  <2> QED
    BY <2>1, SMTT(30)
<1>3. PICK b \in a..last : /\ time(b) < end /\ end <= time(b + 1)
                           /\ all = [k \in 1..(b - a + 1) |-> row(k)]
  <2>1. elst[t][1].media = LoggedTime(t, a)
    BY DEF SegmentCopy
  <2> QED
    BY <1>1, <2>1, SegmentShows
<1>4. /\ a + n \in 1..last /\ time(a + n) < end
      /\ dub.samples = Copies(t, a, n)
      /\ dub.phase = "done" => end <= time(a + n + 1)
  <2>1. a + n \in 1..last
    BY DEF SegmentCopy
  <2>2. /\ time(a + n) \in Nat /\ time(a + n + 1) \in Nat
    BY <1>1, <2>1, TimeOfNext
  <2>3. /\ time(a + n) - from < elst[t][1].duration
        /\ dub.samples = Copies(t, a, n)
        /\ dub.phase = "done" => time(a + n + 1) - from >= elst[t][1].duration
    BY DEF SegmentCopy
  <2>4. elst[t][1].duration \in Nat
    BY <1>1, SegmentFields
  <2> HIDE DEF time, from
  <2> QED
    BY <1>2, <2>1, <2>2, <2>3, <2>4, SMTT(30)
<1>5. \A i, j \in 1..(last + 1) : i <= j => time(i) \in Nat /\ time(j) \in Nat /\ time(i) <= time(j)
  <2> SUFFICES ASSUME NEW i \in 1..(last + 1), NEW j \in 1..(last + 1), i <= j
               PROVE  time(i) \in Nat /\ time(j) \in Nat /\ time(i) <= time(j)
    OBVIOUS
  <2>1. i \in Nat \ {0} /\ j \in Nat /\ j <= Len(log[t]) + 1
    BY <1>1
  <2> QED
    BY <1>1, <2>1, LoggedInOrder
<1> DEFINE l    == b - a
           kept == SubSeq(all, 1, Len(all) - 1)
<1>6. l \in Nat /\ n <= l /\ (dub.phase = "done" => n = l)
  <2>1. a \in Nat /\ b \in 1..last /\ a <= b /\ b + 1 \in 1..(last + 1) /\ b \in 1..(last + 1)
    BY <1>1, <1>3
  <2>2. a + n \in 1..(last + 1) /\ a + n + 1 \in 1..(last + 1)
    BY <1>1, <1>4
  <2> HIDE DEF time, end, last
  <2>3. ~(b + 1 <= a + n)
    BY <1>2, <1>3, <1>4, <1>5, <2>1, <2>2
  <2>4. dub.phase = "done" => ~(a + n + 1 <= b)
    BY <1>2, <1>3, <1>4, <1>5, <2>1, <2>2
  <2> QED
    BY <1>1, <1>3, <2>1, <2>3, <2>4
<1>7. \A k \in 1..l : row(k) = CopiedAs(t, a + k - 1)
  <2> SUFFICES ASSUME NEW k \in 1..l
               PROVE  row(k) = CopiedAs(t, a + k - 1)
    OBVIOUS
  <2> DEFINE id == a + k - 1
  <2>1. id \in 1..last /\ id + 1 = a + k /\ a + k <= b /\ a + k \in 1..(last + 1) /\ b \in 1..(last + 1)
    BY <1>1, <1>3, <1>6
  <2>2. /\ time(id) \in Nat /\ log[t][id].duration \in Nat /\ time(id + 1) \in Nat
        /\ time(id + 1) = time(id) + log[t][id].duration
    BY <1>1, <2>1, TimeOfNext
  <2> HIDE DEF id, last, end, time
  <2>3. time(a + k) <= time(b) /\ time(b) \in Nat
    BY <1>5, <2>1
  <2>4. Min({end, time(a + k)}) = time(a + k)
    <3>1. Min({end, time(a + k)}) = IF end <= time(a + k) THEN end ELSE time(a + k)
      <4>1. \A x, y \in Int : Min({x, y}) = IF x <= y THEN x ELSE y
        BY LeastOf
      <4>2. end \in Int /\ time(a + k) \in Int
        BY <1>2, <2>1, <2>2
      <4> QED
        BY <4>1, <4>2
    <3>2. ~(end <= time(a + k))
      BY <1>2, <1>3, <2>1, <2>2, <2>3, SMTT(30)
    <3> QED
      BY <3>1, <3>2
  <2>5. Min({end, time(a + k)}) - time(id) = log[t][id].duration
    BY <2>1, <2>2, <2>4, SMTT(30)
  <2> QED
    BY <2>5 DEF CopiedAs, id
<1>8. AllCopies(kept, t, a, l)
  <2> DEFINE e == [k \in Nat |-> row(k)]
             m == l + 1
  <2>1. m \in Nat /\ m - 1 = l /\ l \in 0..m /\ b - a + 1 = m
    BY <1>3, <1>6
  <2>2. /\ \A k \in 1..m : e[k] = row(k)
        /\ \A k \in 1..l : e[k] = CopiedAs(t, a + k - 1)
    <3> HIDE DEF row
    <3>1. \A k \in Nat : e[k] = row(k)
      OBVIOUS
    <3>2. (\A k \in 1..m : k \in Nat) /\ (\A k \in 1..l : k \in Nat)
      BY <1>6
    <3> HIDE DEF e, m, l
    <3>3. \A k \in 1..m : e[k] = row(k)
      BY <3>1, <3>2
    <3>4. \A k \in 1..l : e[k] = CopiedAs(t, a + k - 1)
      BY <1>7, <3>1, <3>2
    <3> QED
      BY <3>3, <3>4
  <2> HIDE DEF e, l, m, row, all
  <2>3. all = [k \in 1..m |-> e[k]]
    BY <1>3, <2>1, <2>2
  <2> DEFINE q == [k \in 1..m |-> e[k]]
  <2>4. Len(q) = m /\ SubSeq(q, 1, l) = [k \in 1..l |-> e[k]]
    BY <2>1, FirstValues
  <2>5. kept = [k \in 1..l |-> e[k]]
    BY <2>1, <2>3, <2>4
  <2> QED
    BY <2>2, <2>5 DEF AllCopies
<1>9. a \in Nat
  BY <1>1
<1> HIDE DEF l, kept, all
<1>10. /\ IsPrefix(dub.samples, kept)
       /\ dub.phase = "done" => dub.samples = Remembered(kept)
  BY <1>4, <1>6, <1>8, <1>9, CopyIsPrefix
<1> QED
  BY <1>10 DEF kept, all, Remembered

LEMMA DubbedInOrder == FileInv /\ ListInv /\ Dubbing => CopiesInOrder
<1> DEFINE t    == dub.track
           all  == IF dub.viaEdits THEN Shown(t)
                   ELSE [id \in DOMAIN log[t] |-> [id |-> id, duration |-> InvalidDuration]]
           kept == IF dub.viaEdits THEN SubSeq(all, 1, Len(all) - 1) ELSE all
<1> SUFFICES ASSUME FileInv, ListInv, Dubbing, dub.phase # "none",
                    dub.viaEdits => Len(elst[t]) = 1 /\ Aligned(t)
             PROVE  /\ IsPrefix(dub.samples, kept)
                    /\ dub.phase = "done" => dub.samples = SubSeq(kept, 1, Min({MaxCopied, Len(kept)}))
  BY DEF CopiesInOrder
<1>1. CASE dub.viaEdits
  <2>1. PICK a \in 1..Len(log[t]), n \in Nat : SegmentCopy(t, a, n)
    BY <1>1 DEF Dubbing, OneSegment
  <2>2. OneSegment(t)
    BY <1>1 DEF OneSegment
  <2> QED
    BY <1>1, <2>1, <2>2, SegmentInOrder
<1>2. CASE ~dub.viaEdits
  <2>1. t \in Tracks
    BY DEF ListInv, IsDub
  <2>2. DOMAIN log[t] = 1..Len(log[t]) /\ Len(log[t]) \in Nat
    BY <2>1, TrackOfFile
  <2> DEFINE l == Len(log[t])
             n == dub.id
  <2>7. PICK a \in Nat : a = 1
    OBVIOUS
  <2>3. n \in 0..l /\ dub.samples = Copies(t, a, n) /\ (dub.phase = "done" => n = l)
    BY <1>2, <2>7 DEF Dubbing, WholeCopy
  <2>4. AllCopies(kept, t, a, l)
    <3>1. \A k \in 1..l : a + k - 1 = k
      BY <2>2, <2>7
    <3>2. kept = [k \in 1..l |-> [id |-> k, duration |-> InvalidDuration]]
      BY <1>2, <2>2
    <3> QED
      BY <1>2, <3>1, <3>2 DEF CopiedAs, AllCopies
  <2>5. n \in Nat /\ l \in Nat /\ n <= l
    BY <2>2, <2>3
  <2>6. /\ IsPrefix(dub.samples, kept)
        /\ dub.phase = "done" => dub.samples = SubSeq(kept, 1, Min({MaxCopied, Len(kept)}))
    <3> HIDE DEF kept, l, n, all
    <3>1. a \in Nat /\ n \in Nat /\ l \in Nat /\ n <= l
      BY <2>5, <2>7
    <3>2. dub.samples = Copies(t, a, n) /\ (dub.phase = "done" => n = l)
      BY <2>3
    <3>3. AllCopies(kept, t, a, l)
      BY <2>4
    <3>4. IsPrefix(dub.samples, kept)
      BY <3>1, <3>2, <3>3, CopyIsPrefix
    <3>5. dub.phase = "done" => dub.samples = Remembered(kept)
      BY <3>1, <3>2, <3>3, CopyIsPrefix
    <3> QED
      BY <3>4, <3>5 DEF Remembered
  <2> QED
    BY <2>6
<1> QED
  BY <1>1, <1>2

\* MP4CopyTrack copies every sample once and in order without the edit list, and
\* with a list of one segment each sample the segment shows but for the last,
\* with its duration, however long the segment is and wherever it starts.
THEOREM CopyKept == Spec => []CopiesInOrder
<1>1. TableInv /\ Dubbing => CopiesInOrder
  BY DubbedInOrder DEF TableInv
<1> QED
  BY <1>1, InitTables, StepTables, InitDubbing, StepDubbing, PTL DEF Spec
=============================================================================

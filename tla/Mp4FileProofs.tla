----------------------------- MODULE Mp4FileProofs -----------------------------
(***************************************************************************)
(* The tables of an MP4 file, for every value of the constants: however    *)
(* samples are written, refused, read back, appended in a later session,   *)
(* moved by MP4Optimize or given another offset, stsz, stts, ctts and stss *)
(* say of each sample what the caller has said, a search that starts at a  *)
(* cached row finds what a search of the whole table finds, stsc and stco  *)
(* lead to the bytes of the sample, and MP4Optimize leaves the chunks in   *)
(* the order of their times.                                               *)
(***************************************************************************)
EXTENDS Recorder, Mp4TablesProofs

(***************************************************************************)
(* The inductive invariant.                                                *)
(***************************************************************************)

\* What was written lasts as long as the samples, if the disk took every chunk
\* and 32 bits hold it, and the movie is not shorter than a track.
Lasting(t) ==
  /\ fails = 0 /\ FitsSpan(t) => track[t].duration = LoggedTime(t, Len(log[t]) + 1)
  /\ movieDuration >= ToMovieDuration(t, track[t].duration) % Span

FileInv ==
  /\ track = [t \in Tracks |-> track[t]]
  /\ log \in [Tracks -> Seq(Sample)]
  /\ fails \in Nat /\ movieDuration \in Nat
  /\ \A t \in Tracks :
       /\ IsTrack(track[t]) /\ Recorded(track[t], log[t], t \in strayed)
       /\ Lasting(t)

LEMMA LoggedDurations ==
  ASSUME NEW samples \in Seq(Sample)
  PROVE  /\ Len(samples) \in Nat /\ DOMAIN samples = 1..Len(samples)
         /\ \A k \in 1..Len(samples) :
              Durations(samples)[k] = samples[k].duration /\ Durations(samples)[k] \in Nat
<1>1. Len(samples) \in Nat /\ DOMAIN samples = 1..Len(samples)
  BY LenProperties
<1>2. \A k \in 1..Len(samples) : samples[k] \in Sample
  BY ElementOfSeq
<1> QED
  BY <1>1, <1>2 DEF Durations, Sample

LEMMA MovieTime ==
  ASSUME NEW t \in Tracks, NEW d \in Nat
  PROVE  ToMovieDuration(t, d) \in Nat /\ ToMovieDuration(t, d) % Span \in Nat
<1>1. MovieScale \in Nat /\ TimeScale[t] \in Nat \ {0}
  BY Mp4Assumption, FileAssumption
<1>2. d * MovieScale \in Nat
  BY <1>1
<1>3. ToMovieDuration(t, d) \in Nat
  BY <1>1, <1>2 DEF ToMovieDuration
<1> QED
  BY <1>3, Mp4Assumption

\* The calls that write no sample and change none.
LEMMA KeptFile ==
  ASSUME FileInv, UNCHANGED <<log, strayed, movieDuration>>,
         fails' \in Nat, fails' = 0 => fails = 0,
         track' = [t \in Tracks |-> track'[t]],
         \A t \in Tracks : Same(track[t], track'[t])
  PROVE  FileInv'
<1> SUFFICES ASSUME NEW t \in Tracks
             PROVE  IsTrack(track'[t]) /\ Recorded(track'[t], log'[t], t \in strayed') /\ Lasting(t)'
  BY DEF FileInv
<1>1. IsTrack(track'[t]) /\ Recorded(track'[t], log[t], t \in strayed)
  <2>1. Same(track[t], track'[t]) /\ Recorded(track[t], log[t], t \in strayed)
    BY DEF FileInv
  <2> QED
    BY <2>1, SameRecorded DEF Same
<1>2. track'[t].duration = track[t].duration
  BY DEF Same
<1>3. Lasting(t)
  BY DEF FileInv
<1>4. Lasting(t)'
  BY <1>2, <1>3 DEF Lasting, FitsSpan, LoggedTime
<1> QED
  BY <1>1, <1>4

\* A track has moved its buffer or its caches, the others are left.
LEMMA OneTrack ==
  ASSUME FileInv, UNCHANGED <<log, strayed, movieDuration>>,
         fails' \in Nat, fails' = 0 => fails = 0,
         NEW t \in Tracks, NEW new, Same(track[t], new),
         track' = [track EXCEPT ![t] = new]
  PROVE  FileInv'
<1>1. track' = [u \in Tracks |-> IF u = t THEN new ELSE track[u]]
  BY DEF FileInv
<1>2. \A u \in Tracks : Same(track[u], track'[u])
  BY <1>1, SameItself DEF FileInv
<1> QED
  BY <1>1, <1>2, KeptFile

\* A track says of other samples what it said of them before.
LEMMA TrackChanged ==
  ASSUME FileInv, NEW t \in Tracks, NEW new, NEW samples \in Seq(Sample), NEW stray \in BOOLEAN,
         track' = [track EXCEPT ![t] = new], log' = [log EXCEPT ![t] = samples],
         fails' \in Nat, fails' = 0 => fails = 0,
         movieDuration' \in Nat, movieDuration' >= movieDuration,
         IsTrack(new), Recorded(new, samples, stray),
         (t \in strayed') <=> stray, \A u \in Tracks \ {t} : u \in strayed' <=> u \in strayed,
         Lasting(t)'
  PROVE  FileInv'
<1>1. track' = [u \in Tracks |-> IF u = t THEN new ELSE track[u]]
  BY DEF FileInv
<1>2. log' = [u \in Tracks |-> IF u = t THEN samples ELSE log[u]]
  BY DEF FileInv
<1>3. log' \in [Tracks -> Seq(Sample)]
  BY <1>2 DEF FileInv
<1>4. ASSUME NEW u \in Tracks
      PROVE  IsTrack(track'[u]) /\ Recorded(track'[u], log'[u], u \in strayed') /\ Lasting(u)'
  <2>1. CASE u = t
    <3>1. track'[u] = new /\ log'[u] = samples
      BY <1>1, <1>2, <2>1
    <3>2. Recorded(new, samples, t \in strayed')
      BY DEF Recorded
    <3> QED
      BY <2>1, <3>1, <3>2
  <2>2. CASE u # t
    <3>1. track'[u] = track[u] /\ log'[u] = log[u] /\ u \in Tracks \ {t}
      BY <1>1, <1>2, <2>2
    <3>2. /\ IsTrack(track[u]) /\ Recorded(track[u], log[u], u \in strayed) /\ Lasting(u)
          /\ movieDuration \in Nat /\ track[u].duration \in Nat
      BY DEF FileInv, IsTrack
    <3>3. Recorded(track[u], log[u], u \in strayed')
      BY <3>1, <3>2 DEF Recorded
    <3>4. ToMovieDuration(u, track[u].duration) % Span \in Nat
      BY <3>2, MovieTime
    <3>5. Lasting(u)'
      <4> DEFINE shown == ToMovieDuration(u, track[u].duration) % Span
      <4>1. movieDuration >= shown
        BY <3>2 DEF Lasting
      <4>2. movieDuration' >= shown
        <5> HIDE DEF shown
        <5> QED
          BY <3>2, <3>4, <4>1 DEF shown
      <4>3. movieDuration' >= ToMovieDuration(u, track'[u].duration) % Span
        BY <3>1, <4>2
      <4>4. (fails = 0 /\ FitsSpan(u) => track[u].duration = LoggedTime(u, Len(log[u]) + 1))'
        BY <3>1, <3>2 DEF Lasting, FitsSpan, LoggedTime
      <4> QED
        BY <4>3, <4>4 DEF Lasting, ToMovieDuration
    <3> QED
      BY <3>1, <3>2, <3>3, <3>5
  <2> QED
    BY <2>1, <2>2
<1> QED
  BY <1>1, <1>3, <1>4 DEF FileInv

LEMMA LoggedMore ==
  ASSUME NEW samples \in Seq(Sample), NEW e \in Sample
  PROVE  LET all == Append(samples, e)
         IN /\ SumOver(Durations(samples), 1, Len(samples)) \in Nat
            /\ SumOver(Durations(all), 1, Len(all)) =
                 SumOver(Durations(samples), 1, Len(samples)) + e.duration
<1> DEFINE all == Append(samples, e)
           count == Len(samples)
           old == Durations(samples)
           new == Durations(all)
<1>1. /\ all \in Seq(Sample) /\ Len(all) = count + 1 /\ count \in Nat
      /\ \A k \in 1..count : all[k] = samples[k]
      /\ all[count + 1] = e /\ e.duration \in Nat
  BY AddedSample
<1>2. \A k \in 1..count : old[k] = samples[k].duration /\ old[k] \in Nat
  BY LoggedDurations
<1>3. \A k \in 1..(count + 1) : new[k] = all[k].duration /\ new[k] \in Nat
  BY <1>1, LoggedDurations
<1> HIDE DEF all, count, old, new
<1>4. \A k \in 1..count : new[k] = old[k]
  BY <1>1, <1>2, <1>3
<1>5. SumOver(old, 1, count) \in Nat
  <2>1. count \in Int /\ \A k \in 1..count : old[k] \in Nat
    BY <1>1, <1>2
  <2> QED
    BY <2>1, SumNat
<1>6. SumOver(new, 1, count) = SumOver(old, 1, count)
  BY <1>1, <1>4, SumEqual
<1>7. SumOver(new, 1, count + 1) = SumOver(new, 1, count + 1 - 1) + new[count + 1]
  BY <1>1, SumStep
<1>8. count + 1 - 1 = count /\ new[count + 1] = e.duration
  BY <1>1, <1>3
<1>9. SumOver(new, 1, Len(all)) = SumOver(old, 1, count) + e.duration
  BY <1>1, <1>6, <1>7, <1>8
<1> QED
  BY <1>5, <1>9 DEF all, count, old, new

LEMMA FinishedSame ==
  ASSUME NEW tr, IsTrack(tr), NEW t, NEW d \in Nat
  PROVE  LET new == Finished(t, tr, d)
         IN /\ IsTrack(new) /\ new.duration = (tr.duration + d) % Span
            /\ \A samples, stray : Recorded(tr, samples, stray) => Recorded(new, samples, stray)
<1> DEFINE written == IF IsChunkFull(t, tr) THEN WriteChunkBuffer(tr, Len(media)) ELSE tr
           new == [written EXCEPT !.next = @ + 1, !.duration = (@ + d) % Span]
<1>1. Same(tr, written) /\ IsTrack(written)
  <2>1. Same(tr, WriteChunkBuffer(tr, Len(media))) /\ Same(tr, tr)
    BY WriteChunkBufferSame, SameItself
  <2> QED
    BY <2>1 DEF Same
<1>2. Finished(t, tr, d) = new
  BY DEF Finished
<1> HIDE DEF written
<1>3. written.next \in Nat \ {0} /\ written.duration \in Nat /\ written.duration = tr.duration
  BY <1>1 DEF IsTrack, Same
<1>4. written.next + 1 \in Nat \ {0} /\ (written.duration + d) % Span \in Nat
  BY <1>3, Mp4Assumption
<1>5. ASSUME NEW k \in Nat \ {0}, NEW l \in Nat
      PROVE  LET n == [written EXCEPT !.next = k, !.duration = l]
             IN /\ IsTrack(n) /\ n.duration = l
                /\ n.size = written.size /\ n.sizes = written.sizes /\ n.count = written.count
                /\ n.stts = written.stts /\ n.hasCtts = written.hasCtts /\ n.ctts = written.ctts
                /\ n.hasStss = written.hasStss /\ n.stss = written.stss
  BY <1>1 DEF IsTrack
<1>6. /\ IsTrack(new) /\ new.duration = (written.duration + d) % Span
      /\ new.size = written.size /\ new.sizes = written.sizes /\ new.count = written.count
      /\ new.stts = written.stts /\ new.hasCtts = written.hasCtts /\ new.ctts = written.ctts
      /\ new.hasStss = written.hasStss /\ new.stss = written.stss
  BY <1>4, <1>5
<1> HIDE DEF new
<1>7. ASSUME NEW samples, NEW stray, Recorded(tr, samples, stray)
      PROVE  Recorded(new, samples, stray)
  <2>1. Recorded(written, samples, stray)
    BY <1>1, <1>7, SameRecorded
  <2> QED
    BY <1>6, <2>1 DEF Recorded, Sized, Timed, Shifted, Synced
<1> QED
  BY <1>2, <1>3, <1>6, <1>7

\* The sample is in the tables, whether the disk takes its chunk or refuses it.
LEMMA SampleWritten ==
  ASSUME FileInv, NEW t \in Tracks, NEW e \in Sample,
         \/ WriteSample(t, e.bytes, e.duration, e.offset, e.sync)
         \/ WriteSampleFails(t, e.bytes, e.duration, e.offset, e.sync)
  PROVE  FileInv'
<1> DEFINE bytes == Bytes(t, track[t].count + 1, e.bytes)
           taken == TakenSample(t, e.bytes, e.duration, e.offset, e.sync)
           done  == Finished(t, taken, e.duration)
           all   == Append(log[t], e)
           stray == t \in strayed \/ track[t].next # track[t].count + 1
<1>1. /\ e = [bytes |-> e.bytes, duration |-> e.duration, offset |-> e.offset, sync |-> e.sync]
      /\ e.bytes \in Nat /\ e.duration \in Nat
  BY DEF Sample
<1>2. /\ IsTrack(track[t]) /\ Recorded(track[t], log[t], t \in strayed) /\ Lasting(t)
      /\ log[t] \in Seq(Sample) /\ fails \in Nat /\ movieDuration \in Nat
      /\ track[t].duration \in Nat
  BY DEF FileInv, IsTrack
<1>3. Len(bytes) = e.bytes
  BY <1>1 DEF Bytes
<1>4. /\ IsTrack(taken) /\ taken.duration = track[t].duration /\ Recorded(taken, all, stray)
  <2> DEFINE new == Taken(track[t], bytes, e.duration, e.offset, e.sync)
  <2> HIDE DEF bytes
  <2>1. ASSUME NEW s \in BOOLEAN, s <=> t \in strayed
        PROVE  IsTrack(new) /\ new.duration = track[t].duration /\ Recorded(new, all, stray)
    <3>1. Recorded(track[t], log[t], s)
      BY <1>2, <2>1 DEF Recorded
    <3>2. /\ IsTrack(new) /\ new.duration = track[t].duration
          /\ Recorded(new, all, s \/ track[t].next # track[t].count + 1)
      BY <1>2, <1>3, <3>1, TakenRecorded
    <3> HIDE DEF new, all
    <3>3. Recorded(new, all, stray)
      BY <2>1, <3>2 DEF Recorded
    <3> QED
      BY <3>2, <3>3
  <2>4. IsTrack(new) /\ new.duration = track[t].duration /\ Recorded(new, all, stray)
    <3> HIDE DEF new, all, stray
    <3>1. CASE t \in strayed
      BY <2>1, <3>1
    <3>2. CASE t \notin strayed
      BY <2>1, <3>2
    <3> QED
      BY <3>1, <3>2
  <2> QED
    BY <2>4 DEF TakenSample, bytes
<1>5. all \in Seq(Sample) /\ stray \in BOOLEAN
  BY <1>2, AppendProperties
<1>6. log' = [log EXCEPT ![t] = all]
  BY <1>1 DEF WriteSample, WriteSampleFails, Logged
<1>7. ((t \in strayed') <=> stray) /\ \A u \in Tracks \ {t} : u \in strayed' <=> u \in strayed
  BY DEF WriteSample, WriteSampleFails, Logged
<1>8. log'[t] = all
  BY <1>6 DEF FileInv
<1> HIDE DEF bytes, taken, stray
<1>9. CASE WriteSampleFails(t, e.bytes, e.duration, e.offset, e.sync)
  <2>1. /\ track' = [track EXCEPT ![t] = taken]
        /\ fails' = fails + 1 /\ movieDuration' = movieDuration
    BY <1>9 DEF WriteSampleFails, taken
  <2>2. fails' \in Nat /\ fails' # 0 /\ movieDuration' \in Nat /\ movieDuration' >= movieDuration
    BY <1>2, <2>1
  <2>3. track'[t] = taken
    BY <2>1 DEF FileInv
  <2>4. Lasting(t)'
    BY <1>2, <1>4, <2>1, <2>2, <2>3 DEF Lasting, ToMovieDuration
  <2> HIDE DEF all
  <2> QED
    BY <1>4, <1>5, <1>6, <1>7, <2>1, <2>2, <2>4, TrackChanged
<1>10. CASE WriteSample(t, e.bytes, e.duration, e.offset, e.sync)
  <2> DEFINE length == (track[t].duration + e.duration) % Span
             shown  == ToMovieDuration(t, length) % Span
  <2>1. /\ track' = [track EXCEPT ![t] = done]
        /\ fails' = fails /\ UpdateDuration(shown)
    BY <1>10 DEF WriteSample, taken
  <2>2. IsTrack(done) /\ done.duration = length /\ Recorded(done, all, stray)
    BY <1>1, <1>4, FinishedSame
  <2>3. length \in Nat /\ shown \in Nat
    <3>1. length \in Nat
      BY <1>1, <1>2, Mp4Assumption, SMTT(30)
    <3> HIDE DEF length
    <3> QED
      BY <3>1, MovieTime
  <2>4. movieDuration' \in Nat /\ movieDuration' >= movieDuration /\ movieDuration' >= shown
    <3> HIDE DEF shown
    <3> QED
      BY <1>2, <2>1, <2>3 DEF UpdateDuration
  <2>5. track'[t] = done
    BY <2>1 DEF FileInv
  <2>6. fails' = 0 /\ FitsSpan(t)' => track'[t].duration = LoggedTime(t, Len(log[t]) + 1)'
    <3> SUFFICES ASSUME fails' = 0, FitsSpan(t)'
                 PROVE  track'[t].duration = LoggedTime(t, Len(log[t]) + 1)'
      OBVIOUS
    <3> DEFINE old == SumOver(Durations(log[t]), 1, Len(log[t]))
               new == SumOver(Durations(all), 1, Len(all))
    <3>1. old \in Nat /\ new = old + e.duration
      BY <1>2, LoggedMore
    <3>2. Len(log[t]) + 1 - 1 = Len(log[t]) /\ Len(all) + 1 - 1 = Len(all)
      BY <1>2, <1>5, LenProperties
    <3>3. LoggedTime(t, Len(log[t]) + 1) = old /\ LoggedTime(t, Len(log[t]) + 1)' = new
      BY <1>8, <3>2 DEF LoggedTime, Durations
    <3>4. new < Span
      BY <3>3 DEF FitsSpan
    <3> HIDE DEF old, new
    <3>5. old < Span /\ new \in Nat
      BY <1>1, <3>1, <3>4, Mp4Assumption
    <3>6. track[t].duration = old
      BY <1>2, <2>1, <3>3, <3>5 DEF Lasting, FitsSpan
    <3>7. length = new % Span
      BY <3>1, <3>6
    <3>8. new % Span = new
      BY <3>4, <3>5, Within
    <3> QED
      BY <2>2, <2>5, <3>3, <3>7, <3>8
  <2>7. Lasting(t)'
    <3>1. movieDuration' >= ToMovieDuration(t, track'[t].duration) % Span
      BY <2>2, <2>4, <2>5
    <3> QED
      BY <2>6, <3>1 DEF Lasting, ToMovieDuration
  <2>8. fails' \in Nat /\ (fails' = 0 => fails = 0)
    BY <1>2, <2>1
  <2> HIDE DEF all, done
  <2> QED
    BY <1>5, <1>6, <1>7, <2>1, <2>2, <2>4, <2>7, <2>8, TrackChanged
<1> QED
  BY <1>9, <1>10

LEMMA OffsetSet ==
  ASSUME FileInv, NEW t \in Tracks, NEW id \in DOMAIN log[t], NEW o \in Nat,
         SetSampleRenderingOffset(t, id, o)
  PROVE  FileInv'
<1> DEFINE tr  == track[t]
           new == IF tr.ctts = <<>> THEN FirstOffset(tr, id, o) ELSE SetOffset(tr, id, o)
           all == Changed(log[t], id, o)
<1>1. /\ IsTrack(tr) /\ Recorded(tr, log[t], t \in strayed) /\ Lasting(t)
      /\ log[t] \in Seq(Sample) /\ fails \in Nat /\ movieDuration \in Nat
      /\ id \in 1..Len(log[t])
  BY LoggedDurations DEF FileInv
<1>2. IsTrack(new) /\ new.duration = tr.duration /\ Recorded(new, all, t \in strayed)
  <2>1. ~NoTable(tr, id, o)
    BY DEF SetSampleRenderingOffset
  <2> HIDE DEF tr
  <2>2. CASE tr.ctts = <<>>
    BY <1>1, <2>1, <2>2, FirstOffsetRecorded
  <2>3. CASE tr.ctts # <<>>
    BY <1>1, <2>3, SetOffsetRecorded
  <2> QED
    BY <2>2, <2>3
<1>3. /\ all \in Seq(Sample) /\ Len(all) = Len(log[t]) /\ Len(log[t]) \in Nat
      /\ \A k \in 1..Len(log[t]) : all[k].duration = log[t][k].duration
  BY <1>1, ChangedSamples
<1>4. /\ track' = [track EXCEPT ![t] = new]
      /\ log' = [log EXCEPT ![t] = all]
      /\ strayed' = strayed /\ fails' = fails /\ movieDuration' = movieDuration
  BY DEF SetSampleRenderingOffset, Changed
<1>5. track'[t] = new /\ log'[t] = all
  BY <1>4 DEF FileInv
<1> HIDE DEF new
<1>6. LoggedTime(t, Len(log[t]) + 1)' = LoggedTime(t, Len(log[t]) + 1)
  <2> DEFINE count == Len(log[t])
             a == Durations(log[t])
             b == Durations(all)
  <2>0. count \in Nat
    BY <1>3
  <2>1. \A k \in 1..count : b[k] = a[k]
    <3> HIDE DEF all
    <3>1. \A k \in 1..count : a[k] = log[t][k].duration
      BY <1>1, LoggedDurations
    <3>2. \A k \in 1..count : b[k] = all[k].duration
      BY <1>3, LoggedDurations
    <3> QED
      BY <1>3, <3>1, <3>2
  <2>2. LoggedTime(t, Len(log[t]) + 1) = SumOver(a, 1, count + 1 - 1)
    BY DEF LoggedTime
  <2>3. LoggedTime(t, Len(log[t]) + 1)' = SumOver(b, 1, count + 1 - 1)
    BY <1>3, <1>5 DEF LoggedTime, Durations
  <2> HIDE DEF a, b, count
  <2>4. SumOver(b, 1, count) = SumOver(a, 1, count) /\ count + 1 - 1 = count
    BY <2>0, <2>1, SumEqual
  <2> QED
    BY <2>2, <2>3, <2>4
<1>7. Lasting(t)'
  BY <1>1, <1>2, <1>4, <1>5, <1>6 DEF Lasting, FitsSpan, ToMovieDuration
<1>8. (t \in strayed) \in BOOLEAN /\ movieDuration' >= movieDuration
  BY <1>1, <1>4
<1> HIDE DEF all, tr
<1>9. ASSUME NEW s \in BOOLEAN, s <=> t \in strayed
      PROVE  FileInv'
  <2>1. Recorded(new, all, s)
    BY <1>2, <1>9 DEF Recorded
  <2> QED
    BY <1>1, <1>2, <1>3, <1>4, <1>7, <1>8, <1>9, <2>1, TrackChanged
<1>10. CASE t \in strayed
  BY <1>9, <1>10
<1>11. CASE t \notin strayed
  BY <1>9, <1>11
<1> QED
  BY <1>10, <1>11

LEMMA FileClosed ==
  ASSUME FileInv, Close
  PROVE  FileInv'
<1>1. UNCHANGED <<log, strayed, movieDuration, fails>> /\ fails \in Nat
  BY DEF Close, FileInv
<1>2. \A t \in Tracks : \E pos : FlushAll[t] = WriteChunkBuffer(track[t], pos)
  BY DEF FlushAll
<1>3. \A t \in Tracks : Same(track[t], FlushAll[t])
  BY <1>2, WriteChunkBufferSame DEF FileInv
<1>4. track' = [t \in Tracks |-> Loaded(FlushAll[t])]
  BY DEF Close
<1>5. ASSUME NEW t \in Tracks
      PROVE  Same(track[t], track'[t])
  <2>1. Same(track[t], FlushAll[t]) /\ IsTrack(FlushAll[t])
    BY <1>3 DEF Same
  <2>2. Same(FlushAll[t], Loaded(FlushAll[t]))
    BY <2>1, LoadedSame
  <2>3. track'[t] = Loaded(FlushAll[t])
    BY <1>4
  <2> QED
    BY <2>1, <2>2, <2>3, SameTransitive
<1>6. track' = [t \in Tracks |-> track'[t]]
  BY <1>4
<1> QED
  BY <1>1, <1>5, <1>6, KeptFile

LEMMA FileReadClosed ==
  ASSUME FileInv, CloseRead
  PROVE  FileInv'
<1>1. UNCHANGED <<log, strayed, movieDuration, fails>> /\ fails \in Nat
  BY DEF CloseRead, FileInv
<1>2. track' = [t \in Tracks |-> Loaded(track[t])]
  BY DEF CloseRead
<1>3. \A t \in Tracks : Same(track[t], track'[t])
  BY <1>2, LoadedSame DEF FileInv
<1>4. track' = [t \in Tracks |-> track'[t]]
  BY <1>2
<1> QED
  BY <1>1, <1>3, <1>4, KeptFile

LEMMA SampleRead ==
  ASSUME FileInv, NEW t \in Tracks, NEW id \in Int, ReadSample(t, id)
  PROVE  FileInv'
<1>1. PICK flushed :
        /\ flushed = track[t] \/ flushed = WriteChunkBuffer(track[t], Len(media))
        /\ \E got \in BOOLEAN :
             track' = [track EXCEPT ![t] = IF got THEN AfterRead(flushed, id) ELSE flushed]
  BY DEF ReadSample
<1>2. Same(track[t], flushed) /\ IsTrack(flushed)
  <2>1. IsTrack(track[t])
    BY DEF FileInv
  <2> QED
    BY <1>1, <2>1, SameItself, WriteChunkBufferSame DEF Same
<1>3. Same(flushed, AfterRead(flushed, id))
  BY <1>2, AfterReadSame
<1>4. Same(track[t], AfterRead(flushed, id))
  BY <1>2, <1>3, SameTransitive
<1>5. UNCHANGED <<log, strayed, movieDuration, fails>> /\ fails \in Nat
  BY DEF ReadSample, FileInv
<1>6. PICK tr \in {flushed, AfterRead(flushed, id)} : track' = [track EXCEPT ![t] = tr]
  BY <1>1
<1> QED
  BY <1>2, <1>4, <1>5, <1>6, OneTrack

LEMMA FileRenamed ==
  ASSUME FileInv, Rename
  PROVE  FileInv'
<1>1. UNCHANGED <<log, strayed, movieDuration, fails>> /\ fails \in Nat
  BY DEF Rename, FileInv
<1>2. track' = [t \in Tracks |-> [track[t] EXCEPT !.chunks = copy.chunks[t]]]
  BY DEF Rename
<1>3. ASSUME NEW tr, IsTrack(tr), NEW chunks
      PROVE  Same(tr, [tr EXCEPT !.chunks = chunks])
  BY <1>3 DEF IsTrack, Same
<1>4. \A t \in Tracks : Same(track[t], track'[t])
  BY <1>2, <1>3 DEF FileInv
<1>5. track' = [t \in Tracks |-> track'[t]]
  BY <1>2
<1> QED
  BY <1>1, <1>4, <1>5, KeptFile

LEMMA NewTrackRecorded ==
  ASSUME NEW t \in Tracks
  PROVE  /\ IsTrack(NewTrack(t)) /\ NewTrack(t).duration = 0
         /\ Recorded(NewTrack(t), <<>>, FALSE) /\ Recorded(NewTrack(t), <<>>, TRUE)
<1> DEFINE tr == NewTrack(t)
<1>1. FixedDuration[t] \in Nat
  BY Mp4Assumption
<1>2. <<>> \in Seq(Nat) /\ <<>> \in Seq(Row) /\ <<>> \in Seq(Nat \ {0}) /\ Len(<<>>) = 0
  BY EmptySeq
<1>3. CacheOK(<<>>, NoCache)
  BY NoCacheOK
<1>4. IsTrack(tr)
  <2>1. ASSUME NEW x \in Nat, NEW c, CacheOK(<<>>, c)
        PROVE  IsTrack([size |-> 0, sizes |-> <<>>, count |-> 0, stts |-> <<>>,
                 hasCtts |-> FALSE, ctts |-> <<>>, hasStss |-> FALSE, stss |-> <<>>,
                 stsc |-> <<>>, chunks |-> <<>>, duration |-> 0,
                 next |-> 1, buffer |-> <<>>, samples |-> 0, elapsed |-> 0,
                 fixedDuration |-> x, sttsCache |-> c, cttsCache |-> c])
    BY <1>2, <2>1 DEF IsTrack
  <2> QED
    BY <1>1, <1>3, <2>1 DEF NewTrack
<1>5. /\ tr.size = 0 /\ tr.sizes = <<>> /\ tr.count = 0 /\ tr.stts = <<>> /\ tr.duration = 0
      /\ tr.hasCtts = FALSE /\ tr.hasStss = FALSE
  BY DEF NewTrack
<1> HIDE DEF tr
<1>6. Sized(tr, <<>>)
  BY <1>2, <1>5 DEF Sized
<1>7. Timed(tr, <<>>)
  BY <1>2, <1>5, RunsNone DEF Timed
<1>8. Shifted(tr, <<>>)
  BY <1>2, <1>5 DEF Shifted
<1>9. Synced(tr, <<>>)
  BY <1>2, <1>5 DEF Synced, SyncOf
<1> QED
  BY <1>4, <1>5, <1>6, <1>7, <1>8, <1>9 DEF Recorded, tr

LEMMA NewFile ==
  /\ FileInit => FileInv
  /\ FileInv /\ Die => FileInv'
<1>1. [t \in Tracks |-> <<>>] \in [Tracks -> Seq(Sample)] /\ Len(<<>>) = 0
  BY EmptySeq
<1>2. ASSUME NEW t \in Tracks
      PROVE  /\ SumOver(Durations(<<>>), 1, 0) = 0 /\ 0 + 1 - 1 = 0
             /\ 0 >= ToMovieDuration(t, 0) % Span
  <2>1. MovieScale \in Nat /\ TimeScale[t] \in Nat \ {0} /\ Span \in Nat \ {0}
    BY Mp4Assumption, FileAssumption
  <2>2. 0 * MovieScale = 0 /\ 0 \div TimeScale[t] = 0 /\ 0 % Span = 0
    BY <2>1
  <2> QED
    BY <2>2, SumEmpty DEF ToMovieDuration
<1>3. FileInit => FileInv
  <2> SUFFICES ASSUME FileInit
               PROVE  FileInv
    OBVIOUS
  <2>1. ASSUME NEW t \in Tracks
        PROVE  IsTrack(track[t]) /\ Recorded(track[t], log[t], t \in strayed) /\ Lasting(t)
    <3>1. track[t] = NewTrack(t) /\ log[t] = <<>> /\ movieDuration = 0
      BY DEF FileInit
    <3>2. track[t].duration = 0 /\ IsTrack(track[t]) /\ Recorded(track[t], <<>>, FALSE)
      BY <3>1, NewTrackRecorded
    <3>3. LoggedTime(t, Len(log[t]) + 1) = 0
      BY <1>1, <1>2, <3>1 DEF LoggedTime
    <3> QED
      BY <1>2, <3>1, <3>2, <3>3 DEF Lasting, Recorded
  <2>2. /\ track = [t \in Tracks |-> track[t]] /\ log \in [Tracks -> Seq(Sample)]
        /\ fails \in Nat /\ movieDuration \in Nat
    BY <1>1 DEF FileInit
  <2> QED
    BY <2>1, <2>2 DEF FileInv
<1>4. FileInv /\ Die => FileInv'
  <2> SUFFICES ASSUME FileInv, Die, NEW t \in Tracks
               PROVE  IsTrack(track'[t]) /\ Recorded(track'[t], log'[t], t \in strayed') /\ Lasting(t)'
    BY <1>1 DEF Die, FileInv
  <2>1. track'[t] = NewTrack(t) /\ log'[t] = <<>> /\ movieDuration' = 0
    BY DEF Die
  <2>2. track'[t].duration = 0 /\ IsTrack(track'[t]) /\ Recorded(track'[t], <<>>, FALSE)
    BY <2>1, NewTrackRecorded
  <2>3. LoggedTime(t, Len(log[t]) + 1)' = 0
    BY <1>1, <1>2, <2>1 DEF LoggedTime, Durations
  <2> QED
    BY <1>2, <2>1, <2>2, <2>3 DEF Lasting, Recorded, ToMovieDuration
<1> QED
  BY <1>3, <1>4

(***************************************************************************)
(* The edit list and the copy.                                             *)
(***************************************************************************)

Entry == [media : 0..(Span - 1), duration : 0..(Span - 1), dwell : BOOLEAN]

IsDub(d) ==
  d \in [phase : {"none", "copying", "done", "failed"}, track : Tracks, viaEdits : BOOLEAN,
         when : 0..(PtsSpan - 1), id : Int, samples : {d.samples}]

ListInv == elst \in [Tracks -> Seq(Entry)] /\ IsDub(dub)

LEMMA ListStart == ListInit => ListInv
<1>1. <<>> \in Seq(Entry) /\ 1 \in Tracks /\ 0 \in 0..(PtsSpan - 1)
  BY EmptySeq, Mp4Assumption, ListAssumption DEF Tracks
<1> QED
  BY <1>1 DEF ListInit, ListInv, IsDub, NoDub

LEMMA EntryAdded ==
  ASSUME ListInv, NEW t \in Tracks, NEW id \in 1..(Len(elst[t]) + 1),
         NEW s \in [media : Nat, duration : Nat, dwell : BOOLEAN], AddTrackEdit(t, id, s)
  PROVE  ListInv'
<1> DEFINE list == elst[t]
           e == [s EXCEPT !.media = @ % Span, !.duration = @ % Span]
<1>1. list \in Seq(Entry) /\ Len(list) \in Nat
  BY LenProperties DEF ListInv
<1>2. s.media % Span \in 0..(Span - 1) /\ s.duration % Span \in 0..(Span - 1)
  BY Mp4Assumption
<1>3. e \in Entry
  BY <1>2 DEF Entry
<1>4. elst' = [elst EXCEPT ![t] = InsertAt(list, id, e)] /\ dub' = dub
  BY DEF AddTrackEdit
<1> HIDE DEF e
<1>5. InsertAt(list, id, e) \in Seq(Entry)
  <2> HIDE DEF list
  <2>1. \A i \in 1..Len(list) : list[i] \in Entry
    BY <1>1, ElementOfSeq
  <2>2. id \in Int /\ id - 1 \in Int /\ Len(list) \in Int /\ id - 1 <= Len(list) /\ 1 <= id
    BY <1>1 DEF list
  <2>3. SubSeq(list, 1, id - 1) \in Seq(Entry)
    BY <1>1, <2>1, <2>2, SubSeqProperties
  <2>4. SubSeq(list, id, Len(list)) \in Seq(Entry)
    BY <1>1, <2>1, <2>2, SubSeqProperties
  <2>5. <<e>> \in Seq(Entry)
    BY <1>3
  <2>6. SubSeq(list, 1, id - 1) \o <<e>> \in Seq(Entry)
    BY <2>3, <2>5, ConcatProperties
  <2> QED
    BY <2>4, <2>6, ConcatProperties DEF InsertAt
<1> HIDE DEF list
<1> QED
  BY <1>4, <1>5 DEF ListInv

LEMMA EntryDeleted ==
  ASSUME ListInv, NEW t \in Tracks, NEW id \in DOMAIN elst[t], DeleteTrackEdit(t, id)
  PROVE  ListInv'
<1> DEFINE list == elst[t]
<1>1. list \in Seq(Entry) /\ Len(list) \in Nat /\ id \in 1..Len(list)
  BY LenProperties DEF ListInv
<1>2. elst' = [elst EXCEPT ![t] = RemoveAt(list, id)] /\ dub' = dub
  BY DEF DeleteTrackEdit
<1> HIDE DEF list
<1>3. RemoveAt(list, id) \in Seq(Entry)
  <2>1. \A i \in 1..Len(list) : list[i] \in Entry
    BY <1>1, ElementOfSeq
  <2>2. id \in Int /\ id - 1 \in Int /\ id + 1 \in Int /\ Len(list) \in Int
        /\ id - 1 <= Len(list) /\ 1 <= id + 1
    BY <1>1
  <2>3. SubSeq(list, 1, id - 1) \in Seq(Entry)
    BY <1>1, <2>1, <2>2, SubSeqProperties
  <2>4. SubSeq(list, id + 1, Len(list)) \in Seq(Entry)
    BY <1>1, <2>1, <2>2, SubSeqProperties
  <2> QED
    BY <2>3, <2>4, ConcatProperties DEF RemoveAt
<1> QED
  BY <1>2, <1>3 DEF ListInv

LEMMA PairBounds ==
  ASSUME NEW a \in Int, NEW b \in Int
  PROVE  Min({a, b}) \in Int /\ Max({a, b}) \in Int
<1>1. \E x \in {a, b} : \A y \in {a, b} : x <= y
  <2>1. a <= b \/ b <= a
    OBVIOUS
  <2> QED
    BY <2>1
<1>2. \E x \in {a, b} : \A y \in {a, b} : x >= y
  <2>1. a <= b \/ b <= a
    OBVIOUS
  <2> QED
    BY <2>1
<1>3. Min({a, b}) \in {a, b}
  BY <1>1 DEF Min
<1>4. Max({a, b}) \in {a, b}
  BY <1>2 DEF Max
<1> QED
  BY <1>3, <1>4

LEMMA SampleAtInt ==
  ASSUME NEW tr, IsTrack(tr), NEW when \in Int
  PROVE  LET s == SampleAt(tr, when) IN s.id \in Int /\ s.start \in Int /\ s.duration \in Int
<1>1. GetSampleIdFromTime(tr, when) \in Int
  BY SeekInt
<1> QED
  BY <1>1, TimesInt DEF SampleAt, NoSample

LEMMA SegmentSampleInt ==
  ASSUME FileInv, ListInv, NEW t \in Tracks, NEW i \in 1..Len(elst[t]), NEW when \in Int
  PROVE  LET s == SampleInSegment(t, i, when) IN s.id \in Int /\ s.duration \in Int
<1> DEFINE list == elst[t]
           total(k) == GetEditTotalDuration(t, k)
           offset == when - total(i - 1)
           place  == (list[i].media + offset) % PtsSpan
           sample == SampleAt(track[t], place)
           late   == place - sample.start
           start  == when - Min({offset, late})
<1>1. list \in Seq(Entry) /\ Len(list) \in Nat /\ PtsSpan \in Nat \ {0}
  BY LenProperties, Mp4Assumption, ListAssumption DEF ListInv
<1>2. \A k \in 1..Len(list) : /\ list[k] \in Entry /\ list[k].media \in Int
                              /\ list[k].duration \in Int
  <2>1. \A k \in 1..Len(list) : list[k] \in Entry
    BY <1>1, ElementOfSeq
  <2> QED
    BY <2>1, Mp4Assumption DEF Entry
<1>3. \A k \in 0..Len(list) : total(k) \in Int
  <2> SUFFICES ASSUME NEW k \in 0..Len(list)
               PROVE  total(k) \in Int
    OBVIOUS
  <2> DEFINE f == [j \in DOMAIN list |-> list[j].duration]
  <2>1. \A j \in 1..k : f[j] \in Int
    BY <1>1, <1>2
  <2>2. total(k) = SumOver(f, 1, k)
    BY DEF GetEditTotalDuration
  <2> HIDE DEF f, total
  <2> QED
    BY <1>1, <2>1, <2>2, SumInt
<1>4. offset \in Int /\ place \in Int
  <2>1. i - 1 \in 0..Len(list) /\ i \in 1..Len(list)
    BY <1>1
  <2>2. total(i - 1) \in Int /\ list[i].media \in Int
    BY <1>2, <1>3, <2>1
  <2> HIDE DEF list, total
  <2> QED
    BY <1>1, <2>2
<1>5. sample.id \in Int /\ sample.start \in Int /\ sample.duration \in Int
  <2> HIDE DEF place
  <2> QED
    BY <1>4, SampleAtInt DEF FileInv
<1> HIDE DEF offset, place, sample
<1>6. start \in Int
  <2>1. late \in Int
    BY <1>4, <1>5
  <2> HIDE DEF late
  <2>2. Min({offset, late}) \in Int
    BY <1>4, <2>1, PairBounds
  <2> QED
    BY <1>4, <2>1, <2>2
<1>7. Shortened(sample, start, offset, late, total(i)) \in Int
  <2>1. late \in Int /\ total(i) \in Int
    BY <1>1, <1>3, <1>4, <1>5
  <2> HIDE DEF late, start, total
  <2> DEFINE over == start + sample.duration - total(i)
  <2>2. over \in Int
    BY <1>5, <1>6, <2>1
  <2> HIDE DEF over
  <2>3. Max({0, over}) \in Int
    <3>1. \A z \in Int : Max({z, over}) \in Int
      BY <2>2, PairBounds
    <3> QED
      BY <3>1
  <2> QED
    BY <1>4, <1>5, <2>1, <2>3 DEF Shortened, over
<1>8. SampleInSegment(t, i, when) =
        IF sample.id = 0 THEN NoSample
        ELSE [id |-> sample.id, start |-> start,
              duration |-> IF list[i].dwell THEN list[i].duration
                           ELSE Shortened(sample, start, offset, late, total(i)) % PtsSpan]
  BY DEF SampleInSegment, sample, place, offset
<1> DEFINE shortened == Shortened(sample, start, offset, late, total(i))
<1>9. shortened % PtsSpan \in Int
  <2>1. shortened \in Int
    BY <1>7
  <2> HIDE DEF shortened
  <2> QED
    BY <1>1, <2>1
<1> HIDE DEF shortened, start, late, total, list
<1> QED
  BY <1>2, <1>5, <1>8, <1>9 DEF NoSample, shortened, list

LEMMA NextSampleInt ==
  ASSUME FileInv, ListInv
  PROVE  NextSample.id \in Int /\ NextSample.duration \in Int
<1> DEFINE t == dub.track
           i == Min(SegmentsAt(t, dub.when))
<1>1. t \in Tracks /\ dub.when \in Int /\ dub.id \in Int /\ PtsSpan \in Nat \ {0}
  BY ListAssumption DEF ListInv, IsDub
<1>2. CASE ~dub.viaEdits
  BY <1>1, <1>2 DEF NextSample, NoSample, InvalidDuration
<1>3. CASE dub.viaEdits /\ elst[t] = <<>>
  BY <1>1, <1>3, SampleAtInt DEF NextSample, GetSampleIdFromEditTime, FileInv
<1>4. CASE dub.viaEdits /\ elst[t] # <<>> /\ SegmentsAt(t, dub.when) = {}
  BY <1>4 DEF NextSample, GetSampleIdFromEditTime, NoSample
<1>5. CASE dub.viaEdits /\ elst[t] # <<>> /\ SegmentsAt(t, dub.when) # {}
  <2>1. elst[t] \in Seq(Entry) /\ DOMAIN elst[t] = 1..Len(elst[t]) /\ Len(elst[t]) \in Nat
    BY <1>1, LenProperties DEF ListInv
  <2>2. SegmentsAt(t, dub.when) \subseteq 1..Len(elst[t])
    BY <2>1 DEF SegmentsAt
  <2>3. \A k \in SegmentsAt(t, dub.when) : k \in Int /\ 1 <= k
    BY <2>1, <2>2
  <2>4. i \in SegmentsAt(t, dub.when)
    BY <1>5, <2>3, MinOfInts
  <2>5. NextSample = SampleInSegment(t, i, dub.when)
    BY <1>5 DEF NextSample, GetSampleIdFromEditTime
  <2> HIDE DEF i, t
  <2> QED
    BY <1>1, <2>2, <2>4, <2>5, SegmentSampleInt
<1> QED
  BY <1>2, <1>3, <1>4, <1>5

\* A turn of MP4CopyTrack moves the caches of the track it copies.
LEMMA TrackCopied ==
  ASSUME FileInv, ListInv, CopyTurn
  PROVE  FileInv' /\ ListInv'
<1> DEFINE s     == NextSample
           t     == dub.track
           asked == Asked(track[t], s)
           read  == AfterRead(asked, s.id)
<1>1. CopyDone(s) \/ CopySample(s) \/ CopyFails(s)
  BY DEF CopyTurn
<1>2. s.id \in Int /\ s.duration \in Int
  BY NextSampleInt
<1>3. t \in Tracks /\ dub.when \in Int /\ PtsSpan \in Nat \ {0}
  BY ListAssumption DEF ListInv, IsDub
<1>4. PICK tr : /\ tr \in {track[t], asked, read}
                /\ track' = [track EXCEPT ![t] = tr]
  BY <1>1 DEF CopyDone, CopySample, CopyFails
<1>5. Same(track[t], tr)
  <2>1. IsTrack(track[t]) /\ Same(track[t], track[t])
    BY <1>3, SameItself DEF FileInv
  <2> HIDE DEF s, t
  <2>2. Same(track[t], asked) /\ IsTrack(asked)
    <3>1. Same(track[t], [track[t] EXCEPT !.sttsCache = CacheAfter(track[t].stts, @, s.id)])
      BY <1>2, <2>1, SearchedSame
    <3> QED
      BY <2>1, <3>1 DEF Asked, Same
  <2> HIDE DEF asked
  <2>3. Same(asked, read)
    BY <1>2, <2>2, AfterReadSame
  <2> HIDE DEF read
  <2>4. Same(track[t], read)
    BY <2>2, <2>3, SameTransitive
  <2> QED
    BY <1>4, <2>1, <2>2, <2>4
<1>6. /\ UNCHANGED <<log, strayed, movieDuration>>
      /\ fails' \in Nat /\ (fails' = 0 => fails = 0)
  <2>1. fails \in Nat /\ (fails' = fails \/ fails' = fails + 1)
    BY <1>1 DEF FileInv, CopyDone, CopySample, CopyFails
  <2> QED
    BY <2>1 DEF CopyTurn
<1>7. FileInv'
  <2> HIDE DEF t
  <2> QED
    BY <1>3, <1>4, <1>5, <1>6, OneTrack
<1>8. ListInv'
  <2> HIDE DEF s
  <2>1. elst' = elst
    BY DEF CopyTurn
  <2>2. TimeAfter(s) \in 0..(PtsSpan - 1)
    BY <1>2, <1>3 DEF TimeAfter
  <2>3. IsDub(dub)
    BY DEF ListInv
  <2>4. IsDub(dub')
    <3>1. CASE CopyDone(s) \/ CopyFails(s)
      <4>1. PICK phase \in {"done", "failed"} : dub' = [dub EXCEPT !.phase = phase]
        BY <3>1 DEF CopyDone, CopyFails
      <4> QED
        BY <2>3, <4>1 DEF IsDub
    <3>2. CASE CopySample(s)
      <4>1. PICK when, samples :
              /\ when = dub.when \/ when = TimeAfter(s)
              /\ dub' = [dub EXCEPT !.id = s.id, !.when = when, !.samples = samples]
        BY <3>2 DEF CopySample
      <4>2. when \in 0..(PtsSpan - 1)
        BY <2>2, <2>3, <4>1 DEF IsDub
      <4> QED
        BY <1>2, <2>3, <4>1, <4>2 DEF IsDub
    <3> QED
      BY <1>1, <3>1, <3>2
  <2> QED
    BY <2>1, <2>4 DEF ListInv
<1> QED
  BY <1>7, <1>8

(***************************************************************************)
(* The steps of the callers.                                               *)
(***************************************************************************)

\* What the durations are computed from.
Clocks ==
  /\ stamp \in [{Video, Audio} -> Nat]
  /\ lastPTS \in [Tracks -> Nat]

TableInv == FileInv /\ ListInv /\ Clocks

LEMMA Constants ==
  /\ Video \in Tracks /\ Audio \in Tracks /\ Video # Audio
  /\ PtsSpan \in Nat \ {0} /\ PtsPerSecond \in Nat \ {0}
  /\ TimeScale \in [Tracks -> Nat]
  /\ Frames \subseteq [size : Nat, idr : BOOLEAN, gap : Int]
BY Mp4Assumption, ListAssumption, RecorderAssumption DEF Tracks, Video, Audio

LEMMA TicksNat ==
  ASSUME NEW t \in Tracks, NEW from \in Int, NEW to \in Int
  PROVE  Ticks(t, from, to) \in Nat
<1> DEFINE gap == (to - from) % PtsSpan
<1>1. gap \in Nat /\ TimeScale[t] \in Nat
  <2>1. to - from \in Int /\ PtsSpan \in Nat \ {0}
    BY Constants
  <2> QED
    BY <2>1, Constants
<1>2. gap * TimeScale[t] \in Nat
  <2> HIDE DEF gap
  <2> QED
    BY <1>1
<1> DEFINE ticks == gap * TimeScale[t]
<1>3. Ticks(t, from, to) = ticks \div PtsPerSecond
  BY DEF Ticks
<1> HIDE DEF ticks
<1> QED
  BY <1>2, <1>3, Constants, Quotient DEF ticks

\* A frame, and a sample of any other caller, is a sample of the log.
LEMMA FrameIsSample ==
  ASSUME Clocks, NEW t \in {Video, Audio}, NEW f \in Frames, Stamp(t, f) \in Nat,
         FrameWritten(t, f) \/ FrameRefused(t, f)
  PROVE  \E e \in Sample : \/ WriteSample(t, e.bytes, e.duration, e.offset, e.sync)
                           \/ WriteSampleFails(t, e.bytes, e.duration, e.offset, e.sync)
<1> DEFINE e == [bytes |-> f.size, duration |-> FrameTicks(t, f), offset |-> 0, sync |-> Sync(t, f)]
<1>1. Previous(t, Stamp(t, f)) \in Int
  BY Constants DEF Previous, Clocks
<1>2. FrameTicks(t, f) \in Nat
  BY <1>1, TicksNat, Constants DEF FrameTicks
<1>3. Sync(t, f) \in BOOLEAN
  BY Constants DEF Sync
<1>4. e \in Sample
  BY <1>2, <1>3, Constants DEF Sample
<1>5. \/ WriteSample(t, e.bytes, e.duration, e.offset, e.sync)
      \/ WriteSampleFails(t, e.bytes, e.duration, e.offset, e.sync)
  BY DEF FrameWritten, FrameRefused
<1> HIDE DEF e
<1> QED
  BY <1>4, <1>5

LEMMA EditIsSample ==
  ASSUME FileInv, NEW t \in Tracks, EditWrite(t)
  PROVE  \E e \in Sample : \/ WriteSample(t, e.bytes, e.duration, e.offset, e.sync)
                           \/ WriteSampleFails(t, e.bytes, e.duration, e.offset, e.sync)
<1>1. PICK k \in Kinds[t] :
        /\ Length(t, k) # NotFixed
        /\ \/ WriteSample(t, k.bytes, Length(t, k), k.offset, k.sync)
           \/ WriteSampleFails(t, k.bytes, Length(t, k), k.offset, k.sync)
  BY DEF EditWrite
<1>2. k \in [bytes : Nat, duration : Nat \cup {-1}, offset : Nat, sync : BOOLEAN]
  BY RecorderAssumption
<1>3. Length(t, k) \in Nat
  <2>1. track[t].stts \in Seq(Row) /\ track[t].fixedDuration \in Nat
    BY DEF FileInv, IsTrack
  <2>2. Len(track[t].stts) = 1 => Head(track[t].stts).v \in Nat
    <3> SUFFICES ASSUME Len(track[t].stts) = 1
                 PROVE  Head(track[t].stts).v \in Nat
      OBVIOUS
    <3>1. Head(track[t].stts) \in Row
      BY <2>1, HeadTailProperties
    <3> QED
      BY <3>1, Mp4Assumption DEF Row
  <2> QED
    BY <1>1, <1>2, <2>1, <2>2 DEF Length, GetFixedSampleDuration, Default, NotFixed
<1> DEFINE e == [bytes |-> k.bytes, duration |-> Length(t, k), offset |-> k.offset, sync |-> k.sync]
<1>4. e \in Sample
  BY <1>2, <1>3 DEF Sample
<1>5. \/ WriteSample(t, e.bytes, e.duration, e.offset, e.sync)
      \/ WriteSampleFails(t, e.bytes, e.duration, e.offset, e.sync)
  BY <1>1
<1> HIDE DEF e
<1> QED
  BY <1>4, <1>5

\* The calls that touch neither the tables nor the log.
LEMMA UntouchedFile ==
  ASSUME FileInv, UNCHANGED <<track, log, strayed, fails, movieDuration>>
  PROVE  FileInv'
<1>1. \A t \in Tracks : Lasting(t) => Lasting(t)'
  BY DEF Lasting, FitsSpan, LoggedTime, ToMovieDuration
<1> QED
  BY <1>1 DEF FileInv

LEMMA FileStep ==
  ASSUME FileInv,
         \/ Create \/ Modify \/ Read \/ Optimize
         \/ Close \/ CloseRead \/ Rename \/ OptimizeFails \/ Die
         \/ \E t \in Tracks :
              \/ EditWrite(t) \/ RewriteChunk(t)
              \/ \E id \in DOMAIN log[t] :
                   ReadSample(t, id) \/ \E o \in Offsets[t] : SetSampleRenderingOffset(t, id, o)
  PROVE  FileInv'
<1>1. CASE Create \/ Modify \/ Read \/ Optimize \/ OptimizeFails
  BY <1>1, UntouchedFile DEF Create, Modify, Read, Optimize, OptimizeFails
<1>2. CASE Close \/ CloseRead \/ Rename \/ Die
  BY <1>2, FileClosed, FileReadClosed, FileRenamed, NewFile
<1>3. ASSUME NEW t \in Tracks, EditWrite(t)
      PROVE  FileInv'
  BY <1>3, EditIsSample, SampleWritten
<1>4. ASSUME NEW t \in Tracks, RewriteChunk(t)
      PROVE  FileInv'
  BY <1>4, UntouchedFile DEF RewriteChunk
<1>5. ASSUME NEW t \in Tracks, NEW id \in DOMAIN log[t], ReadSample(t, id)
      PROVE  FileInv'
  <2>1. id \in Int
    BY LoggedDurations DEF FileInv
  <2> QED
    BY <1>5, <2>1, SampleRead
<1>6. ASSUME NEW t \in Tracks, NEW id \in DOMAIN log[t], NEW o \in Offsets[t],
             SetSampleRenderingOffset(t, id, o)
      PROVE  FileInv'
  <2>1. o \in Nat
    BY RecorderAssumption
  <2> QED
    BY <1>6, <2>1, OffsetSet
<1> QED
  BY <1>1, <1>2, <1>3, <1>4, <1>5, <1>6

LEMMA InitTables == Init => TableInv
<1> SUFFICES ASSUME Init
             PROVE  TableInv
  OBVIOUS
<1>1. FileInv /\ ListInv
  BY NewFile, ListStart DEF Init
<1>2. stamp \in [{Video, Audio} -> Nat]
  <2>1. CASE stamp = <<0, 0>>
    <3>1. stamp \in [1..2 -> Nat]
      BY <2>1
    <3>2. 1..2 = {Video, Audio}
      BY DEF Video, Audio
    <3> QED
      BY <3>1, <3>2
  <2>2. CASE stamp \in FirstStamps
    BY <2>2, RecorderAssumption
  <2> QED
    BY <2>1, <2>2 DEF Init
<1>3. lastPTS \in [Tracks -> Nat]
  BY DEF Init
<1> QED
  BY <1>1, <1>2, <1>3 DEF TableInv, Clocks

LEMMA FrameStep ==
  ASSUME FileInv, Clocks, NEW t \in {Video, Audio}, RecordFrame(t) \/ MuxFrame(t)
  PROVE  FileInv' /\ Clocks'
<1>1. PICK f \in Frames :
        /\ NextFrame(t, f)
        /\ FrameWritten(t, f) \/ FrameRefused(t, f)
        /\ \/ lastPTS' = [lastPTS EXCEPT ![t] = Stamp(t, f)]
           \/ lastPTS' = [lastPTS EXCEPT ![t] = Previous(t, Stamp(t, f))]
  BY DEF RecordFrame, MuxFrame
<1>2. Stamp(t, f) \in Nat
  BY <1>1, RecorderAssumption DEF NextFrame
<1>3. FileInv'
  BY <1>1, <1>2, FrameIsSample, SampleWritten, Constants
<1>4. Previous(t, Stamp(t, f)) \in Nat
  BY <1>2, Constants DEF Previous, Clocks
<1>5. Clocks'
  BY <1>1, <1>2, <1>4, Constants DEF NextFrame, Clocks
<1> QED
  BY <1>3, <1>5

LEMMA ListChanged ==
  ASSUME ListInv, ListStep
  PROVE  ListInv'
<1>1. Video \in Tracks
  BY Constants
<1>2. ASSUME NEW id \in 1..(Len(elst[Video]) + 1), NEW s \in Segments, AddTrackEdit(Video, id, s)
      PROVE  ListInv'
  BY <1>1, <1>2, EntryAdded, RecorderAssumption
<1>3. ASSUME NEW id \in DOMAIN elst[Video], DeleteTrackEdit(Video, id)
      PROVE  ListInv'
  BY <1>1, <1>3, EntryDeleted
<1>4. ASSUME NEW applyEdits \in BOOLEAN, CopyTrack(Video, applyEdits)
      PROVE  ListInv'
  <2>1. /\ elst' = elst
        /\ dub' = [NoDub EXCEPT !.phase = "copying", !.track = Video,
                                !.viaEdits = applyEdits /\ elst[Video] # <<>>]
    BY <1>4 DEF CopyTrack
  <2>2. 0 \in 0..(PtsSpan - 1)
    BY Constants
  <2>3. ASSUME NEW via \in BOOLEAN, dub' = [NoDub EXCEPT !.phase = "copying", !.track = Video, !.viaEdits = via]
        PROVE  IsDub(dub')
    <3>1. dub' = [phase |-> "copying", track |-> Video, viaEdits |-> via, when |-> 0, id |-> 0,
                  samples |-> <<>>]
      BY <2>3 DEF NoDub
    <3> QED
      BY <1>1, <2>2, <3>1 DEF IsDub
  <2>4. (applyEdits /\ elst[Video] # <<>>) \in BOOLEAN
    OBVIOUS
  <2>5. IsDub(dub')
    BY <2>1, <2>3, <2>4
  <2> QED
    BY <2>1, <2>5 DEF ListInv
<1> QED
  BY <1>2, <1>3, <1>4 DEF ListStep

\* elst, dub and the clocks stay.
LEMMA KeptList ==
  ASSUME ListInv, UNCHANGED listVars
  PROVE  ListInv'
BY DEF ListInv, listVars

LEMMA KeptClocks ==
  ASSUME Clocks, UNCHANGED <<stamp, lastPTS>>
  PROVE  Clocks'
BY DEF Clocks

\* The passed over frame and the end of a file.
LEMMA InputStep ==
  ASSUME FileInv, Clocks, NEW t \in {Video, Audio},
         RecordSkip(t) \/ RecordEnds(t) \/ MuxSkip(t) \/ MuxEnds(t)
  PROVE  FileInv' /\ Clocks'
<1>1. UNCHANGED fileVars /\ UNCHANGED stampVars
  BY DEF RecordSkip, RecordEnds, MuxSkip, MuxEnds
<1>2. FileInv'
  BY <1>1, UntouchedFile DEF fileVars
<1>3. \/ stamp' = stamp
      \/ \E f \in Frames : stamp' = [stamp EXCEPT ![t] = Stamp(t, f)] /\ Stamp(t, f) \in Nat
  BY RecorderAssumption DEF RecordSkip, RecordEnds, MuxSkip, MuxEnds, FileEnds, NextFrame
<1>4. Clocks'
  BY <1>1, <1>3 DEF Clocks, stampVars
<1> QED
  BY <1>2, <1>4

LEMMA DeathStep ==
  ASSUME TableInv, Death
  PROVE  TableInv'
<1>1. FileInv'
  BY NewFile DEF Death, TableInv
<1>2. ListInv'
  <2>1. elst' = [t \in Tracks |-> <<>>] /\ dub' = dub
    BY DEF Death
  <2>2. <<>> \in Seq(Entry)
    OBVIOUS
  <2> QED
    BY <2>1, <2>2 DEF ListInv, TableInv
<1>3. Clocks'
  BY DEF Death, Clocks, TableInv
<1> QED
  BY <1>1, <1>2, <1>3 DEF TableInv

LEMMA StepTables == TableInv /\ [Next]_vars => TableInv'
<1> SUFFICES ASSUME FileInv, ListInv, Clocks, [Next]_vars
             PROVE  FileInv' /\ ListInv' /\ Clocks'
  BY DEF TableInv
<1>1. CASE ProgramStep
  <2>1. ListInv'
    BY <1>1, KeptList DEF ProgramStep
  <2>2. CASE Start \/ Finish
    <3>1. FileInv'
      BY <2>2, FileStep DEF Start, Finish
    <3>2. UNCHANGED <<stamp, lastPTS>>
      BY <2>2 DEF Start, Finish, stampVars, inputVars
    <3> QED
      BY <2>1, <3>1, <3>2, KeptClocks
  <2>3. ASSUME NEW t \in {Video, Audio}, RecordFrame(t) \/ MuxFrame(t)
        PROVE  FileInv' /\ Clocks'
    BY <2>3, FrameStep
  <2>4. ASSUME NEW t \in {Video, Audio},
               RecordSkip(t) \/ RecordEnds(t) \/ MuxSkip(t) \/ MuxEnds(t)
        PROVE  FileInv' /\ Clocks'
    BY <2>4, InputStep
  <2> QED
    BY <1>1, <2>1, <2>2, <2>3, <2>4 DEF ProgramStep
<1>2. CASE EditStep \/ EditEnds \/ CutStep
  <2>1. FileInv'
    <3>1. CASE EditStep
      BY <3>1, FileStep DEF EditStep
    <3>2. CASE EditEnds
      BY <3>2, FileStep DEF EditEnds
    <3>3. CASE CutStep
      <4>1. Video \in Tracks
        BY Constants
      <4> QED
        BY <3>3, <4>1, FileStep DEF CutStep
    <3> QED
      BY <1>2, <3>1, <3>2, <3>3
  <2>2. UNCHANGED listVars /\ UNCHANGED <<stamp, lastPTS>>
    BY <1>2 DEF EditStep, EditEnds, CutStep, listVars, stampVars, inputVars
  <2> QED
    BY <2>1, <2>2, KeptList, KeptClocks
<1>3. CASE ListStep
  <2>1. UNCHANGED fileVars
    BY <1>3 DEF ListStep, AddTrackEdit, DeleteTrackEdit, CopyTrack
  <2>2. FileInv'
    BY <2>1, UntouchedFile DEF fileVars
  <2>3. UNCHANGED <<stamp, lastPTS>>
    BY <1>3 DEF ListStep, stampVars, inputVars
  <2> QED
    BY <1>3, <2>2, <2>3, ListChanged, KeptClocks
<1>4. CASE CopyStep
  <2>1. UNCHANGED <<stamp, lastPTS>>
    BY <1>4 DEF CopyStep, stampVars, inputVars
  <2> QED
    BY <1>4, <2>1, TrackCopied, KeptClocks DEF CopyStep
<1>5. CASE Death
  BY <1>5, DeathStep DEF TableInv
<1>6. CASE UNCHANGED vars
  <2>1. UNCHANGED fileVars /\ UNCHANGED listVars /\ UNCHANGED <<stamp, lastPTS>>
    BY <1>6 DEF vars
  <2> QED
    BY <2>1, UntouchedFile, KeptList, KeptClocks DEF fileVars
<1> QED
  BY <1>1, <1>2, <1>3, <1>4, <1>5, <1>6 DEF Next

(***************************************************************************)
(* What the tables answer.                                                 *)
(***************************************************************************)

\* What a file that keeps FileInv says of a track.
LEMMA TrackOfFile ==
  ASSUME FileInv, NEW t \in Tracks
  PROVE  /\ IsTrack(track[t]) /\ log[t] \in Seq(Sample) /\ DOMAIN log[t] = 1..Len(log[t])
         /\ Len(log[t]) \in Nat
         /\ Recorded(track[t], log[t], t \in strayed)
         /\ t \notin strayed => Recorded(track[t], log[t], FALSE)
BY LenProperties DEF FileInv, Recorded

LEMMA FileSized == FileInv => SizesRecorded
<1> SUFFICES ASSUME FileInv, NEW t \in Tracks
             PROVE  /\ track[t].count = Len(log[t])
                    /\ \A id \in DOMAIN log[t] : GetSampleSize(track[t], id) = log[t][id].bytes
  BY DEF SizesRecorded
<1>1. Sized(track[t], log[t]) /\ DOMAIN log[t] = 1..Len(log[t])
  BY TrackOfFile DEF Recorded
<1> QED
  BY <1>1 DEF Sized, GetSampleSize

LEMMA SearchOfFile ==
  ASSUME FileInv, NEW t \in Tracks, FitsSpan(t)
  PROVE  /\ \A id \in 1..Len(log[t]) :
              GetSampleTimes(track[t], id) = [start |-> LoggedTime(t, id), duration |-> log[t][id].duration]
         /\ \A when \in Nat : when < LoggedTime(t, Len(log[t]) + 1) =>
              LET id == GetSampleIdFromTime(track[t], when)
              IN /\ id \in 1..Len(log[t])
                 /\ LoggedTime(t, id) = when
                      \/ (LoggedTime(t, id) < when /\ when < LoggedTime(t, id + 1))
<1> DEFINE samples   == log[t]
           durations == Durations(samples)
<1>1. /\ samples \in Seq(Sample) /\ Len(samples) \in Nat
      /\ Recorded(track[t], samples, t \in strayed)
  BY TrackOfFile
<1>2. \A k \in 1..Len(samples) : durations[k] = samples[k].duration
  BY <1>1, LoggedDurations
<1>3. (Len(samples) + 1) - 1 = Len(samples) /\ \A id \in 1..Len(samples) : (id + 1) - 1 = id
  BY <1>1
<1>4. /\ LoggedTime(t, Len(samples) + 1) = SumOver(durations, 1, Len(samples))
      /\ \A id \in 1..Len(samples) : /\ LoggedTime(t, id) = SumOver(durations, 1, id - 1)
                                     /\ LoggedTime(t, id + 1) = SumOver(durations, 1, id)
  BY <1>3 DEF LoggedTime
<1>5. SumOver(durations, 1, Len(samples)) < Span
  BY <1>4 DEF FitsSpan
<1>6. /\ \A id \in 1..Len(samples) :
           GetSampleTimes(track[t], id) = [start |-> SumOver(durations, 1, id - 1), duration |-> durations[id]]
      /\ \A when \in Nat : when < SumOver(durations, 1, Len(samples)) =>
           LET id == GetSampleIdFromTime(track[t], when)
           IN /\ id \in 1..Len(samples)
              /\ \/ SumOver(durations, 1, id - 1) = when
                 \/ SumOver(durations, 1, id - 1) < when /\ when < SumOver(durations, 1, id)
  <2> HIDE DEF samples, durations
  <2> QED
    BY <1>1, <1>2, <1>5, TimesAnswered
<1> HIDE DEF durations
<1>7. ASSUME NEW id \in 1..Len(log[t])
      PROVE  GetSampleTimes(track[t], id) = [start |-> LoggedTime(t, id), duration |-> log[t][id].duration]
  BY <1>2, <1>4, <1>6
<1>8. ASSUME NEW when \in Nat, when < LoggedTime(t, Len(log[t]) + 1)
      PROVE  LET id == GetSampleIdFromTime(track[t], when)
             IN /\ id \in 1..Len(log[t])
                /\ LoggedTime(t, id) = when
                     \/ (LoggedTime(t, id) < when /\ when < LoggedTime(t, id + 1))
  BY <1>4, <1>6, <1>8
<1> QED
  BY <1>7, <1>8

LEMMA FileTimed == FileInv => TimesRecorded
<1> SUFFICES ASSUME FileInv, NEW t \in Tracks, FitsSpan(t)
             PROVE  /\ \A id \in DOMAIN log[t] :
                         GetSampleTimes(track[t], id) =
                           [start |-> LoggedTime(t, id), duration |-> log[t][id].duration]
                    /\ fails = 0 =>
                         /\ track[t].duration = LoggedTime(t, Len(log[t]) + 1)
                         /\ LET shown == ToMovieDuration(t, track[t].duration)
                            IN shown < Span => movieDuration >= shown
  BY DEF TimesRecorded
<1>1. DOMAIN log[t] = 1..Len(log[t]) /\ track[t].duration \in Nat
  BY TrackOfFile DEF IsTrack
<1>2. Lasting(t)
  BY DEF FileInv
<1>3. ToMovieDuration(t, track[t].duration) \in Nat
  BY <1>1, MovieTime
<1>4. ToMovieDuration(t, track[t].duration) < Span =>
        ToMovieDuration(t, track[t].duration) % Span = ToMovieDuration(t, track[t].duration)
  BY <1>3, Within
<1> QED
  BY <1>1, <1>2, <1>4, SearchOfFile DEF Lasting

LEMMA FileShifted == FileInv => OffsetsRecorded
<1> SUFFICES ASSUME FileInv, NEW t \in Tracks \ strayed, NEW id \in DOMAIN log[t]
             PROVE  GetSampleRenderingOffset(track[t], id) = log[t][id].offset % Span
  BY DEF OffsetsRecorded
<1> QED
  BY TrackOfFile, OffsetAnswered

LEMMA FileSynced == FileInv => SyncAnswered
<1> SUFFICES ASSUME FileInv, NEW t \in Tracks \ strayed, NEW id \in DOMAIN log[t]
             PROVE  LET sync == {i \in DOMAIN log[t] : log[t][i].sync}
                    IN /\ IsSyncSample(track[t], id) =
                            IF id \in sync THEN "yes" ELSE IF \E s \in sync : s < id THEN "no" ELSE "error"
                       /\ GetNextSyncSample(track[t], id) =
                            IF \E s \in sync : s >= id THEN Min({s \in sync : s >= id}) ELSE 0
  BY DEF SyncAnswered
<1>1. {i \in DOMAIN log[t] : log[t][i].sync} = SyncOf(log[t])
  BY TrackOfFile DEF SyncOf
<1>2. LET sync == SyncOf(log[t])
      IN /\ IsSyncSample(track[t], id) =
              IF id \in sync THEN "yes" ELSE IF \E s \in sync : s < id THEN "no" ELSE "error"
         /\ GetNextSyncSample(track[t], id) =
              IF \E s \in sync : s >= id THEN Min({s \in sync : s >= id}) ELSE 0
  BY TrackOfFile, SyncOfTable
<1> QED
  BY <1>1, <1>2

LEMMA FileCached == FileInv => CachesAgree
<1> SUFFICES ASSUME FileInv, NEW t \in Tracks, NEW id \in DOMAIN log[t]
             PROVE  LET stts == track[t].sttsCache
                        ctts == track[t].cttsCache
                    IN /\ RowFrom(track[t].stts, Cached(stts, id), id) = RowFrom(track[t].stts, FirstRow, id)
                       /\ RowFrom(track[t].ctts, Cached(ctts, id), id) = RowFrom(track[t].ctts, FirstRow, id)
  BY DEF CachesAgree
<1>1. IsTrack(track[t])
  BY TrackOfFile
<1>2. id \in Int
  <2>1. DOMAIN log[t] = 1..Len(log[t]) /\ Len(log[t]) \in Nat
    BY TrackOfFile
  <2> QED
    BY <2>1
<1> QED
  BY <1>1, <1>2, CachesOfTrack

LEMMA FileSought == FileInv => SeekLands
<1> SUFFICES ASSUME FileInv, NEW t \in Tracks, FitsSpan(t),
                    NEW when \in 0..(LoggedTime(t, Len(log[t]) + 1) - 1)
             PROVE  LET id == GetSampleIdFromTime(track[t], when)
                    IN /\ id \in DOMAIN log[t]
                       /\ LoggedTime(t, id) = when
                            \/ (LoggedTime(t, id) < when /\ when < LoggedTime(t, id + 1))
  BY DEF SeekLands
<1>1. LoggedTime(t, Len(log[t]) + 1) \in Int
  <2>1. log[t] \in Seq(Sample)
    BY TrackOfFile
  <2>2. Len(log[t]) \in Nat /\ \A k \in 1..Len(log[t]) : Durations(log[t])[k] \in Nat
    BY <2>1, LoggedDurations
  <2>3. (Len(log[t]) + 1) - 1 = Len(log[t])
    BY <2>2
  <2>4. SumOver(Durations(log[t]), 1, Len(log[t])) \in Nat
    BY <2>2, SumNat
  <2> QED
    BY <2>3, <2>4 DEF LoggedTime
<1>2. when \in Nat /\ when < LoggedTime(t, Len(log[t]) + 1)
  BY <1>1
<1>3. DOMAIN log[t] = 1..Len(log[t])
  BY TrackOfFile
<1> QED
  BY <1>2, <1>3, SearchOfFile

(***************************************************************************)
(* The media data and the chunks in them: the inductive invariant.         *)
(***************************************************************************)

\* The rows of stsc know the first samples of their chunks, except while the
\* file is written and a number may be wrong.
FirstsRight(t) ==
  /\ Len(log[t]) < Span
  /\ mode = "writing" => Whole(track[t], log[t]) /\ t \notin strayed \cup readBack
  => FirstsKnown(track[t].stsc)

TrackMedia(t) ==
  /\ Chunked(track[t], t, log[t], media)
  /\ FirstsRight(t)
  /\ mode # "writing" => track[t].samples = 0

\* The time of a chunk, by what the caller has written.
ChunkStart(t, c) ==
  MP4ConvertTime(LoggedTime(t, FirstOf(track[t].stsc, c)), TimeScale[t], MovieScale)

\* The first m[t] chunks of each track lie in the order of their times.
Ordered(chunks, m) ==
  \A t, u \in Tracks : FitsSpan(t) /\ FitsSpan(u) =>
    \A c \in 1..m[t], d \in 1..m[u] :
      chunks[t][c] < chunks[u][d] => ChunkStart(t, c) <= ChunkStart(u, d)

InOrder == Ordered([t \in Tracks |-> track[t].chunks], [t \in Tracks |-> Len(track[t].chunks)])

\* The chunks that MP4Optimize has copied lie in the order of their times, and
\* are not later than the others.
CopyInOrder ==
  /\ Ordered(copy.chunks, [t \in Tracks |-> copy.next[t] - 1])
  /\ \A t, u \in Tracks : FitsSpan(t) /\ FitsSpan(u) =>
       \A c \in 1..(copy.next[t] - 1), d \in copy.next[u]..Len(track[u].chunks) :
         ChunkStart(t, c) <= ChunkStart(u, d)

\* The copied chunks have the bytes of their samples.
Copied(t) ==
  /\ copy.next[t] <= Len(track[t].chunks) + 1
  /\ Len(copy.chunks[t]) = Len(track[t].chunks)
  /\ \A c \in 1..(copy.next[t] - 1) : copy.chunks[t][c] <= Len(copy.media)
  /\ Whole(track[t], log[t]) =>
       \A c \in 1..(copy.next[t] - 1) :
         Laid(BytesOf(log[t]), t, copy.media, copy.chunks[t][c],
              FirstOf(track[t].stsc, c), FirstOf(track[t].stsc, c + 1) - 1)

CopyInv ==
  /\ copy \in [chunks : [Tracks -> Seq(Nat)], media : Seq(Byte), next : [Tracks -> Nat \ {0}]]
  /\ \A t \in Tracks : Copied(t)
  /\ Numbered => CopyInOrder

MediaTypes ==
  /\ mode \in {"new", "writing", "reading", "closed", "optimizing", "lost"}
  /\ media \in Seq(Byte)
  /\ strayed \subseteq Tracks /\ readBack \subseteq Tracks /\ fails \in 0..MaxFails
  /\ optimized => mode \in {"closed", "reading", "optimizing"}

MediaInv ==
  /\ MediaTypes
  /\ \A t \in Tracks : TrackMedia(t)
  /\ mode = "optimizing" => CopyInv
  /\ optimized /\ Numbered => InOrder

LEMMA MediaBegins ==
  ASSUME MediaInv
  PROVE  /\ media \in Seq(Byte) /\ Len(media) \in Nat /\ Begins(media, media)
         /\ \A more \in Seq(Byte) : Begins(media, media \o more) /\ media \o more \in Seq(Byte)
<1>1. media \in Seq(Byte) /\ Len(media) \in Nat
  BY LenProperties DEF MediaInv, MediaTypes
<1>2. Begins(media, media)
  BY <1>1 DEF Begins
<1>3. ASSUME NEW more \in Seq(Byte)
      PROVE  Begins(media, media \o more) /\ media \o more \in Seq(Byte)
  <2> DEFINE all == media \o more
  <2>1. Len(media) \in Nat /\ Len(more) \in Nat /\ Len(all) = Len(media) + Len(more) /\ all \in Seq(Byte)
    BY <1>1, Joined
  <2>2. \A p \in 1..Len(media) : all[p] = media[p]
    BY <1>1, Joined
  <2> HIDE DEF all
  <2>3. Len(all) \in Nat /\ Len(media) <= Len(all)
    BY <2>1
  <2>4. Begins(media, all)
    BY <2>1, <2>2, <2>3 DEF Begins
  <2> QED
    BY <2>1, <2>4 DEF all
<1> QED
  BY <1>1, <1>2, <1>3

\* A track that keeps its chunks and its buffer.
LEMMA TrackKept ==
  ASSUME FileInv, MediaInv, NEW t \in Tracks, SameChunks(track[t], track'[t]),
         Begins(media, media'), BytesOf(log'[t]) = BytesOf(log[t]), Len(log'[t]) = Len(log[t]),
         mode = "writing" =>
           /\ mode' = "writing"
           /\ t \in strayed \cup readBack => t \in strayed' \cup readBack'
  PROVE  TrackMedia(t)'
<1>1. /\ IsTrack(track[t]) /\ log[t] \in Seq(Sample)
      /\ Chunked(track[t], t, log[t], media) /\ FirstsRight(t)
      /\ mode # "writing" => track[t].samples = 0
  BY DEF FileInv, MediaInv, TrackMedia
<1>2. Chunked(track'[t], t, log'[t], media') /\ (Whole(track'[t], log'[t]) <=> Whole(track[t], log[t]))
  BY <1>1, ChunkKept DEF SameChunks
<1>3. track'[t].stsc = track[t].stsc /\ track'[t].samples = track[t].samples
  BY DEF SameChunks
<1>4. FirstsRight(t)'
  BY <1>1, <1>2, <1>3 DEF FirstsRight
<1> QED
  BY <1>1, <1>2, <1>3, <1>4 DEF TrackMedia

\* The chunks lie as they did.
LEMMA OrderKept ==
  ASSUME MediaInv, log' = log, optimized' => optimized,
         \A t \in Tracks :
           /\ track'[t].chunks = track[t].chunks
           /\ \A c \in 1..Len(track[t].chunks) : FirstOf(track'[t].stsc, c) = FirstOf(track[t].stsc, c)
  PROVE  optimized' /\ Numbered' => InOrder'
<1> SUFFICES ASSUME optimized', Numbered'
             PROVE  InOrder'
  OBVIOUS
<1>1. InOrder
  BY DEF MediaInv, Numbered
<1>2. ASSUME NEW t \in Tracks, NEW u \in Tracks, FitsSpan(t)', FitsSpan(u)',
             NEW c \in 1..Len(track'[t].chunks), NEW d \in 1..Len(track'[u].chunks),
             track'[t].chunks[c] < track'[u].chunks[d]
      PROVE  ChunkStart(t, c)' <= ChunkStart(u, d)'
  <2>1. FitsSpan(t) /\ FitsSpan(u)
    BY <1>2 DEF FitsSpan, LoggedTime
  <2>2. c \in 1..Len(track[t].chunks) /\ d \in 1..Len(track[u].chunks)
        /\ track[t].chunks[c] < track[u].chunks[d]
    BY <1>2
  <2>3. ChunkStart(t, c) <= ChunkStart(u, d)
    BY <1>1, <2>1, <2>2 DEF InOrder, Ordered
  <2>4. ChunkStart(t, c)' = ChunkStart(t, c) /\ ChunkStart(u, d)' = ChunkStart(u, d)
    BY <2>2 DEF ChunkStart, LoggedTime
  <2> QED
    BY <2>3, <2>4
<1> QED
  BY <1>2 DEF InOrder, Ordered

\* A track without chunks.
LEMMA NewTrackChunked ==
  ASSUME NEW t \in Tracks
  PROVE  /\ Chunked(NewTrack(t), t, <<>>, <<>>) /\ FirstsKnown(NewTrack(t).stsc)
         /\ NewTrack(t).samples = 0
<1> DEFINE tr == NewTrack(t)
<1>1. tr.stsc = <<>> /\ tr.chunks = <<>> /\ tr.buffer = <<>> /\ tr.samples = 0
  BY DEF NewTrack
<1>2. Len(<<>>) = 0 /\ <<>> \in Seq(StscRow) /\ <<>> \in Seq(Byte) /\ <<>> \in Seq(0..0)
  BY EmptySeq
<1> HIDE DEF tr
<1>3. IsStsc(tr.stsc, 0)
  BY <1>1, <1>2 DEF IsStsc
<1>4. FirstOf(tr.stsc, 1) = 1
  BY <1>3, FirstTypes
<1>5. Stored(tr) = 0
  <2>1. Stored(tr) = FirstOf(tr.stsc, 0 + 1) - 1 /\ 0 + 1 = 1
    BY <1>1, <1>2 DEF Stored
  <2> QED
    BY <1>4, <2>1
<1>6. Laid(BytesOf(<<>>), t, <<>>, 0, 1, 0) /\ SumOver(BytesOf(<<>>), 1, 0) = 0
  BY SumEmpty DEF Laid
<1>7. FirstsKnown(tr.stsc)
  BY <1>1, <1>2 DEF FirstsKnown
<1>8. Chunked(tr, t, <<>>, <<>>)
  BY <1>1, <1>2, <1>3, <1>5, <1>6 DEF Chunked
<1> QED
  BY <1>1, <1>7, <1>8 DEF tr

LEMMA MediaStart ==
  /\ FileInit => MediaInv
  /\ MediaInv /\ Die => MediaInv'
<1>1. <<>> \in Seq(Byte)
  BY EmptySeq
<1>2. ASSUME FileInit
      PROVE  MediaInv
  <2>1. ASSUME NEW t \in Tracks
        PROVE  TrackMedia(t)
    <3>1. track[t] = NewTrack(t) /\ log[t] = <<>> /\ media = <<>>
      BY <1>2 DEF FileInit
    <3> QED
      BY <3>1, NewTrackChunked DEF TrackMedia, FirstsRight
  <2>2. mode = "new" /\ media = <<>> /\ strayed = {} /\ readBack = {} /\ fails = 0 /\ optimized = FALSE
    BY <1>2 DEF FileInit
  <2>3. MediaTypes
    BY <1>1, <2>2, FileAssumption DEF MediaTypes
  <2> QED
    BY <2>1, <2>2, <2>3 DEF MediaInv
<1>3. ASSUME MediaInv, Die
      PROVE  MediaInv'
  <2>1. ASSUME NEW t \in Tracks
        PROVE  TrackMedia(t)'
    <3>1. track'[t] = NewTrack(t) /\ log'[t] = <<>> /\ media' = <<>>
      BY <1>3 DEF Die
    <3> QED
      BY <3>1, NewTrackChunked DEF TrackMedia, FirstsRight
  <2>2. /\ mode = "writing" /\ mode' = "lost" /\ media' = <<>> /\ strayed' = {} /\ readBack' = {}
        /\ fails' = fails /\ optimized' = optimized
    BY <1>3 DEF Die
  <2>3. MediaTypes' /\ ~optimized'
    BY <1>1, <1>3, <2>2 DEF MediaInv, MediaTypes
  <2> QED
    BY <2>1, <2>2, <2>3 DEF MediaInv
<1> QED
  BY <1>2, <1>3

\* The calls that leave the tracks and the media data.
LEMMA ModeChanged ==
  ASSUME FileInv, MediaInv,
         Create \/ Read \/ Modify \/ Optimize \/ OptimizeFails \/ UNCHANGED fileVars
  PROVE  MediaInv'
<1>1. /\ UNCHANGED <<track, media, log, strayed, readBack, fails>>
      /\ mode = "writing" => mode' = "writing"
      /\ optimized' => optimized /\ (mode' = mode \/ mode' \in {"closed", "reading", "optimizing"})
      /\ mode' \in {"new", "writing", "reading", "closed", "optimizing", "lost"}
      /\ optimized' \in {optimized, FALSE}
  <2>1. MediaTypes
    BY DEF MediaInv
  <2>2. CASE Create
    BY <2>1, <2>2 DEF Create, MediaTypes
  <2>3. CASE Read
    BY <2>1, <2>3 DEF Read, MediaTypes
  <2>4. CASE Modify
    BY <2>1, <2>4 DEF Modify, MediaTypes
  <2>5. CASE Optimize
    BY <2>1, <2>5 DEF Optimize, MediaTypes
  <2>6. CASE OptimizeFails
    BY <2>1, <2>6 DEF OptimizeFails, MediaTypes
  <2>7. CASE UNCHANGED fileVars
    BY <2>1, <2>7 DEF fileVars, MediaTypes
  <2> QED
    BY <2>2, <2>3, <2>4, <2>5, <2>6, <2>7
<1>2. MediaTypes'
  BY <1>1 DEF MediaInv, MediaTypes
<1>3. ASSUME NEW t \in Tracks
      PROVE  TrackMedia(t)'
  <2>1. SameChunks(track[t], track'[t]) /\ BytesOf(log'[t]) = BytesOf(log[t]) /\ Len(log'[t]) = Len(log[t])
    BY <1>1 DEF SameChunks
  <2>2. Begins(media, media')
    BY <1>1, MediaBegins
  <2> QED
    BY <1>1, <2>1, <2>2, TrackKept
<1>4. optimized' /\ Numbered' => InOrder'
  BY <1>1, OrderKept
<1>5. mode' = "optimizing" => CopyInv'
  <2> SUFFICES ASSUME mode' = "optimizing"
               PROVE  CopyInv'
    OBVIOUS
  <2>1. CASE Optimize
    <3>1. copy' = [NoCopy EXCEPT !.chunks = [t \in Tracks |-> track[t].chunks]]
      BY <2>1 DEF Optimize
    <3>2. copy' = [chunks |-> [t \in Tracks |-> track[t].chunks], media |-> <<>>,
                   next |-> [t \in Tracks |-> 1]]
      BY <3>1 DEF NoCopy
    <3>3. ASSUME NEW t \in Tracks
          PROVE  track[t].chunks \in Seq(Nat) /\ Len(track[t].chunks) \in Nat
      <4>1. track[t].chunks \in Seq(0..Len(media)) /\ Len(media) \in Nat
        BY MediaBegins DEF MediaInv, TrackMedia, Chunked
      <4> QED
        BY <4>1, LenProperties
    <3>4. copy' \in [chunks : [Tracks -> Seq(Nat)], media : Seq(Byte), next : [Tracks -> Nat \ {0}]]
      <4>1. <<>> \in Seq(Byte)
        BY EmptySeq
      <4> QED
        BY <3>2, <3>3, <4>1
    <3>5. /\ copy'.media = <<>>
          /\ \A t \in Tracks : copy'.chunks[t] = track[t].chunks /\ copy'.next[t] = 1
      BY <3>2
    <3>6. \A t \in Tracks : copy'.next[t] - 1 = 0 /\ ~ (\E c \in 1..(copy'.next[t] - 1) : TRUE)
      BY <3>5
    <3>7. ASSUME NEW t \in Tracks
          PROVE  Copied(t)'
      BY <1>1, <3>3, <3>5, <3>6 DEF Copied
    <3>8. CopyInOrder'
      BY <3>6 DEF CopyInOrder, Ordered
    <3> QED
      BY <3>4, <3>7, <3>8 DEF CopyInv
  <2>2. CASE UNCHANGED fileVars
    <3>1. mode = "optimizing" /\ copy' = copy
      BY <2>2 DEF fileVars
    <3>2. CopyInv
      BY <3>1 DEF MediaInv
    <3>3. \A t \in Tracks : Copied(t)'
      BY <1>1, <3>1, <3>2 DEF CopyInv, Copied
    <3>4. Numbered' => CopyInOrder'
      BY <1>1, <3>1, <3>2 DEF CopyInv, Numbered, CopyInOrder, Ordered, FitsSpan, LoggedTime, ChunkStart
    <3> QED
      BY <3>1, <3>2, <3>3, <3>4 DEF CopyInv
  <2>3. CASE Create \/ Read \/ Modify \/ OptimizeFails
    BY <2>3 DEF Create, Read, Modify, OptimizeFails
  <2> QED
    BY <2>1, <2>2, <2>3
<1> QED
  BY <1>2, <1>3, <1>4, <1>5 DEF MediaInv

(***************************************************************************)
(* The calls that move no data.                                            *)
(***************************************************************************)

LEMMA SearchKeepsChunks ==
  ASSUME NEW tr, IsTrack(tr)
  PROVE  /\ SameChunks(tr, tr)
         /\ \A id : SameChunks(tr, AfterRead(tr, id))
         /\ \A x : SameChunks(tr, [tr EXCEPT !.sttsCache = x])
<1>1. SameChunks(tr, tr)
  BY DEF SameChunks
<1>2. \A x : SameChunks(tr, [tr EXCEPT !.sttsCache = x])
  BY DEF IsTrack, SameChunks
<1>3. ASSUME NEW x, NEW y
      PROVE  SameChunks(tr, [tr EXCEPT !.sttsCache = x, !.cttsCache = y])
  BY DEF IsTrack, SameChunks
<1>4. ASSUME NEW id
      PROVE  SameChunks(tr, AfterRead(tr, id))
  BY <1>1, <1>3, Zenon DEF AfterRead
<1> QED
  BY <1>1, <1>2, <1>4

\* The track of one call, the others are left.
LEMMA OneOfTracks ==
  ASSUME FileInv, NEW t \in Tracks, NEW new, track' = [track EXCEPT ![t] = new]
  PROVE  /\ track'[t] = new
         /\ \A u \in Tracks \ {t} : track'[u] = track[u] /\ SameChunks(track[u], track'[u])
BY DEF FileInv, SameChunks

\* A call that moves the caches of a track.
LEMMA CachesMoved ==
  ASSUME FileInv, MediaInv, NEW t \in Tracks, NEW new, track' = [track EXCEPT ![t] = new],
         SameChunks(track[t], new),
         UNCHANGED <<mode, media, log, strayed, readBack, copy, optimized>>, fails' \in 0..MaxFails
  PROVE  MediaInv'
<1>1. \A u \in Tracks : SameChunks(track[u], track'[u])
  BY OneOfTracks
<1>2. MediaTypes'
  BY DEF MediaInv, MediaTypes
<1>3. ASSUME NEW u \in Tracks
      PROVE  TrackMedia(u)'
  <2>1. Begins(media, media')
    BY MediaBegins
  <2> QED
    BY <1>1, <2>1, TrackKept
<1>4. optimized' /\ Numbered' => InOrder'
  <2>1. \A u \in Tracks :
          /\ track'[u].chunks = track[u].chunks
          /\ \A c \in 1..Len(track[u].chunks) : FirstOf(track'[u].stsc, c) = FirstOf(track[u].stsc, c)
    BY <1>1 DEF SameChunks
  <2> QED
    BY <2>1, OrderKept
<1>5. mode' = "optimizing" => CopyInv'
  <2> SUFFICES ASSUME mode = "optimizing"
               PROVE  CopyInv'
    OBVIOUS
  <2>1. CopyInv
    BY DEF MediaInv
  <2>2. \A u \in Tracks : track'[u].stsc = track[u].stsc /\ track'[u].chunks = track[u].chunks
                            /\ track'[u].samples = track[u].samples
    BY <1>1 DEF SameChunks
  <2>3. \A u \in Tracks : Copied(u)'
    BY <2>1, <2>2 DEF CopyInv, Copied, Whole, Stored
  <2>4. \A u \in Tracks : \A c : ChunkStart(u, c)' = ChunkStart(u, c)
    BY <2>2 DEF ChunkStart, LoggedTime
  <2>5. \A u \in Tracks : FitsSpan(u)' = FitsSpan(u)
    BY DEF FitsSpan, LoggedTime
  <2>6. Numbered' => CopyInOrder'
    <3> SUFFICES ASSUME Numbered'
                 PROVE  CopyInOrder'
      OBVIOUS
    <3>1. CopyInOrder
      BY <2>1 DEF CopyInv, Numbered
    <3>2. Ordered(copy.chunks, [u \in Tracks |-> copy.next[u] - 1])'
      <4> SUFFICES ASSUME NEW u \in Tracks, NEW w \in Tracks, FitsSpan(u)', FitsSpan(w)',
                          NEW c \in 1..(copy'.next[u] - 1), NEW d \in 1..(copy'.next[w] - 1),
                          copy'.chunks[u][c] < copy'.chunks[w][d]
                   PROVE  ChunkStart(u, c)' <= ChunkStart(w, d)'
        BY DEF Ordered
      <4>1. FitsSpan(u) /\ FitsSpan(w) /\ c \in 1..(copy.next[u] - 1) /\ d \in 1..(copy.next[w] - 1)
            /\ copy.chunks[u][c] < copy.chunks[w][d]
        BY <2>5
      <4>2. ChunkStart(u, c) <= ChunkStart(w, d)
        BY <3>1, <4>1 DEF CopyInOrder, Ordered
      <4> QED
        BY <2>4, <4>2
    <3>3. ASSUME NEW u \in Tracks, NEW w \in Tracks, FitsSpan(u)', FitsSpan(w)',
                 NEW c \in 1..(copy'.next[u] - 1), NEW d \in copy'.next[w]..Len(track'[w].chunks)
          PROVE  ChunkStart(u, c)' <= ChunkStart(w, d)'
      <4>1. FitsSpan(u) /\ FitsSpan(w) /\ c \in 1..(copy.next[u] - 1)
            /\ d \in copy.next[w]..Len(track[w].chunks)
        BY <2>2, <2>5, <3>3
      <4>2. ChunkStart(u, c) <= ChunkStart(w, d)
        BY <3>1, <4>1 DEF CopyInOrder
      <4> QED
        BY <2>4, <4>2
    <3> QED
      BY <3>2, <3>3 DEF CopyInOrder
  <2> QED
    BY <2>1, <2>3, <2>6 DEF CopyInv
<1> QED
  BY <1>2, <1>3, <1>4, <1>5 DEF MediaInv

\* A turn of MP4CopyTrack.
LEMMA TurnMoved ==
  ASSUME FileInv, ListInv, MediaInv, CopyTurn
  PROVE  MediaInv'
<1> DEFINE s     == NextSample
           t     == dub.track
           asked == Asked(track[t], s)
           read  == AfterRead(asked, s.id)
<1>1. CopyDone(s) \/ CopySample(s) \/ CopyFails(s)
  BY DEF CopyTurn
<1>2. s.id \in Int
  BY NextSampleInt
<1>3. t \in Tracks /\ IsTrack(track[t])
  BY DEF ListInv, IsDub, FileInv
<1>4. PICK tr : /\ tr \in {track[t], asked, read}
                /\ track' = [track EXCEPT ![t] = tr]
  BY <1>1 DEF CopyDone, CopySample, CopyFails
<1>5. fails' = fails \/ (fails < MaxFails /\ fails' = fails + 1)
  BY <1>1 DEF CopyDone, CopySample, CopyFails
<1>6. fails' \in 0..MaxFails
  BY <1>5, FileAssumption DEF MediaInv, MediaTypes
<1>7. UNCHANGED <<mode, media, log, strayed, readBack, copy, optimized>>
  BY DEF CopyTurn
<1> HIDE DEF s, t
<1>8. IsTrack(asked) /\ SameChunks(track[t], asked)
  <2>1. Same(track[t], [track[t] EXCEPT !.sttsCache = CacheAfter(track[t].stts, @, s.id)])
    BY <1>2, <1>3, SearchedSame
  <2> QED
    BY <1>3, <2>1, SearchKeepsChunks DEF Asked, Same
<1> HIDE DEF asked
<1>9. SameChunks(asked, read)
  BY <1>8, SearchKeepsChunks
<1> HIDE DEF read
<1>10. SameChunks(track[t], tr)
  BY <1>3, <1>4, <1>8, <1>9, SearchKeepsChunks DEF SameChunks
<1> QED
  BY <1>3, <1>4, <1>6, <1>7, <1>10, CachesMoved

\* MP4Close of a file that was read.
LEMMA ReadClosedMedia ==
  ASSUME FileInv, MediaInv, CloseRead
  PROVE  MediaInv'
<1>1. /\ mode = "reading" /\ mode' = "closed"
      /\ track' = [t \in Tracks |-> Loaded(track[t])]
      /\ UNCHANGED <<media, log, strayed, readBack, copy, optimized, fails>>
  BY DEF CloseRead
<1>2. MediaTypes'
  BY <1>1 DEF MediaInv, MediaTypes
<1>3. ASSUME NEW t \in Tracks
      PROVE  /\ TrackMedia(t)' /\ track'[t].chunks = track[t].chunks
             /\ \A c \in 1..Len(track[t].chunks) : FirstOf(track'[t].stsc, c) = FirstOf(track[t].stsc, c)
  <2>1. /\ IsTrack(track[t]) /\ log[t] \in Seq(Sample) /\ Len(media) \in Nat
        /\ Chunked(track[t], t, log[t], media) /\ track[t].buffer = <<>>
    BY <1>1, MediaBegins DEF FileInv, MediaInv, TrackMedia, Chunked
  <2>2. track'[t] = Loaded(track[t])
    BY <1>1
  <2>3. /\ Chunked(track'[t], t, log[t], media) /\ track'[t].samples = 0
        /\ track'[t].chunks = track[t].chunks
        /\ \A c \in 1..Len(track[t].chunks) : FirstOf(track'[t].stsc, c) = FirstOf(track[t].stsc, c)
        /\ Len(log[t]) < Span => FirstsKnown(track'[t].stsc)
    BY <2>1, <2>2, ChunkLoaded
  <2> QED
    BY <1>1, <2>3 DEF TrackMedia, FirstsRight
<1>4. optimized' /\ Numbered' => InOrder'
  BY <1>1, <1>3, OrderKept
<1> QED
  BY <1>1, <1>2, <1>3, <1>4 DEF MediaInv

(***************************************************************************)
(* The calls that write chunks.                                            *)
(***************************************************************************)

\* The buffer is written at the end of the media data, if there is anything
\* in it.
LEMMA BufferFlushed ==
  ASSUME NEW tr, IsTrack(tr), NEW t, NEW samples \in Seq(Sample), NEW med \in Seq(Byte),
         Chunked(tr, t, samples, med)
  PROVE  LET new == WriteChunkBuffer(tr, Len(med))
         IN /\ Chunked(new, t, samples, med \o tr.buffer)
            /\ (Whole(new, samples) <=> Whole(tr, samples))
            /\ /\ Whole(tr, samples) /\ FirstsKnown(tr.stsc)
               /\ tr.buffer # <<>> => tr.next = Len(samples)
               => FirstsKnown(new.stsc)
<1> DEFINE new == WriteChunkBuffer(tr, Len(med))
           all == med \o tr.buffer
<1>1. tr.buffer \in Seq(Byte)
  BY DEF Chunked
<1>2. /\ all \in Seq(Byte)
      /\ Len(med) \in Nat /\ Len(tr.buffer) \in Nat /\ Len(all) = Len(med) + Len(tr.buffer)
      /\ \A k \in 1..Len(med) : all[k] = med[k]
      /\ \A k \in 1..Len(tr.buffer) : all[Len(med) + k] = tr.buffer[k]
  BY <1>1, Joined
<1> HIDE DEF all
<1>3. Len(all) \in Nat /\ Len(med) <= Len(all)
  BY <1>2
<1>4. Begins(med, all)
  BY <1>2, <1>3 DEF Begins
<1>5. CASE tr.buffer = <<>>
  <2>1. new = tr
    BY <1>5 DEF WriteChunkBuffer
  <2> HIDE DEF new
  <2>2. Chunked(new, t, samples, all) /\ (Whole(new, samples) <=> Whole(tr, samples))
    BY <1>4, <2>1, ChunkKept
  <2> QED
    BY <2>1, <2>2 DEF new, all
<1>6. CASE tr.buffer # <<>>
  <2>1. Len(med) \in 0..Len(all)
    BY <1>2, <1>3
  <2>2. \A k \in 1..Len(tr.buffer) : Len(med) + k <= Len(all) /\ all[Len(med) + k] = tr.buffer[k]
    BY <1>2
  <2>3. /\ Chunked(new, t, samples, all) /\ (Whole(new, samples) <=> Whole(tr, samples))
        /\ Whole(tr, samples) /\ FirstsKnown(tr.stsc) /\ tr.next = Len(samples)
             => FirstsKnown(new.stsc)
    BY <1>4, <1>6, <2>1, <2>2, ChunkWritten
  <2> QED
    BY <1>6, <2>3 DEF all
<1> QED
  BY <1>5, <1>6

\* One track has changed while the file is written.
LEMMA OneTrackWritten ==
  ASSUME FileInv, MediaInv, NEW t \in Tracks, NEW new, track' = [track EXCEPT ![t] = new],
         mode = "writing", UNCHANGED <<mode, optimized>>, media' \in Seq(Byte), Begins(media, media'),
         \A u \in Tracks \ {t} : log'[u] = log[u],
         strayed \subseteq strayed', readBack \subseteq readBack',
         strayed' \subseteq Tracks, readBack' \subseteq Tracks, fails' \in 0..MaxFails,
         TrackMedia(t)'
  PROVE  MediaInv'
<1>1. MediaTypes /\ ~optimized /\ ~optimized'
  BY DEF MediaInv, MediaTypes
<1>2. MediaTypes'
  BY <1>1 DEF MediaTypes
<1>3. ASSUME NEW u \in Tracks, u # t
      PROVE  TrackMedia(u)'
  <2>1. track'[u] = track[u] /\ log'[u] = log[u]
    BY <1>3 DEF FileInv
  <2>2. SameChunks(track[u], track'[u])
    BY <2>1 DEF SameChunks
  <2>3. u \in strayed \cup readBack => u \in strayed' \cup readBack'
    OBVIOUS
  <2> QED
    BY <2>1, <2>2, <2>3, TrackKept
<1>4. mode' # "optimizing"
  OBVIOUS
<1> QED
  BY <1>1, <1>2, <1>3, <1>4 DEF MediaInv

LEMMA BytesOfSample ==
  ASSUME NEW t \in Tracks, NEW id \in Nat, NEW n \in Nat
  PROVE  Len(Bytes(t, id, n)) = n /\ BytesAre(Bytes(t, id, n), t, id)
<1>1. t \in Nat
  BY Mp4Assumption DEF Tracks
<1>2. <<t, id>> \in Byte
  BY <1>1 DEF Byte
<1> HIDE DEF Byte
<1>3. Bytes(t, id, n) \in [1..n -> Byte]
  BY <1>2 DEF Bytes
<1>4. Bytes(t, id, n) \in Seq(Byte) /\ Len(Bytes(t, id, n)) = n
  BY <1>3, LenProperties, SeqDef
<1>5. \A k \in 1..n : Bytes(t, id, n)[k] = <<t, id>>
  BY DEF Bytes
<1> QED
  BY <1>4, <1>5 DEF BytesAre

\* A sample more: in the buffer, or with it in a chunk.
LEMMA SampleMedia ==
  ASSUME FileInv, MediaInv, NEW t \in Tracks, NEW e \in Sample,
         \/ WriteSample(t, e.bytes, e.duration, e.offset, e.sync)
         \/ WriteSampleFails(t, e.bytes, e.duration, e.offset, e.sync)
  PROVE  MediaInv'
<1> DEFINE bytes == Bytes(t, track[t].count + 1, e.bytes)
           taken == TakenSample(t, e.bytes, e.duration, e.offset, e.sync)
           all   == Append(log[t], e)
<1>1. /\ e = [bytes |-> e.bytes, duration |-> e.duration, offset |-> e.offset, sync |-> e.sync]
      /\ e.bytes \in Nat /\ e.duration \in Nat
  BY DEF Sample
<1>2. /\ IsTrack(track[t]) /\ Recorded(track[t], log[t], TRUE)
      /\ log[t] \in Seq(Sample) /\ track[t].count = Len(log[t]) /\ Len(log[t]) \in Nat
  <2>1. IsTrack(track[t]) /\ Recorded(track[t], log[t], t \in strayed) /\ log[t] \in Seq(Sample)
    BY DEF FileInv
  <2>2. Len(log[t]) \in Nat
    BY <2>1, LenProperties
  <2> QED
    BY <2>1, <2>2 DEF Recorded, Sized
<1>3. Chunked(track[t], t, log[t], media) /\ FirstsRight(t)
  BY DEF MediaInv, TrackMedia
<1>4. media \in Seq(Byte) /\ Len(media) \in Nat /\ Begins(media, media)
  BY MediaBegins
<1>5. Len(bytes) = e.bytes /\ BytesAre(bytes, t, Len(log[t]) + 1)
  <2>1. track[t].count + 1 \in Nat
    BY <1>2
  <2> QED
    BY <1>1, <1>2, <2>1, BytesOfSample
<1>6. all \in Seq(Sample) /\ Len(all) = Len(log[t]) + 1
  BY <1>2, AppendProperties
<1>7. mode = "writing" /\ mode' = mode /\ optimized' = optimized /\ readBack' = readBack
  BY DEF WriteSample, WriteSampleFails
<1>8. /\ log' = [log EXCEPT ![t] = all]
      /\ strayed' = IF track[t].next = track[t].count + 1 THEN strayed ELSE strayed \cup {t}
  BY <1>1 DEF WriteSample, WriteSampleFails, Logged
<1>9. log'[t] = all /\ \A u \in Tracks \ {t} : log'[u] = log[u]
  BY <1>8 DEF FileInv
<1>10. MediaTypes
  BY DEF MediaInv
<1>11. /\ strayed \subseteq strayed' /\ strayed' \subseteq Tracks
       /\ t \notin strayed' => track[t].next = Len(all)
  BY <1>2, <1>6, <1>8, <1>10 DEF MediaTypes
<1>12. fails' \in 0..MaxFails
  BY <1>10, FileAssumption DEF MediaTypes, WriteSample, WriteSampleFails
<1> HIDE DEF bytes, all
<1>13. IsTrack(taken) /\ taken.next = track[t].next /\ Buffered(track[t], taken, bytes)
  <2> DEFINE new == Taken(track[t], bytes, e.duration, e.offset, e.sync)
  <2>1. ASSUME NEW stray \in BOOLEAN, Recorded(track[t], log[t], stray)
        PROVE  IsTrack(new) /\ new.next = track[t].next
    BY <1>2, <1>5, <2>1, TakenRecorded
  <2>2. Buffered(track[t], new, bytes)
    BY <1>2, <1>5, TakenFields
  <2> QED
    BY <1>2, <2>1, <2>2 DEF TakenSample, bytes
<1> HIDE DEF taken
<1>14. Chunked(taken, t, all, media) /\ (Whole(taken, all) => Whole(track[t], log[t]))
  <2>1. /\ Chunked(taken, t, Append(log[t], e), media)
        /\ Whole(taken, Append(log[t], e)) => Whole(track[t], log[t])
    BY <1>2, <1>3, <1>4, <1>5, <1>13, ChunkTaken
  <2> QED
    BY <2>1 DEF all
<1>15. taken.buffer \in Seq(Byte)
  BY <1>14 DEF Chunked
<1>16. Whole(taken, all) /\ t \notin strayed' \cup readBack' => FirstsKnown(taken.stsc)
  <2> SUFFICES ASSUME Whole(taken, all), t \notin strayed', t \notin readBack'
               PROVE  FirstsKnown(taken.stsc)
    OBVIOUS
  <2>1. Whole(track[t], log[t]) /\ t \notin strayed \cup readBack
    BY <1>7, <1>11, <1>14
  <2>2. Len(log[t]) < Span
    BY <2>1 DEF Whole
  <2>3. FirstsKnown(track[t].stsc)
    BY <1>3, <2>1, <2>2 DEF FirstsRight
  <2> QED
    BY <1>13, <2>3 DEF Buffered
<1>17. CASE WriteSampleFails(t, e.bytes, e.duration, e.offset, e.sync)
  <2>1. track' = [track EXCEPT ![t] = taken] /\ media' = media
    BY <1>17 DEF WriteSampleFails, taken
  <2>2. track'[t] = taken
    BY <2>1 DEF FileInv
  <2>3. TrackMedia(t)'
    BY <1>7, <1>9, <1>14, <1>16, <2>1, <2>2 DEF TrackMedia, FirstsRight
  <2> QED
    BY <1>4, <1>7, <1>9, <1>10, <1>11, <1>12, <2>1, <2>3, OneTrackWritten DEF MediaTypes
<1>18. CASE WriteSample(t, e.bytes, e.duration, e.offset, e.sync)
  <2> DEFINE written == IF IsChunkFull(t, taken) THEN WriteChunkBuffer(taken, Len(media)) ELSE taken
             done    == [written EXCEPT !.next = @ + 1, !.duration = (@ + e.duration) % Span]
  <2>1. track' = [track EXCEPT ![t] = done] 
        /\ media' = IF IsChunkFull(t, taken) THEN media \o taken.buffer ELSE media
    BY <1>18 DEF WriteSample, Finished, taken
  <2>2. media' \in Seq(Byte) /\ Begins(media, media')
    BY <1>4, <1>15, <2>1, MediaBegins
  <2>3. /\ Chunked(written, t, all, media') /\ (Whole(written, all) <=> Whole(taken, all))
        /\ Whole(taken, all) /\ FirstsKnown(taken.stsc) /\ taken.next = Len(all)
             => FirstsKnown(written.stsc)
    <3>1. CASE IsChunkFull(t, taken)
      <4> DEFINE new == WriteChunkBuffer(taken, Len(media))
      <4>1. all \in Seq(Sample)
        BY <1>6
      <4>2. /\ Chunked(new, t, all, media \o taken.buffer)
            /\ (Whole(new, all) <=> Whole(taken, all))
            /\ /\ Whole(taken, all) /\ FirstsKnown(taken.stsc)
               /\ taken.buffer # <<>> => taken.next = Len(all)
               => FirstsKnown(new.stsc)
        BY <1>4, <1>13, <1>14, <4>1, BufferFlushed
      <4> QED
        BY <2>1, <3>1, <4>2
    <3>2. CASE ~IsChunkFull(t, taken)
      BY <1>14, <2>1, <3>2
    <3> QED
      BY <3>1, <3>2
  <2>4. IsTrack(written)
    BY <1>13, WriteChunkBufferSame DEF Same
  <2> HIDE DEF written
  <2>5. /\ done.stsc = written.stsc /\ done.chunks = written.chunks /\ done.buffer = written.buffer
        /\ done.samples = written.samples
    BY <2>4 DEF IsTrack
  <2> HIDE DEF done
  <2>6. Begins(media', media')
    BY <2>2 DEF Begins
  <2>7. Chunked(done, t, all, media') /\ (Whole(done, all) <=> Whole(taken, all))
    <3>1. Chunked(written, t, all, media') /\ all \in Seq(Sample)
      BY <1>6, <2>3
    <3>2. Chunked(done, t, all, media') /\ (Whole(done, all) <=> Whole(written, all))
      BY <2>4, <2>5, <2>6, <3>1, ChunkKept
    <3> QED
      BY <2>3, <3>2
  <2>8. track'[t] = done
    BY <2>1 DEF FileInv
  <2>9. Whole(done, all) /\ t \notin strayed' \cup readBack' => FirstsKnown(done.stsc)
    BY <1>11, <1>13, <1>16, <2>3, <2>5, <2>7
  <2>10. TrackMedia(t)'
    BY <1>7, <1>9, <2>7, <2>8, <2>9 DEF TrackMedia, FirstsRight
  <2> QED
    BY <1>7, <1>9, <1>10, <1>11, <1>12, <2>1, <2>2, <2>10, OneTrackWritten DEF MediaTypes
<1> QED
  BY <1>17, <1>18

\* MP4SetSampleRenderingOffset moves no bytes.
LEMMA OffsetMedia ==
  ASSUME FileInv, MediaInv, NEW t \in Tracks, NEW id \in DOMAIN log[t], NEW o \in Nat,
         SetSampleRenderingOffset(t, id, o)
  PROVE  MediaInv'
<1> DEFINE tr  == track[t]
           new == IF tr.ctts = <<>> THEN FirstOffset(tr, id, o) ELSE SetOffset(tr, id, o)
           all == Changed(log[t], id, o)
<1>1. IsTrack(tr) /\ log[t] \in Seq(Sample) /\ id \in 1..Len(log[t])
  BY LoggedDurations DEF FileInv
<1>2. SameChunks(tr, new)
  <2> HIDE DEF tr
  <2>1. \A x, y : SameChunks(tr, [[tr EXCEPT !.cttsCache = x] EXCEPT !.ctts = y])
                    /\ SameChunks(tr, [tr EXCEPT !.cttsCache = x])
    BY <1>1 DEF IsTrack, SameChunks
  <2>2. SameChunks(tr, SetOffset(tr, id, o))
    BY <2>1, Zenon DEF SetOffset
  <2> DEFINE opened == UpdateRenderingOffsets(tr, id, o)
  <2>3. SameChunks(tr, opened)
    BY <1>1, UpdatesKeepChunks
  <2>4. IsTrack(opened)
    <3>1. id \in Nat \ {0}
      BY <1>1
    <3> QED
      BY <1>1, <3>1, OffsetAdded
  <2> HIDE DEF opened
  <2>5. \A y : SameChunks(tr, [opened EXCEPT !.ctts = y])
    BY <2>3, <2>4 DEF IsTrack, SameChunks
  <2>6. SameChunks(tr, FirstOffset(tr, id, o))
    BY <2>3, <2>5, Zenon DEF FirstOffset, opened
  <2> QED
    BY <2>2, <2>6
<1>3. Len(all) = Len(log[t]) /\ BytesOf(all) = BytesOf(log[t])
  <2>1. /\ all \in Seq(Sample) /\ Len(all) = Len(log[t]) /\ Len(log[t]) \in Nat
        /\ \A k \in 1..Len(log[t]) : all[k].bytes = log[t][k].bytes
    <3> HIDE DEF new, tr
    <3> QED
      BY <1>1, ChangedSamples
  <2> HIDE DEF all
  <2> QED
    BY <2>1 DEF BytesOf
<1>4. /\ track' = [track EXCEPT ![t] = new] /\ log' = [log EXCEPT ![t] = all]
      /\ UNCHANGED <<mode, media, strayed, readBack, optimized, fails>> /\ mode = "writing"
  BY DEF SetSampleRenderingOffset, Changed
<1> HIDE DEF new, all, tr
<1>5. track'[t] = new /\ log'[t] = all /\ \A u \in Tracks \ {t} : log'[u] = log[u]
  BY <1>4 DEF FileInv
<1>6. media \in Seq(Byte) /\ Begins(media, media')
  BY <1>4, MediaBegins
<1>7. TrackMedia(t)'
  <2>1. SameChunks(track[t], track'[t])
    BY <1>2, <1>5 DEF tr
  <2> QED
    BY <1>3, <1>4, <1>5, <1>6, <2>1, TrackKept
<1> QED
  <2>1. strayed \subseteq Tracks /\ readBack \subseteq Tracks /\ fails \in 0..MaxFails
    BY DEF MediaInv, MediaTypes
  <2> QED
    BY <1>4, <1>5, <1>6, <1>7, <2>1, OneTrackWritten

\* MP4ReadSample writes the buffer if the sample may be in it.
LEMMA ReadMedia ==
  ASSUME FileInv, MediaInv, NEW t \in Tracks, NEW id, ReadSample(t, id)
  PROVE  MediaInv'
<1> DEFINE buffered == id >= (track[t].next - track[t].samples) % Span
           flushed  == IF buffered THEN WriteChunkBuffer(track[t], Len(media)) ELSE track[t]
<1>0. PICK got \in BOOLEAN :
        track' = [track EXCEPT ![t] = IF got THEN AfterRead(flushed, id) ELSE flushed]
  BY DEF ReadSample
<1> DEFINE read == IF got THEN AfterRead(flushed, id) ELSE flushed
<1>1. /\ IsTrack(track[t]) /\ log[t] \in Seq(Sample)
      /\ Chunked(track[t], t, log[t], media) /\ FirstsRight(t)
      /\ mode # "writing" => track[t].samples = 0
  BY DEF FileInv, MediaInv, TrackMedia
<1>2. media \in Seq(Byte) /\ Len(media) \in Nat /\ Begins(media, media) /\ track[t].buffer \in Seq(Byte)
  BY <1>1, MediaBegins DEF Chunked
<1>3. /\ mode \in {"writing", "reading"}
      /\ track' = [track EXCEPT ![t] = read]
      /\ media' = IF buffered THEN media \o track[t].buffer ELSE media
      /\ readBack' = IF buffered /\ track[t].buffer # <<>> THEN readBack \cup {t} ELSE readBack
      /\ UNCHANGED <<mode, log, strayed, copy, optimized, fails>>
  BY <1>0 DEF ReadSample
<1> HIDE DEF buffered
<1>4. media' \in Seq(Byte) /\ Begins(media, media')
  BY <1>2, <1>3, MediaBegins
<1>5. IsTrack(flushed)
  BY <1>1, WriteChunkBufferSame DEF Same
<1>6. SameChunks(flushed, read)
  <2> HIDE DEF flushed
  <2> QED
    BY <1>5, SearchKeepsChunks
<1> HIDE DEF read
<1>7. track'[t] = read
  BY <1>3 DEF FileInv
<1>8. strayed \subseteq Tracks /\ readBack \subseteq Tracks /\ fails \in 0..MaxFails
  BY DEF MediaInv, MediaTypes
<1>9. CASE mode = "writing"
  <2>1. /\ Chunked(flushed, t, log[t], media') /\ (Whole(flushed, log[t]) <=> Whole(track[t], log[t]))
        /\ Whole(flushed, log[t]) /\ t \notin strayed' \cup readBack' => FirstsKnown(flushed.stsc)
    <3>1. CASE buffered
      <4> DEFINE new == WriteChunkBuffer(track[t], Len(media))
      <4>1. /\ Chunked(new, t, log[t], media \o track[t].buffer)
            /\ (Whole(new, log[t]) <=> Whole(track[t], log[t]))
            /\ /\ Whole(track[t], log[t]) /\ FirstsKnown(track[t].stsc)
               /\ track[t].buffer # <<>> => track[t].next = Len(log[t])
               => FirstsKnown(new.stsc)
        BY <1>1, <1>2, BufferFlushed
      <4> HIDE DEF new
      <4>2. flushed = new /\ media' = media \o track[t].buffer
        BY <1>3, <3>1 DEF new
      <4>3. ASSUME Whole(new, log[t]), t \notin strayed' \cup readBack'
            PROVE  FirstsKnown(new.stsc)
        <5>1. Whole(track[t], log[t]) /\ t \notin strayed \cup readBack /\ track[t].buffer = <<>>
          BY <1>3, <3>1, <4>1, <4>3
        <5>2. Len(log[t]) < Span
          BY <5>1 DEF Whole
        <5>3. FirstsKnown(track[t].stsc)
          BY <1>1, <5>1, <5>2 DEF FirstsRight
        <5> QED
          BY <4>1, <5>1, <5>3
      <4> HIDE DEF flushed
      <4> QED
        BY <4>1, <4>2, <4>3
    <3>2. CASE ~buffered
      <4>1. flushed = track[t] /\ media' = media /\ readBack' = readBack /\ strayed' = strayed
        BY <1>3, <3>2
      <4> HIDE DEF flushed
      <4>2. ASSUME Whole(track[t], log[t]), t \notin strayed' \cup readBack'
            PROVE  FirstsKnown(track[t].stsc)
        <5>1. Len(log[t]) < Span /\ t \notin strayed \cup readBack
          BY <4>1, <4>2 DEF Whole
        <5> QED
          BY <1>1, <4>2, <5>1 DEF FirstsRight
      <4> QED
        BY <1>1, <4>1, <4>2
    <3> QED
      BY <3>1, <3>2
  <2> HIDE DEF flushed
  <2>2. Begins(media', media')
    BY <1>4 DEF Begins
  <2>3. /\ read.stsc = flushed.stsc /\ read.chunks = flushed.chunks /\ read.buffer = flushed.buffer
        /\ read.samples = flushed.samples
    BY <1>6 DEF SameChunks
  <2>4. Chunked(read, t, log[t], media') /\ (Whole(read, log[t]) <=> Whole(flushed, log[t]))
    BY <1>1, <1>5, <2>1, <2>2, <2>3, ChunkKept
  <2>5. TrackMedia(t)'
    BY <1>3, <1>7, <1>9, <2>1, <2>3, <2>4 DEF TrackMedia, FirstsRight
  <2>6. readBack \subseteq readBack' /\ readBack' \subseteq Tracks
    BY <1>3, <1>8
  <2> QED
    BY <1>3, <1>4, <1>8, <1>9, <2>5, <2>6, OneTrackWritten
<1>10. CASE mode = "reading"
  <2>1. track[t].buffer = <<>>
    BY <1>1, <1>10 DEF Chunked
  <2>2. flushed = track[t] /\ readBack' = readBack
    BY <1>3, <2>1 DEF WriteChunkBuffer
  <2> HIDE DEF flushed
  <2>3. \A u \in Tracks : SameChunks(track[u], track'[u])
    BY <1>3, <1>6, <2>2, OneOfTracks
  <2>4. \A u \in Tracks : TrackMedia(u)'
    BY <1>3, <1>4, <1>10, <2>3, TrackKept
  <2>5. \A u \in Tracks :
          /\ track'[u].chunks = track[u].chunks
          /\ \A c \in 1..Len(track[u].chunks) : FirstOf(track'[u].stsc, c) = FirstOf(track[u].stsc, c)
    BY <2>3 DEF SameChunks
  <2>6. optimized' /\ Numbered' => InOrder'
    BY <1>3, <2>5, OrderKept
  <2>7. MediaTypes'
    BY <1>3, <1>4, <1>10, <2>2 DEF MediaInv, MediaTypes
  <2>8. mode' # "optimizing"
    BY <1>3, <1>10
  <2> QED
    BY <2>4, <2>6, <2>7, <2>8 DEF MediaInv
<1> QED
  BY <1>3, <1>9, <1>10

\* The buffers of the tracks lie one after the other behind the media data.
LEMMA FlushedBuffers ==
  ASSUME MediaInv, NEW t \in Tracks
  PROVE  LET lens == [u \in Tracks |-> Len(track[u].buffer)]
             pos  == Len(media) + SumOver(lens, 1, t - 1)
         IN /\ FlushedMedia \in Seq(Byte) /\ Begins(media, FlushedMedia)
            /\ \A k \in 1..Len(track[t].buffer) :
                 /\ pos + k <= Len(FlushedMedia) /\ FlushedMedia[pos + k] = track[t].buffer[k]
            /\ track[t].buffer # <<>> => pos \in 0..Len(FlushedMedia)
<1> DEFINE f    == [u \in Tracks |-> track[u].buffer]
           lens == [u \in Tracks |-> Len(track[u].buffer)]
           all  == FlattenSeq(f)
           part == SumOver(lens, 1, t - 1)
           new  == media \o all
<1>1. NumTracks \in Nat \ {0} /\ Tracks = 1..NumTracks /\ t \in 1..NumTracks /\ t \in Int /\ NumTracks \in Int
  BY Mp4Assumption DEF Tracks
<1>2. ASSUME NEW u \in Tracks
      PROVE  track[u].buffer \in Seq(Byte) /\ Len(track[u].buffer) \in Nat
  <2>1. track[u].buffer \in Seq(Byte)
    BY DEF MediaInv, TrackMedia, Chunked
  <2> QED
    BY <2>1, LenProperties
<1>3. media \in Seq(Byte) /\ Len(media) \in Nat
  BY MediaBegins
<1>4. f \in [1..NumTracks -> Seq(Byte)]
  BY <1>1, <1>2
<1>5. \A i \in 1..NumTracks : lens[i] = Len(f[i])
  BY <1>1
<1>6. \A u \in 1..NumTracks : lens[u] \in Nat
  BY <1>1, <1>2
<1>7. lens[t] = Len(track[t].buffer) /\ f[t] = track[t].buffer /\ lens[t] \in Nat
  BY <1>2
<1> HIDE DEF f, lens
<1>8. /\ all \in Seq(Byte) /\ Len(all) = SumOver(lens, 1, NumTracks)
      /\ \A k \in 1..Len(f[t]) : all[part + k] = f[t][k]
  <2>1. NumTracks \in Nat \ {0} /\ t \in 1..NumTracks
    BY <1>1
  <2> HIDE DEF all, part
  <2>2. SequencesOf(f, NumTracks, Byte, lens)
    BY <1>4, <1>5 DEF SequencesOf
  <2>3. FlattenSeq(f) \in Seq(Byte) /\ Len(FlattenSeq(f)) = SumOver(lens, 1, NumTracks)
    BY <2>1, <2>2, Flattened
  <2>4. \A i \in 1..NumTracks : HasAt(FlattenSeq(f), SumOver(lens, 1, i - 1), f[i])
    BY <2>1, <2>2, Flattened
  <2>5. HasAt(FlattenSeq(f), SumOver(lens, 1, t - 1), f[t])
    BY <2>1, <2>4
  <2> QED
    BY <2>3, <2>5 DEF all, part, HasAt
<1>9. part \in Nat
  <2>1. t - 1 \in Int /\ \A i \in 1..(t - 1) : lens[i] \in Nat
    BY <1>1, <1>6
  <2> QED
    BY <2>1, SumNat
<1>10. ASSUME NEW k \in 1..Len(track[t].buffer)
       PROVE  part + k \in 1..Len(all)
  <2>1. k \in 1..lens[t] /\ 1 \in Int
    BY <1>7, <1>10
  <2>2. SumOver(lens, 1, t - 1) + k \in 1..SumOver(lens, 1, NumTracks)
    BY <1>1, <1>6, <2>1, ByteWithin
  <2> QED
    BY <1>8, <2>2
<1> HIDE DEF all, part
<1>11. /\ new \in Seq(Byte) /\ Begins(media, new)
       /\ Len(all) \in Nat /\ Len(new) = Len(media) + Len(all)
       /\ \A k \in 1..Len(all) : new[Len(media) + k] = all[k]
  <2>0. media \in Seq(Byte) /\ all \in Seq(Byte)
    BY <1>3, <1>8
  <2>1. /\ Len(all) \in Nat /\ Len(new) = Len(media) + Len(all)
        /\ \A k \in 1..Len(all) : new[Len(media) + k] = all[k]
    BY <2>0, Joined
  <2>2. new \in Seq(Byte) /\ Begins(media, new)
    BY <1>8, MediaBegins
  <2> QED
    BY <2>1, <2>2
<1>12. FlushedMedia = new
  BY DEF FlushedMedia, all, f
<1> HIDE DEF new
<1> DEFINE pos == Len(media) + part
<1>13. pos \in Nat /\ Len(new) \in Nat
  BY <1>3, <1>9, <1>11
<1>14. ASSUME NEW k \in 1..Len(track[t].buffer)
       PROVE  pos + k <= Len(new) /\ new[pos + k] = track[t].buffer[k]
  <2>1. part + k \in 1..Len(all)
    BY <1>10
  <2>2. pos + k = Len(media) + (part + k) /\ pos + k <= Len(new)
    BY <1>3, <1>9, <1>11, <2>1
  <2>3. new[Len(media) + (part + k)] = all[part + k]
    BY <1>11, <2>1
  <2>4. all[part + k] = track[t].buffer[k]
    BY <1>7, <1>8
  <2> QED
    BY <2>2, <2>3, <2>4
<1>15. track[t].buffer # <<>> => pos \in 0..Len(new)
  <2> SUFFICES ASSUME track[t].buffer # <<>>
               PROVE  pos \in 0..Len(new)
    OBVIOUS
  <2>1. Len(track[t].buffer) \in Nat /\ Len(track[t].buffer) # 0
    BY <1>2, EmptySeq
  <2>2. 1 \in 1..Len(track[t].buffer)
    BY <2>1
  <2>3. pos + 1 <= Len(new)
    BY <1>14, <2>2
  <2> HIDE DEF pos
  <2> QED
    BY <1>13, <2>3
<1> QED
  BY <1>11, <1>12, <1>14, <1>15 DEF pos, part, lens

\* MP4Close of a file that was written.
LEMMA ClosedMedia ==
  ASSUME FileInv, MediaInv, Close
  PROVE  MediaInv'
<1>1. /\ mode = "writing" /\ mode' = "closed" /\ media' = FlushedMedia /\ readBack' = {}
      /\ track' = [t \in Tracks |-> Loaded(FlushAll[t])]
      /\ UNCHANGED <<log, strayed, copy, optimized, fails>>
  BY DEF Close
<1>2. MediaTypes' /\ ~optimized'
  <2>1. \E t \in Tracks : TRUE
    BY Mp4Assumption DEF Tracks
  <2>2. media' \in Seq(Byte)
    BY <1>1, <2>1, FlushedBuffers
  <2>3. MediaTypes
    BY DEF MediaInv
  <2> QED
    BY <1>1, <2>2, <2>3 DEF MediaTypes
<1>3. ASSUME NEW t \in Tracks
      PROVE  TrackMedia(t)'
  <2> DEFINE pos == Len(media) + SumOver([u \in Tracks |-> Len(track[u].buffer)], 1, t - 1)
             new == WriteChunkBuffer(track[t], pos)
  <2>1. /\ IsTrack(track[t]) /\ log[t] \in Seq(Sample)
        /\ Chunked(track[t], t, log[t], media)
    BY DEF FileInv, MediaInv, TrackMedia
  <2>2. /\ media' \in Seq(Byte) /\ Begins(media, media')
        /\ \A k \in 1..Len(track[t].buffer) :
             /\ pos + k <= Len(media') /\ media'[pos + k] = track[t].buffer[k]
        /\ track[t].buffer # <<>> => pos \in 0..Len(media')
    BY <1>1, FlushedBuffers
  <2>3. track'[t] = Loaded(new)
    BY <1>1 DEF FlushAll
  <2> HIDE DEF pos
  <2>4. IsTrack(new)
    BY <2>1, WriteChunkBufferSame DEF Same
  <2>5. Chunked(new, t, log[t], media') /\ new.buffer = <<>>
    <3>1. CASE track[t].buffer = <<>>
      <4>1. new = track[t]
        BY <3>1 DEF WriteChunkBuffer
      <4> HIDE DEF new
      <4>2. Chunked(track[t], t, log[t], media')
        BY <2>1, <2>2, ChunkKept
      <4> QED
        BY <3>1, <4>1, <4>2
    <3>2. CASE track[t].buffer # <<>>
      <4>1. Chunked(new, t, log[t], media')
        BY <2>1, <2>2, <3>2, ChunkWritten
      <4>2. new.buffer = <<>>
        BY <2>1, <3>2, WrittenFields
      <4> QED
        BY <4>1, <4>2
    <3> QED
      BY <3>1, <3>2
  <2> HIDE DEF new
  <2>6. Len(media') \in Nat
    BY <2>2 DEF Begins
  <2>7. /\ Chunked(Loaded(new), t, log[t], media') /\ Loaded(new).samples = 0
        /\ Len(log[t]) < Span => FirstsKnown(Loaded(new).stsc)
    BY <2>1, <2>4, <2>5, <2>6, ChunkLoaded
  <2> QED
    BY <1>1, <2>3, <2>7 DEF TrackMedia, FirstsRight
<1> QED
  BY <1>1, <1>2, <1>3 DEF MediaInv

(***************************************************************************)
(* MP4Optimize.                                                            *)
(***************************************************************************)

LEMMA DivMonotone ==
  ASSUME NEW a \in Nat, NEW b \in Nat, NEW d \in Nat \ {0}, a <= b
  PROVE  a \div d \in Nat /\ b \div d \in Nat /\ a \div d <= b \div d
<1> DEFINE p == a \div d
           q == b \div d
           r == a % d
           s == b % d
<1>1. p \in Int /\ q \in Int /\ r \in 0..(d - 1) /\ s \in 0..(d - 1) /\ a = d * p + r /\ b = d * q + s
  OBVIOUS
<1> HIDE DEF p, q, r, s
<1>2. p >= 0 /\ q >= 0
  BY <1>1, SMTT(30)
<1>3. p <= q
  <2> SUFFICES ASSUME q + 1 <= p
               PROVE  FALSE
    BY <1>1
  <2>1. d * (q + 1) <= d * p
    BY <1>1, SMTT(30)
  <2>2. d * (q + 1) = d * q + d
    BY <1>1
  <2> QED
    BY <1>1, <2>1, <2>2
<1> QED
  BY <1>1, <1>2, <1>3 DEF p, q

\* A quotient of doubles is the quotient.
LEMMA DivByDouble ==
  ASSUME NEW a \in Nat, NEW d \in Nat \ {0}
  PROVE  (2 * a) \div (2 * d) = a \div d
<1> DEFINE q == a \div d
           r == a % d
           p == (2 * a) \div (2 * d)
           s == (2 * a) % (2 * d)
<1>1. q \in Int /\ r \in 0..(d - 1) /\ a = d * q + r
  OBVIOUS
<1>2. p \in Int /\ s \in 0..(2 * d - 1) /\ 2 * a = (2 * d) * p + s
  <2> DEFINE e == 2 * d
             b == 2 * a
  <2>1. e \in Nat \ {0} /\ b \in Nat
    OBVIOUS
  <2> HIDE DEF e, b
  <2>2. b \div e \in Int /\ b % e \in 0..(e - 1) /\ b = e * (b \div e) + (b % e)
    BY <2>1
  <2> QED
    BY <2>2 DEF e, b
<1> HIDE DEF p, q, r, s
<1>3. (2 * d) * p = 2 * (d * p) /\ d * p \in Int /\ d * q \in Int
  BY <1>1, <1>2, SMTT(30)
<1>4. p < q + 1
  <2> SUFFICES ASSUME q + 1 <= p
               PROVE  FALSE
    BY <1>1, <1>2
  <2>1. d * (q + 1) <= d * p
    BY <1>1, <1>2, SMTT(30)
  <2>2. d * (q + 1) = d * q + d
    BY <1>1
  <2> QED
    BY <1>1, <1>2, <1>3, <2>1, <2>2
<1>5. q < p + 1
  <2> SUFFICES ASSUME p + 1 <= q
               PROVE  FALSE
    BY <1>1, <1>2
  <2>1. d * (p + 1) <= d * q
    BY <1>1, <1>2, SMTT(30)
  <2>2. d * (p + 1) = d * p + d
    BY <1>2
  <2> QED
    BY <1>1, <1>2, <1>3, <2>1, <2>2
<1> QED
  BY <1>1, <1>2, <1>4, <1>5 DEF p, q

LEMMA TimesMonotone ==
  ASSUME NEW a \in Nat, NEW b \in Nat, NEW d \in Nat, a <= b
  PROVE  a * d \in Nat /\ b * d \in Nat /\ a * d <= b * d
<1> DEFINE e == b - a
<1>1. e \in Nat /\ b = a + e
  OBVIOUS
<1> HIDE DEF e
<1>2. e * d \in Nat /\ a * d \in Nat
  BY <1>1, SMTT(30)
<1>3. (a + e) * d = a * d + e * d
  BY <1>1, SMTT(30)
<1> QED
  BY <1>1, <1>2, <1>3

\* What fits the integers of MP4ConvertTime still fits them when it is less.
LEMMA SmallerSuffices ==
  ASSUME NEW a \in Nat, NEW b \in Nat, NEW d \in Nat, a <= b, IntegersSuffice(b, d)
  PROVE  IntegersSuffice(a, d)
<1>1. PICK i \in 0..64 : b <= 2^i /\ \E j \in 0..(64 - i) : d <= 2^j
  BY DEF IntegersSuffice
<1>2. 2^i \in Int
  BY <1>1
<1>3. a <= 2^i
  BY <1>1, <1>2
<1> QED
  BY <1>1, <1>3 DEF IntegersSuffice

\* MP4ConvertTime keeps the order of times, also when the later one is rounded.
LEMMA ConvertMonotone ==
  ASSUME NEW a \in Nat, NEW b \in Nat, NEW w \in Nat \ {0}, NEW d \in Nat, a <= b
  PROVE  /\ MP4ConvertTime(a, w, d) \in Nat /\ MP4ConvertTime(b, w, d) \in Nat
         /\ MP4ConvertTime(a, w, d) <= MP4ConvertTime(b, w, d)
<1> DEFINE x == a * d
           y == b * d
<1>1. x \in Nat /\ y \in Nat /\ x <= y
  BY TimesMonotone
<1>2. 2 * a * d = 2 * x /\ 2 * b * d = 2 * y
  BY SMTT(30)
<1>3. /\ MP4ConvertTime(a, w, d) = IF IntegersSuffice(a, d) THEN x \div w ELSE (2 * x + w) \div (2 * w)
      /\ MP4ConvertTime(b, w, d) = IF IntegersSuffice(b, d) THEN y \div w ELSE (2 * y + w) \div (2 * w)
  BY <1>2 DEF MP4ConvertTime
<1> HIDE DEF x, y
<1>4. x \div w \in Nat /\ y \div w \in Nat /\ x \div w <= y \div w
  BY <1>1, DivMonotone
<1>5. /\ 2 * w \in Nat \ {0} /\ 2 * x + w \in Nat /\ 2 * y + w \in Nat /\ 2 * x + w <= 2 * y + w
      /\ 2 * y \in Nat /\ 2 * y <= 2 * y + w
  BY <1>1
<1>6. /\ (2 * x + w) \div (2 * w) \in Nat /\ (2 * y + w) \div (2 * w) \in Nat
      /\ (2 * x + w) \div (2 * w) <= (2 * y + w) \div (2 * w)
  BY <1>5, DivMonotone
<1>7. y \div w <= (2 * y + w) \div (2 * w)
  <2>1. (2 * y) \div (2 * w) <= (2 * y + w) \div (2 * w)
    BY <1>5, DivMonotone
  <2>2. (2 * y) \div (2 * w) = y \div w
    BY <1>1, DivByDouble
  <2> QED
    BY <2>1, <2>2
<1>8. IntegersSuffice(b, d) => IntegersSuffice(a, d)
  BY SmallerSuffices
<1> QED
  BY <1>3, <1>4, <1>6, <1>7, <1>8

\* A sample does not start before those that come before it.
LEMMA LoggedInOrder ==
  ASSUME FileInv, NEW t \in Tracks, NEW i \in Nat \ {0}, NEW j \in Nat, i <= j, j <= Len(log[t]) + 1
  PROVE  /\ LoggedTime(t, i) \in Nat /\ LoggedTime(t, j) \in Nat
         /\ LoggedTime(t, i) <= LoggedTime(t, j)
<1> DEFINE v == Durations(log[t])
           m == i - 1
           n == j - 1
<1>1. log[t] \in Seq(Sample) /\ Len(log[t]) \in Nat
  BY TrackOfFile
<1>2. \A k \in 1..Len(log[t]) : v[k] \in Nat
  BY <1>1, LoggedDurations
<1> HIDE DEF v
<1>3. m \in Int /\ n \in Int /\ m <= n /\ \A k \in 1..n : v[k] \in Nat
  BY <1>1, <1>2
<1>4. \A k \in 1..m : v[k] \in Nat
  BY <1>3
<1>5. LoggedTime(t, i) = SumOver(v, 1, m) /\ LoggedTime(t, j) = SumOver(v, 1, n)
  BY DEF LoggedTime, v
<1> HIDE DEF m, n
<1>6. SumOver(v, 1, m) \in Nat /\ SumOver(v, 1, n) \in Nat
  BY <1>3, <1>4, SumNat
<1>7. SumOver(v, 1, m) <= SumOver(v, 1, n)
  BY <1>3, SumPart
<1> QED
  BY <1>5, <1>6, <1>7

\* A chunk does not start before those that come before it in its track.
LEMMA ChunksInOrder ==
  ASSUME FileInv, MediaInv, NEW t \in Tracks,
         NEW c \in 1..Len(track[t].chunks), NEW d \in 1..Len(track[t].chunks), c <= d
  PROVE  ChunkStart(t, c) \in Nat /\ ChunkStart(t, d) \in Nat /\ ChunkStart(t, c) <= ChunkStart(t, d)
<1> DEFINE tr == track[t]
           i  == FirstOf(tr.stsc, c)
           j  == FirstOf(tr.stsc, d)
           a  == LoggedTime(t, i)
           b  == LoggedTime(t, j)
<1>1. /\ Chunked(tr, t, log[t], media) /\ Len(media) \in Nat /\ log[t] \in Seq(Sample)
      /\ tr.samples \in Nat
  BY MediaBegins DEF FileInv, MediaInv, TrackMedia, IsTrack
<1> HIDE DEF tr
<1>2. /\ Len(tr.chunks) \in Nat /\ Stored(tr) \in Nat /\ Stored(tr) + tr.samples <= Len(log[t])
      /\ \A k \in 1..Len(tr.chunks) :
           /\ FirstOf(tr.stsc, k) \in Nat \ {0} /\ FirstOf(tr.stsc, k + 1) \in Nat
           /\ FirstOf(tr.stsc, k) < FirstOf(tr.stsc, k + 1)
           /\ FirstOf(tr.stsc, k + 1) - 1 <= Stored(tr)
  BY <1>1, ChunkedFields
<1>3. c \in 1..Len(tr.chunks) /\ d \in 1..Len(tr.chunks)
  BY DEF tr
<1>4. i \in Nat \ {0} /\ j \in Nat \ {0}
  BY <1>2, <1>3
<1>5. j <= Len(log[t]) + 1
  <2>1. Len(log[t]) \in Nat
    BY <1>1, LenProperties
  <2>2. j < FirstOf(tr.stsc, d + 1) /\ FirstOf(tr.stsc, d + 1) \in Nat /\ FirstOf(tr.stsc, d + 1) - 1 <= Stored(tr)
    BY <1>2, <1>3
  <2> DEFINE x == FirstOf(tr.stsc, d + 1)
  <2> HIDE DEF j, x
  <2>3. j < x /\ x \in Nat /\ x - 1 <= Stored(tr)
    BY <2>2 DEF x
  <2> QED
    BY <1>1, <1>2, <1>4, <2>1, <2>3
<1>6. i <= j
  <2>1. IsStsc(tr.stsc, Len(tr.chunks))
    BY <1>1 DEF Chunked
  <2>2. c \in 1..(Len(tr.chunks) + 1) /\ d \in 1..(Len(tr.chunks) + 1)
    BY <1>2, <1>3, SMTT(30)
  <2>3. FirstOf(tr.stsc, d) >= FirstOf(tr.stsc, c) + (d - c)
    BY <2>1, <2>2, FirstMonotone
  <2> HIDE DEF i, j
  <2>4. j >= i + (d - c) /\ d - c >= 0 /\ d - c \in Int
    BY <1>2, <1>3, <2>3 DEF i, j
  <2> QED
    BY <1>4, <2>4
<1> HIDE DEF i, j
<1>7. a \in Nat /\ b \in Nat /\ a <= b
  BY <1>4, <1>5, <1>6, LoggedInOrder
<1> HIDE DEF a, b
<1>8. MovieScale \in Nat /\ TimeScale[t] \in Nat \ {0}
  BY Mp4Assumption, FileAssumption
<1>9. ChunkStart(t, c) = MP4ConvertTime(a, TimeScale[t], MovieScale)
      /\ ChunkStart(t, d) = MP4ConvertTime(b, TimeScale[t], MovieScale)
  BY DEF ChunkStart, a, b, i, j, tr
<1> DEFINE w == TimeScale[t]
<1>10. w \in Nat \ {0} /\ MovieScale \in Nat
  BY <1>8
<1> HIDE DEF w
<1>11. /\ MP4ConvertTime(a, w, MovieScale) \in Nat /\ MP4ConvertTime(b, w, MovieScale) \in Nat
       /\ MP4ConvertTime(a, w, MovieScale) <= MP4ConvertTime(b, w, MovieScale)
  BY <1>7, <1>10, ConvertMonotone
<1> QED
  BY <1>9, <1>11 DEF w

\* Once the file is closed the tables give a chunk the time its first sample
\* was written with.
LEMMA ChunkTimed ==
  ASSUME FileInv, MediaInv, NEW t \in Tracks, mode # "writing", Numbered, FitsSpan(t),
         NEW c \in 1..Len(track[t].chunks)
  PROVE  ChunkMovieTime(t, c) = ChunkStart(t, c)
<1> DEFINE tr == track[t]
           i  == FirstOf(tr.stsc, c)
           j  == FirstOf(tr.stsc, c + 1)
<1>1. /\ Chunked(tr, t, log[t], media) /\ Len(media) \in Nat /\ log[t] \in Seq(Sample)
      /\ tr.samples \in Nat /\ FirstsRight(t) /\ Len(log[t]) < Span
  BY MediaBegins DEF FileInv, MediaInv, TrackMedia, IsTrack, Numbered
<1>2. FirstsKnown(tr.stsc)
  BY <1>1 DEF FirstsRight
<1>3. IsStsc(tr.stsc, Len(tr.chunks))
  BY <1>1 DEF Chunked
<1> HIDE DEF tr
<1>4. /\ Stored(tr) \in Nat /\ Stored(tr) + tr.samples <= Len(log[t])
      /\ \A k \in 1..Len(tr.chunks) :
           /\ FirstOf(tr.stsc, k) \in Nat \ {0} /\ FirstOf(tr.stsc, k + 1) \in Nat
           /\ FirstOf(tr.stsc, k) < FirstOf(tr.stsc, k + 1)
           /\ FirstOf(tr.stsc, k + 1) - 1 <= Stored(tr)
  BY <1>1, ChunkedFields
<1>5. c \in 1..Len(tr.chunks)
  BY DEF tr
<1>6. ChunkSamples(tr, c) = i..(j - 1)
  BY <1>2, <1>3, <1>5, SamplesOfChunk
<1>7. i \in Nat \ {0} /\ j \in Nat /\ i < j /\ j - 1 <= Stored(tr)
  BY <1>4, <1>5
<1> HIDE DEF i, j
<1>8. i \in 1..Len(log[t])
  <2>1. Len(log[t]) \in Nat
    BY <1>1, LenProperties
  <2> QED
    BY <1>1, <1>4, <1>7, <2>1
<1>9. Min(ChunkSamples(tr, c)) = i
  <2>1. i \in i..(j - 1) /\ i..(j - 1) \subseteq Int /\ \A k \in i..(j - 1) : i <= k
    BY <1>7
  <2> QED
    BY <1>6, <2>1, MinIs
<1>10. GetSampleTimes(track[t], i).start = LoggedTime(t, i)
  <2>1. GetSampleTimes(track[t], i) = [start |-> LoggedTime(t, i), duration |-> log[t][i].duration]
    BY <1>8, SearchOfFile
  <2> QED
    BY <2>1
<1>11. GetChunkTime(track[t], c) = LoggedTime(t, i)
  BY <1>9, <1>10 DEF GetChunkTime, tr
<1> QED
  BY <1>11 DEF ChunkMovieTime, ChunkStart, i, tr

LEMMA PieceTyped ==
  ASSUME MediaInv, NEW from \in Nat, NEW n \in Nat
  PROVE  /\ Piece(from, n) \in Seq(Byte) /\ Len(Piece(from, n)) = n
         /\ \A k \in 1..n : from + k <= Len(media) => Piece(from, n)[k] = media[from + k]
<1>1. media \in Seq(Byte) /\ Len(media) \in Nat
  BY MediaBegins
<1>2. <<0, 0>> \in Byte
  BY DEF Byte
<1> HIDE DEF Byte
<1>3. \A k \in 1..n : from + k <= Len(media) => media[from + k] \in Byte
  <2> SUFFICES ASSUME NEW k \in 1..n, from + k <= Len(media)
               PROVE  media[from + k] \in Byte
    OBVIOUS
  <2>1. from + k \in 1..Len(media)
    BY <1>1
  <2> QED
    BY <1>1, <2>1, ElementOfSeq
<1>4. Piece(from, n) \in [1..n -> Byte]
  BY <1>2, <1>3 DEF Piece
<1>5. Piece(from, n) \in Seq(Byte) /\ Len(Piece(from, n)) = n
  BY <1>4, LenProperties, SeqDef
<1>6. \A k \in 1..n : from + k <= Len(media) => Piece(from, n)[k] = media[from + k]
  BY DEF Piece
<1> QED
  BY <1>5, <1>6

\* What MP4Optimize knows of its copy after a chunk.
LEMMA RewrittenFields ==
  ASSUME FileInv, MediaInv, NEW t \in Tracks, RewriteChunk(t)
  PROVE  LET c     == copy.next[t]
             piece == Piece(track[t].chunks[c], GetChunkSize(track[t], c))
         IN /\ CopyInv /\ copy.media \in Seq(Byte) /\ piece \in Seq(Byte)
            /\ c \in 1..Len(track[t].chunks) /\ GetChunkSize(track[t], c) \in Nat
            /\ track[t].chunks[c] \in Nat
            /\ copy'.media = copy.media \o piece
            /\ copy'.next[t] = c + 1 /\ \A u \in Tracks \ {t} : copy'.next[u] = copy.next[u]
            /\ \A u \in Tracks : /\ copy.next[u] \in Nat \ {0} /\ Len(copy'.chunks[u]) = Len(copy.chunks[u])
                                 /\ copy.chunks[u] \in Seq(Nat)
                                 /\ Len(copy.chunks[u]) = Len(track[u].chunks)
                                 /\ Len(track[u].chunks) \in Nat
            /\ copy'.chunks[t][c] = Len(copy.media)
            /\ \A u \in Tracks : \A k \in 1..Len(copy.chunks[u]) :
                 ~ (u = t /\ k = c) => copy'.chunks[u][k] = copy.chunks[u][k]
            /\ copy' \in [chunks : [Tracks -> Seq(Nat)], media : Seq(Byte), next : [Tracks -> Nat \ {0}]]
<1> DEFINE c     == copy.next[t]
           size  == GetChunkSize(track[t], c)
           from  == track[t].chunks[c]
           piece == Piece(from, size)
           row   == [copy.chunks[t] EXCEPT ![c] = Len(copy.media)]
<1>1. /\ mode = "optimizing" /\ t \in Pending /\ ChunkIsSized(track[t], c)
      /\ copy' = [copy EXCEPT !.chunks[t][c] = Len(copy.media), !.media = copy.media \o piece,
                              !.next[t] = c + 1]
  BY DEF RewriteChunk
<1>2. CopyInv
  BY <1>1 DEF MediaInv
<1>3. /\ copy \in [chunks : [Tracks -> Seq(Nat)], media : Seq(Byte), next : [Tracks -> Nat \ {0}]]
      /\ \A u \in Tracks : Len(copy.chunks[u]) = Len(track[u].chunks)
  BY <1>2 DEF CopyInv, Copied
<1>4. \A u \in Tracks : /\ IsTrack(track[u]) /\ IsStsc(track[u].stsc, Len(track[u].chunks))
                        /\ track[u].chunks \in Seq(0..Len(media)) /\ Len(media) \in Nat
  BY MediaBegins DEF FileInv, MediaInv, TrackMedia, Chunked
<1>5. \A u \in Tracks : Len(track[u].chunks) \in Nat
  BY <1>4, LenProperties
<1>6. \A u \in Tracks : copy.next[u] \in Nat \ {0} /\ copy.chunks[u] \in Seq(Nat)
  BY <1>3
<1>7. c \in 1..Len(track[t].chunks)
  BY <1>1, <1>5, <1>6 DEF Pending
<1>8. size \in Nat
  BY <1>1, <1>4, <1>7, ChunkSizeNat
<1>9. from \in Nat
  <2>1. from \in 0..Len(media)
    BY <1>4, <1>7, ElementOfSeq
  <2> QED
    BY <1>4, <2>1
<1>10. piece \in Seq(Byte)
  <2> HIDE DEF size, from
  <2> QED
    BY <1>8, <1>9, PieceTyped
<1> HIDE DEF size, from, piece
<1>11. copy.media \in Seq(Byte) /\ copy.media \o piece \in Seq(Byte) /\ Len(copy.media) \in Nat
  <2>1. copy.media \in Seq(Byte)
    BY <1>3
  <2>2. Len(copy.media) \in Nat
    BY <2>1, LenProperties
  <2> QED
    BY <1>10, <2>1, <2>2, ConcatProperties
<1>12. /\ copy'.chunks = [copy.chunks EXCEPT ![t] = row]
       /\ copy'.media = copy.media \o piece
       /\ copy'.next = [copy.next EXCEPT ![t] = c + 1]
       /\ copy' = [chunks |-> copy'.chunks, media |-> copy'.media, next |-> copy'.next]
  BY <1>1, <1>3
<1>13. /\ row \in Seq(Nat) /\ Len(row) = Len(copy.chunks[t]) /\ row[c] = Len(copy.media)
       /\ \A k \in 1..Len(copy.chunks[t]) : k # c => row[k] = copy.chunks[t][k]
  <2> DEFINE old == copy.chunks[t]
  <2>1. old \in Seq(Nat) /\ c \in 1..Len(old) /\ Len(copy.media) \in Nat
    BY <1>3, <1>6, <1>7, <1>11
  <2> HIDE DEF old
  <2>2. [old EXCEPT ![c] = Len(copy.media)] \in Seq(Nat)
    BY <2>1, ExceptSeq
  <2>3. Len([old EXCEPT ![c] = Len(copy.media)]) = Len(old)
    BY <2>1, ExceptSeq
  <2>4. /\ [old EXCEPT ![c] = Len(copy.media)][c] = Len(copy.media)
        /\ \A k \in 1..Len(old) : k # c => [old EXCEPT ![c] = Len(copy.media)][k] = old[k]
    BY <2>1, LenProperties
  <2> QED
    BY <2>2, <2>3, <2>4 DEF old
<1> HIDE DEF row
<1>14. /\ copy'.chunks[t] = row /\ \A u \in Tracks \ {t} : copy'.chunks[u] = copy.chunks[u]
       /\ copy'.next[t] = c + 1 /\ \A u \in Tracks \ {t} : copy'.next[u] = copy.next[u]
  BY <1>3, <1>12
<1>15. copy' \in [chunks : [Tracks -> Seq(Nat)], media : Seq(Byte), next : [Tracks -> Nat \ {0}]]
  <2>1. copy'.chunks \in [Tracks -> Seq(Nat)]
    BY <1>3, <1>12, <1>13
  <2>2. copy'.next \in [Tracks -> Nat \ {0}]
    <3>1. c + 1 \in Nat \ {0}
      BY <1>6
    <3> QED
      BY <1>3, <1>12, <3>1
  <2> QED
    BY <1>11, <1>12, <2>1, <2>2
<1>16. \A u \in Tracks : Len(copy'.chunks[u]) = Len(copy.chunks[u])
  BY <1>13, <1>14
<1>17. \A u \in Tracks : \A k \in 1..Len(copy.chunks[u]) :
         ~ (u = t /\ k = c) => copy'.chunks[u][k] = copy.chunks[u][k]
  BY <1>13, <1>14
<1>18. copy'.chunks[t][c] = Len(copy.media)
  BY <1>13, <1>14
<1> QED
  BY <1>2, <1>3, <1>5, <1>6, <1>7, <1>8, <1>9, <1>10, <1>11, <1>12, <1>14, <1>15, <1>16, <1>17, <1>18
     DEF size, from, piece

\* A chunk of the file has the bytes that MP4Optimize copies.
LEMMA PieceLaid ==
  ASSUME FileInv, MediaInv, NEW t \in Tracks, mode = "optimizing", Whole(track[t], log[t]),
         NEW c \in 1..Len(track[t].chunks), GetChunkSize(track[t], c) \in Nat,
         NEW cm \in Seq(Byte)
  PROVE  LET a == FirstOf(track[t].stsc, c)
             b == FirstOf(track[t].stsc, c + 1) - 1
         IN Laid(BytesOf(log[t]), t, cm \o Piece(track[t].chunks[c], GetChunkSize(track[t], c)),
                 Len(cm), a, b)
<1> DEFINE tr    == track[t]
           a     == FirstOf(tr.stsc, c)
           b     == FirstOf(tr.stsc, c + 1) - 1
           size  == GetChunkSize(tr, c)
           from  == tr.chunks[c]
           piece == Piece(from, size)
           all   == cm \o piece
           bytes == BytesOf(log[t])
<1>1. /\ IsTrack(tr) /\ log[t] \in Seq(Sample) /\ Sized(tr, log[t]) /\ tr.samples \in Nat
      /\ Chunked(tr, t, log[t], media) /\ FirstsRight(t)
      /\ media \in Seq(Byte) /\ Len(media) \in Nat /\ Len(log[t]) < Span
  BY MediaBegins DEF FileInv, MediaInv, TrackMedia, Recorded, IsTrack, Whole
<1>2. FirstsKnown(tr.stsc) /\ IsStsc(tr.stsc, Len(tr.chunks))
  BY <1>1 DEF FirstsRight, Chunked
<1>3. Laid(bytes, t, media, from, a, b)
  BY <1>1 DEF Chunked
<1>4. c \in 1..Len(tr.chunks) /\ Whole(tr, log[t]) /\ size \in Nat
  OBVIOUS
<1> HIDE DEF tr, size
<1>5. /\ Len(tr.chunks) \in Nat
      /\ \A k \in 1..Len(tr.chunks) : tr.chunks[k] \in 0..Len(media) /\ tr.chunks[k] \in Nat
      /\ Stored(tr) \in Nat /\ Stored(tr) + tr.samples <= Len(log[t])
      /\ \A k \in 1..Len(tr.chunks) :
           /\ FirstOf(tr.stsc, k) \in Nat \ {0} /\ FirstOf(tr.stsc, k + 1) \in Nat
           /\ FirstOf(tr.stsc, k) < FirstOf(tr.stsc, k + 1)
           /\ FirstOf(tr.stsc, k + 1) - 1 <= Stored(tr)
  BY <1>1, ChunkedFields
<1>6. a \in Nat \ {0} /\ b \in Int /\ b <= Len(log[t]) /\ from \in Nat
  <2>1. FirstOf(tr.stsc, c + 1) \in Nat /\ b <= Stored(tr)
    BY <1>4, <1>5
  <2>2. Len(log[t]) \in Nat /\ b \in Int
    BY <1>1, <2>1, LenProperties
  <2> HIDE DEF b
  <2>3. b <= Len(log[t])
    BY <1>1, <1>5, <2>1, <2>2
  <2> QED
    BY <1>4, <1>5, <2>2, <2>3
<1>7. size = SumOver(bytes, a, b)
  <2>1. FirstOf(tr.stsc, c + 1) - 1 <= Len(log[t])
    BY <1>6
  <2>2. GetChunkSize(tr, c) =
          SumOver(BytesOf(log[t]), FirstOf(tr.stsc, c), FirstOf(tr.stsc, c + 1) - 1)
    BY <1>1, <1>2, <1>4, <2>1, ChunkSizeKnown
  <2> QED
    BY <2>2 DEF size
<1>8. \A i \in a..b : bytes[i] \in Nat
  <2>1. Len(log[t]) \in Nat /\ \A i \in 1..Len(log[t]) : bytes[i] \in Nat
    BY <1>1, BytesTyped
  <2> HIDE DEF a, b, bytes
  <2> QED
    BY <1>6, <2>1
<1> HIDE DEF a, b, bytes, from
<1>9. /\ piece \in Seq(Byte) /\ Len(piece) = size
      /\ \A k \in 1..size : from + k <= Len(media) => piece[k] = media[from + k]
  BY <1>4, <1>6, PieceTyped
<1> HIDE DEF piece
<1>10. /\ Len(cm) \in Nat /\ Len(all) = Len(cm) + Len(piece)
       /\ \A k \in 1..Len(piece) : all[Len(cm) + k] = piece[k]
  <2>1. cm \in Seq(Byte) /\ piece \in Seq(Byte)
    BY <1>9
  <2> QED
    BY <2>1, Joined
<1> HIDE DEF all
<1>11. \A j \in 1..SumOver(bytes, a, b) : from + j <= Len(media) =>
         Len(cm) + j <= Len(all) /\ all[Len(cm) + j] = media[from + j]
  BY <1>4, <1>7, <1>9, <1>10
<1>12. a \in Int /\ b \in Int /\ Len(cm) \in Nat /\ from \in Nat
  BY <1>6, <1>10
<1>13. Laid(bytes, t, all, Len(cm), a, b)
  <2>1. \A i \in a..b : bytes[i] = bytes[i]
    OBVIOUS
  <2> QED
    BY <1>3, <1>8, <1>11, <1>12, <2>1, LaidMoved
<1> QED
  BY <1>13 DEF all, piece, from, size, a, b, bytes, tr

\* Chunks that were copied stay when others are copied behind them.
LEMMA CopyStays ==
  ASSUME FileInv, MediaInv, NEW t \in Tracks, Whole(track[t], log[t]),
         NEW c \in 1..Len(track[t].chunks), NEW pos \in Nat,
         NEW cm \in Seq(Byte), NEW more \in Seq(Byte),
         Laid(BytesOf(log[t]), t, cm, pos,
              FirstOf(track[t].stsc, c), FirstOf(track[t].stsc, c + 1) - 1)
  PROVE  Laid(BytesOf(log[t]), t, cm \o more, pos,
              FirstOf(track[t].stsc, c), FirstOf(track[t].stsc, c + 1) - 1)
<1> DEFINE tr    == track[t]
           a     == FirstOf(tr.stsc, c)
           b     == FirstOf(tr.stsc, c + 1) - 1
           all   == cm \o more
           bytes == BytesOf(log[t])
<1>1. /\ log[t] \in Seq(Sample) /\ tr.samples \in Nat /\ Len(media) \in Nat
      /\ Chunked(tr, t, log[t], media)
  BY MediaBegins DEF FileInv, MediaInv, TrackMedia, IsTrack
<1>2. c \in 1..Len(tr.chunks) /\ Laid(bytes, t, cm, pos, a, b)
  OBVIOUS
<1> HIDE DEF tr
<1>3. /\ Stored(tr) \in Nat /\ Stored(tr) + tr.samples <= Len(log[t])
      /\ \A k \in 1..Len(tr.chunks) :
           /\ FirstOf(tr.stsc, k) \in Nat \ {0} /\ FirstOf(tr.stsc, k + 1) \in Nat
           /\ FirstOf(tr.stsc, k) < FirstOf(tr.stsc, k + 1)
           /\ FirstOf(tr.stsc, k + 1) - 1 <= Stored(tr)
  BY <1>1, ChunkedFields
<1>4. a \in Nat \ {0} /\ b \in Int /\ b <= Len(log[t])
  <2>1. FirstOf(tr.stsc, c + 1) \in Nat /\ b <= Stored(tr)
    BY <1>2, <1>3
  <2>2. Len(log[t]) \in Nat /\ b \in Int
    BY <1>1, <2>1, LenProperties
  <2> HIDE DEF b
  <2>3. b <= Len(log[t])
    BY <1>1, <1>3, <2>1, <2>2, SMTT(30)
  <2> QED
    BY <1>2, <1>3, <2>2, <2>3
<1>5. \A i \in a..b : bytes[i] \in Nat
  <2>1. Len(log[t]) \in Nat /\ \A i \in 1..Len(log[t]) : bytes[i] \in Nat
    BY <1>1, BytesTyped
  <2> HIDE DEF a, b, bytes
  <2> QED
    BY <1>4, <2>1
<1> HIDE DEF a, b, bytes
<1>6. /\ Len(cm) \in Nat /\ Len(more) \in Nat /\ Len(all) = Len(cm) + Len(more)
      /\ \A k \in 1..Len(cm) : all[k] = cm[k]
  BY Joined
<1> HIDE DEF all
<1>7. ASSUME NEW j \in 1..SumOver(bytes, a, b), pos + j <= Len(cm)
      PROVE  pos + j <= Len(all) /\ all[pos + j] = cm[pos + j]
  <2>1. j \in Int /\ j >= 1
    BY <1>7
  <2>2. pos + j \in 1..Len(cm)
    BY <1>6, <1>7, <2>1
  <2> QED
    BY <1>6, <2>2
<1>8. a \in Int /\ b \in Int
  BY <1>4
<1>9. Laid(bytes, t, all, pos, a, b)
  <2>1. \A i \in a..b : bytes[i] = bytes[i]
    OBVIOUS
  <2> QED
    BY <1>2, <1>5, <1>7, <1>8, <2>1, LaidMoved
<1> QED
  BY <1>9 DEF all, a, b, bytes, tr

\* The chunks that were copied, and the next one, have the bytes of their samples.
LEMMA RewrittenCopied ==
  ASSUME FileInv, MediaInv, NEW t \in Tracks, RewriteChunk(t), NEW u \in Tracks
  PROVE  Copied(u)'
<1> DEFINE c     == copy.next[t]
           cm    == copy.media
           piece == Piece(track[t].chunks[c], GetChunkSize(track[t], c))
<1>1. /\ CopyInv /\ cm \in Seq(Byte) /\ piece \in Seq(Byte)
      /\ c \in 1..Len(track[t].chunks) /\ GetChunkSize(track[t], c) \in Nat
      /\ copy'.media = cm \o piece
      /\ copy'.next[t] = c + 1 /\ \A w \in Tracks \ {t} : copy'.next[w] = copy.next[w]
      /\ copy.next[u] \in Nat \ {0} /\ Len(copy'.chunks[u]) = Len(copy.chunks[u])
      /\ copy.chunks[u] \in Seq(Nat) /\ Len(copy.chunks[u]) = Len(track[u].chunks)
      /\ Len(track[u].chunks) \in Nat
      /\ copy'.chunks[t][c] = Len(cm)
      /\ \A k \in 1..Len(copy.chunks[u]) :
           ~ (u = t /\ k = c) => copy'.chunks[u][k] = copy.chunks[u][k]
  BY RewrittenFields
<1>2. mode = "optimizing" /\ UNCHANGED <<track, log>>
  BY DEF RewriteChunk
<1>3. /\ copy.next[u] <= Len(track[u].chunks) + 1
      /\ \A k \in 1..(copy.next[u] - 1) : copy.chunks[u][k] <= Len(cm)
      /\ Whole(track[u], log[u]) =>
           \A k \in 1..(copy.next[u] - 1) :
             Laid(BytesOf(log[u]), u, cm, copy.chunks[u][k],
                  FirstOf(track[u].stsc, k), FirstOf(track[u].stsc, k + 1) - 1)
  BY <1>1 DEF CopyInv, Copied
<1>4. /\ Len(cm) \in Nat /\ Len(piece) \in Nat /\ Len(cm \o piece) = Len(cm) + Len(piece)
  <2>1. cm \in Seq(Byte) /\ piece \in Seq(Byte)
    BY <1>1
  <2> HIDE DEF cm, piece
  <2> QED
    BY <2>1, Joined
<1> DEFINE new == cm \o piece
<1>5. Laid(BytesOf(log[t]), t, new, Len(cm), FirstOf(track[t].stsc, c), FirstOf(track[t].stsc, c + 1) - 1)
        \/ ~Whole(track[t], log[t])
  <2> HIDE DEF cm, c
  <2>1. cm \in Seq(Byte) /\ c \in 1..Len(track[t].chunks) /\ GetChunkSize(track[t], c) \in Nat
    BY <1>1
  <2> QED
    BY <1>2, <2>1, PieceLaid
<1> HIDE DEF cm, piece
\* a chunk that was copied before
<1>6. ASSUME NEW k \in 1..(copy.next[u] - 1)
      PROVE  /\ copy'.chunks[u][k] <= Len(new)
             /\ Whole(track[u], log[u]) =>
                  Laid(BytesOf(log[u]), u, new, copy'.chunks[u][k],
                       FirstOf(track[u].stsc, k), FirstOf(track[u].stsc, k + 1) - 1)
  <2>1. k \in 1..Len(track[u].chunks) /\ ~ (u = t /\ k = c)
    <3> DEFINE n == copy.next[u]
               m == Len(track[u].chunks)
    <3>1. n \in Nat \ {0} /\ n <= m + 1 /\ m \in Nat /\ k \in 1..(n - 1) /\ (u = t => c = n)
      BY <1>1, <1>3
    <3> HIDE DEF n, m, c
    <3>2. k \in 1..m /\ k # n
      BY <3>1
    <3> QED
      BY <3>1, <3>2 DEF m
  <2>2. copy'.chunks[u][k] = copy.chunks[u][k]
    BY <1>1, <2>1
  <2>3. copy.chunks[u][k] \in Nat
    BY <1>1, <2>1, ElementOfSeq
  <2>4. copy.chunks[u][k] <= Len(new)
    BY <1>3, <1>4, <2>3
  <2>5. ASSUME Whole(track[u], log[u])
        PROVE  Laid(BytesOf(log[u]), u, new, copy.chunks[u][k],
                    FirstOf(track[u].stsc, k), FirstOf(track[u].stsc, k + 1) - 1)
    <3>1. Laid(BytesOf(log[u]), u, cm, copy.chunks[u][k],
               FirstOf(track[u].stsc, k), FirstOf(track[u].stsc, k + 1) - 1)
      BY <1>3, <2>5
    <3>2. cm \in Seq(Byte) /\ piece \in Seq(Byte)
      BY <1>1
    <3> QED
      BY <2>1, <2>3, <2>5, <3>1, <3>2, CopyStays
  <2> QED
    BY <2>2, <2>4, <2>5
<1>7. CASE u # t
  <2>1. copy'.next[u] = copy.next[u]
    BY <1>1, <1>7
  <2> QED
    BY <1>1, <1>2, <1>3, <1>6, <2>1 DEF Copied
<1>8. CASE u = t
  <2>1. copy'.next[u] = c + 1 /\ copy.next[u] = c /\ c \in 1..Len(track[u].chunks) /\ copy'.chunks[u][c] = Len(cm)
    BY <1>1, <1>8
  <2>2. copy'.next[u] <= Len(track[u].chunks) + 1
    BY <1>1, <2>1, SMTT(30)
  <2>3. Len(cm) <= Len(new)
    BY <1>4
  <2>4. ASSUME NEW k \in 1..(copy'.next[u] - 1)
        PROVE  /\ copy'.chunks[u][k] <= Len(new)
               /\ Whole(track[u], log[u]) =>
                    Laid(BytesOf(log[u]), u, new, copy'.chunks[u][k],
                         FirstOf(track[u].stsc, k), FirstOf(track[u].stsc, k + 1) - 1)
    <3>1. CASE k = c
      BY <1>5, <1>8, <2>1, <2>3, <3>1
    <3>2. CASE k # c
      <4>1. k \in 1..(copy.next[u] - 1)
        BY <1>1, <2>1, <3>2
      <4> QED
        BY <1>6, <4>1
    <3> QED
      BY <3>1, <3>2
  <2> QED
    BY <1>1, <1>2, <2>2, <2>4 DEF Copied
<1> QED
  BY <1>7, <1>8

\* The chunk that MP4Optimize copies next is not later than any that is left.
LEMMA NextIsEarliest ==
  ASSUME FileInv, MediaInv, Numbered, NEW t \in Tracks, RewriteChunk(t), NEW u \in Tracks,
         FitsSpan(t), FitsSpan(u),
         NEW d \in copy.next[u]..Len(track[u].chunks)
  PROVE  ChunkStart(t, copy.next[t]) <= ChunkStart(u, d)
<1> DEFINE c == copy.next[t]
           e == copy.next[u]
<1>1. c \in 1..Len(track[t].chunks)
  BY RewrittenFields
<1>2. e \in 1..Len(track[u].chunks) /\ d \in 1..Len(track[u].chunks) /\ e <= d
  <2>1. e \in Nat \ {0} /\ Len(track[u].chunks) \in Nat
    BY RewrittenFields
  <2> HIDE DEF e
  <2> QED
    BY <2>1 DEF e
<1>3. ChunkStart(u, e) \in Nat /\ ChunkStart(u, d) \in Nat /\ ChunkStart(u, e) <= ChunkStart(u, d)
  BY <1>2, ChunksInOrder
<1>4. CASE u = t
  BY <1>3, <1>4
<1>5. CASE u # t
  <2>1. mode = "optimizing" /\ NextTrack(t)
    BY DEF RewriteChunk
  <2>2. u \in Pending \ {t}
    BY <1>2, <1>5 DEF Pending
  <2>3. ChunkMovieTime(t, c) < ChunkMovieTime(u, e) \/ ChunkMovieTime(t, c) = ChunkMovieTime(u, e)
    BY <2>1, <2>2 DEF NextTrack
  <2> HIDE DEF c, e
  <2>4. ChunkMovieTime(t, c) = ChunkStart(t, c) /\ ChunkMovieTime(u, e) = ChunkStart(u, e)
    BY <1>1, <1>2, <2>1, ChunkTimed
  <2>5. ChunkStart(t, c) \in Nat
    <3>1. c <= c
      BY <1>1
    <3> QED
      BY <1>1, <3>1, ChunksInOrder
  <2> DEFINE x == ChunkStart(t, c)
             y == ChunkStart(u, e)
             z == ChunkStart(u, d)
  <2>6. x \in Nat /\ y \in Nat /\ z \in Nat /\ y <= z /\ (x < y \/ x = y)
    BY <1>3, <2>3, <2>4, <2>5
  <2> HIDE DEF x, y, z
  <2>7. x <= z
    BY <2>6
  <2> QED
    BY <2>7 DEF x, z, c
<1> QED
  BY <1>4, <1>5

\* The copied chunks stay in order.
LEMMA RewrittenOrder ==
  ASSUME FileInv, MediaInv, Numbered, NEW t \in Tracks, RewriteChunk(t)
  PROVE  CopyInOrder'
<1> DEFINE c == copy.next[t]
<1>1. /\ CopyInv /\ Len(copy.media) \in Nat
      /\ c \in 1..Len(track[t].chunks)
      /\ copy'.next[t] = c + 1 /\ \A u \in Tracks \ {t} : copy'.next[u] = copy.next[u]
      /\ copy'.chunks[t][c] = Len(copy.media)
  BY RewrittenFields, LenProperties
<1>2. \A u \in Tracks :
        /\ copy.next[u] \in Nat \ {0} /\ copy.chunks[u] \in Seq(Nat)
        /\ Len(copy.chunks[u]) = Len(track[u].chunks) /\ Len(track[u].chunks) \in Nat
        /\ \A k \in 1..Len(track[u].chunks) :
             ~ (u = t /\ k = c) => copy'.chunks[u][k] = copy.chunks[u][k]
  <2> SUFFICES ASSUME NEW u \in Tracks
               PROVE  /\ copy.next[u] \in Nat \ {0} /\ copy.chunks[u] \in Seq(Nat)
                      /\ Len(copy.chunks[u]) = Len(track[u].chunks) /\ Len(track[u].chunks) \in Nat
                      /\ \A k \in 1..Len(track[u].chunks) :
                           ~ (u = t /\ k = c) => copy'.chunks[u][k] = copy.chunks[u][k]
    OBVIOUS
  <2>1. /\ copy.next[u] \in Nat \ {0} /\ copy.chunks[u] \in Seq(Nat)
        /\ Len(copy.chunks[u]) = Len(track[u].chunks) /\ Len(track[u].chunks) \in Nat
    BY RewrittenFields
  <2>2. \A k \in 1..Len(copy.chunks[u]) : ~ (u = t /\ k = c) => copy'.chunks[u][k] = copy.chunks[u][k]
    BY RewrittenFields
  <2> QED
    BY <2>1, <2>2
<1>3. mode = "optimizing" /\ UNCHANGED <<track, log>>
  BY DEF RewriteChunk
<1>4. CopyInOrder
  BY <1>1 DEF CopyInv
<1>5. \A u \in Tracks : \A k : ChunkStart(u, k)' = ChunkStart(u, k)
  BY <1>3 DEF ChunkStart, LoggedTime
<1>6. \A u \in Tracks : FitsSpan(u)' => FitsSpan(u)
  BY <1>3 DEF FitsSpan, LoggedTime
\* a copied chunk is the new one, or was copied before
<1>7. ASSUME NEW u \in Tracks, NEW k \in 1..(copy'.next[u] - 1)
      PROVE  \/ u = t /\ k = c
             \/ /\ k \in 1..(copy.next[u] - 1) /\ k \in 1..Len(track[u].chunks)
                /\ copy'.chunks[u][k] = copy.chunks[u][k]
                /\ copy'.chunks[u][k] \in Nat /\ copy'.chunks[u][k] <= Len(copy.media)
  <2> SUFFICES ASSUME ~ (u = t /\ k = c)
               PROVE  /\ k \in 1..(copy.next[u] - 1) /\ k \in 1..Len(track[u].chunks)
                      /\ copy'.chunks[u][k] = copy.chunks[u][k]
                      /\ copy'.chunks[u][k] \in Nat /\ copy'.chunks[u][k] <= Len(copy.media)
    OBVIOUS
  <2> DEFINE n == copy.next[u]
             m == Len(track[u].chunks)
             p == copy'.next[u]
  <2>1. n <= m + 1 /\ \A j \in 1..(n - 1) : copy.chunks[u][j] <= Len(copy.media)
    BY <1>1 DEF CopyInv, Copied
  <2>2. n \in Nat \ {0} /\ m \in Nat /\ k \in 1..(p - 1)
    BY <1>2
  <2>3. p = IF u = t THEN c + 1 ELSE n
    BY <1>1
  <2>4. u = t => n = c
    OBVIOUS
  <2>5. k \in 1..(n - 1) /\ k \in 1..m
    <3> HIDE DEF n, m, p, c
    <3> QED
      BY <2>1, <2>2, <2>3, <2>4
  <2>6. copy'.chunks[u][k] = copy.chunks[u][k]
    BY <1>2, <2>5
  <2>7. copy.chunks[u][k] \in Nat /\ copy.chunks[u][k] <= Len(copy.media)
    <3>1. copy.chunks[u] \in Seq(Nat) /\ k \in 1..Len(copy.chunks[u])
      BY <1>2, <2>5
    <3>2. copy.chunks[u][k] \in Nat
      BY <3>1, ElementOfSeq
    <3> QED
      BY <2>1, <2>5, <3>2
  <2> QED
    BY <2>5, <2>6, <2>7
<1>8. ASSUME NEW u \in Tracks, NEW w \in Tracks, FitsSpan(u)', FitsSpan(w)',
             NEW k \in 1..(copy'.next[u] - 1), NEW d \in 1..(copy'.next[w] - 1),
             copy'.chunks[u][k] < copy'.chunks[w][d]
      PROVE  ChunkStart(u, k)' <= ChunkStart(w, d)'
  <2>1. FitsSpan(u) /\ FitsSpan(w)
    BY <1>6, <1>8
  <2>2. CASE u = t /\ k = c
    <3>1. CASE w = t /\ d = c
      <4>1. copy'.chunks[u][k] = Len(copy.media) /\ copy'.chunks[w][d] = Len(copy.media)
        BY <1>1, <2>2, <3>1
      <4> QED
        BY <1>1, <1>8, <4>1
    <3>2. CASE ~ (w = t /\ d = c)
      <4>1. copy'.chunks[w][d] \in Nat /\ copy'.chunks[w][d] <= Len(copy.media)
        BY <1>7, <3>2
      <4>2. copy'.chunks[u][k] = Len(copy.media)
        BY <1>1, <2>2
      <4> QED
        BY <1>1, <1>8, <4>1, <4>2
    <3> QED
      BY <3>1, <3>2
  <2>3. CASE ~ (u = t /\ k = c)
    <3>1. k \in 1..(copy.next[u] - 1) /\ copy'.chunks[u][k] = copy.chunks[u][k]
      BY <1>7, <2>3
    <3>2. CASE w = t /\ d = c
      <4>1. d \in copy.next[w]..Len(track[w].chunks)
        BY <1>1, <1>2, <3>2
      <4>2. ChunkStart(u, k) <= ChunkStart(w, d)
        BY <1>4, <2>1, <3>1, <4>1 DEF CopyInOrder
      <4> QED
        BY <1>5, <4>2
    <3>3. CASE ~ (w = t /\ d = c)
      <4>1. d \in 1..(copy.next[w] - 1) /\ copy'.chunks[w][d] = copy.chunks[w][d]
        BY <1>7, <3>3
      <4>2. ChunkStart(u, k) <= ChunkStart(w, d)
        BY <1>4, <1>8, <2>1, <3>1, <4>1 DEF CopyInOrder, Ordered
      <4> QED
        BY <1>5, <4>2
    <3> QED
      BY <3>2, <3>3
  <2> QED
    BY <2>2, <2>3
<1>9. ASSUME NEW u \in Tracks, NEW w \in Tracks, FitsSpan(u)', FitsSpan(w)',
             NEW k \in 1..(copy'.next[u] - 1), NEW d \in copy'.next[w]..Len(track'[w].chunks)
      PROVE  ChunkStart(u, k)' <= ChunkStart(w, d)'
  <2>1. FitsSpan(u) /\ FitsSpan(w)
    BY <1>6, <1>9
  <2>2. d \in copy.next[w]..Len(track[w].chunks)
    <3> DEFINE n == copy.next[w]
               p == copy'.next[w]
               m == Len(track[w].chunks)
    <3>1. n \in Nat \ {0} /\ m \in Nat /\ d \in p..m
      BY <1>2, <1>3
    <3>2. p = n + 1 \/ p = n
      BY <1>1
    <3> HIDE DEF n, p, m
    <3>3. d \in n..m
      BY <3>1, <3>2
    <3> QED
      BY <3>3 DEF n, m
  <2>3. ChunkStart(u, k) <= ChunkStart(w, d)
    <3>1. CASE u = t /\ k = c
      BY <2>1, <2>2, <3>1, NextIsEarliest
    <3>2. CASE ~ (u = t /\ k = c)
      <4>1. k \in 1..(copy.next[u] - 1)
        BY <1>7, <3>2
      <4> QED
        BY <1>4, <2>1, <2>2, <4>1 DEF CopyInOrder
    <3> QED
      BY <3>1, <3>2
  <2> QED
    BY <1>5, <2>3
<1>10. Ordered(copy.chunks, [u \in Tracks |-> copy.next[u] - 1])'
  BY <1>8 DEF Ordered
<1> QED
  BY <1>9, <1>10 DEF CopyInOrder

\* A turn of MP4Optimize.
LEMMA RewriteMedia ==
  ASSUME FileInv, MediaInv, NEW t \in Tracks, RewriteChunk(t)
  PROVE  MediaInv'
<1>1. /\ mode = "optimizing" /\ mode' = mode
      /\ UNCHANGED <<track, media, log, strayed, readBack, optimized, fails>>
  BY DEF RewriteChunk
<1>2. MediaTypes'
  BY <1>1 DEF MediaInv, MediaTypes
<1>3. ASSUME NEW u \in Tracks
      PROVE  TrackMedia(u)'
  <2>1. SameChunks(track[u], track'[u]) /\ Begins(media, media')
    BY <1>1, MediaBegins DEF SameChunks
  <2> QED
    BY <1>1, <2>1, TrackKept
<1>4. optimized' /\ Numbered' => InOrder'
  BY <1>1, OrderKept
<1>5. CopyInv'
  <2>1. copy' \in [chunks : [Tracks -> Seq(Nat)], media : Seq(Byte), next : [Tracks -> Nat \ {0}]]
    BY RewrittenFields
  <2>2. \A u \in Tracks : Copied(u)'
    BY RewrittenCopied
  <2>3. Numbered' => Numbered
    BY <1>1 DEF Numbered
  <2>4. Numbered' => CopyInOrder'
    BY <2>3, RewrittenOrder
  <2> QED
    BY <2>1, <2>2, <2>4 DEF CopyInv
<1> QED
  BY <1>2, <1>3, <1>4, <1>5 DEF MediaInv

\* MP4Optimize has copied all chunks, and the copy takes the place of the file.
LEMMA RenamedMedia ==
  ASSUME FileInv, MediaInv, Rename
  PROVE  MediaInv'
<1>1. /\ mode = "optimizing" /\ mode' = "closed" /\ Pending = {}
      /\ track' = [t \in Tracks |-> [track[t] EXCEPT !.chunks = copy.chunks[t]]]
      /\ media' = copy.media /\ UNCHANGED <<log, strayed, readBack, fails>>
  BY DEF Rename
<1>2. CopyInv /\ MediaTypes
  BY <1>1 DEF MediaInv
<1>3. /\ copy.media \in Seq(Byte) /\ Len(copy.media) \in Nat
      /\ \A t \in Tracks : copy.chunks[t] \in Seq(Nat) /\ copy.next[t] \in Nat \ {0}
  BY <1>2, LenProperties DEF CopyInv
<1>4. MediaTypes'
  <2>1. optimized' = TRUE
    BY DEF Rename
  <2> QED
    BY <1>1, <1>2, <1>3, <2>1 DEF MediaTypes
<1>5. ASSUME NEW t \in Tracks
      PROVE  /\ Len(track[t].chunks) \in Nat /\ copy.next[t] - 1 = Len(track[t].chunks)
             /\ Len(copy.chunks[t]) = Len(track[t].chunks)
  <2> DEFINE n == copy.next[t]
             m == Len(track[t].chunks)
  <2>1. n \in Nat \ {0} /\ n <= m + 1 /\ Len(copy.chunks[t]) = m
    BY <1>2, <1>3 DEF CopyInv, Copied
  <2>2. m \in Nat
    <3>1. copy.chunks[t] \in Seq(Nat)
      BY <1>3
    <3> QED
      BY <2>1, <3>1, LenProperties
  <2>3. ~ (n <= m)
    BY <1>1 DEF Pending
  <2> HIDE DEF n, m
  <2>4. n - 1 = m
    BY <2>1, <2>2, <2>3
  <2> QED
    BY <2>1, <2>2, <2>4 DEF n, m
<1>6. ASSUME NEW t \in Tracks
      PROVE  track'[t].stsc = track[t].stsc /\ track'[t].chunks = copy.chunks[t]
             /\ track'[t].buffer = track[t].buffer /\ track'[t].samples = track[t].samples
  <2>1. IsTrack(track[t]) /\ track'[t] = [track[t] EXCEPT !.chunks = copy.chunks[t]]
    BY <1>1 DEF FileInv
  <2> QED
    BY <2>1 DEF IsTrack
<1>7. ASSUME NEW t \in Tracks
      PROVE  TrackMedia(t)'
  <2> DEFINE tr  == track[t]
             new == track'[t]
  <2>1. /\ Chunked(tr, t, log[t], media) /\ FirstsRight(t) /\ tr.samples = 0
    BY <1>1 DEF MediaInv, TrackMedia
  <2>2. /\ new.stsc = tr.stsc /\ new.chunks = copy.chunks[t] /\ Len(new.chunks) = Len(tr.chunks)
        /\ new.buffer = tr.buffer /\ new.samples = tr.samples /\ log'[t] = log[t]
    BY <1>1, <1>5, <1>6
  <2>3. Stored(new) = Stored(tr) /\ (Whole(new, log[t]) <=> Whole(tr, log[t]))
    BY <2>2 DEF Stored, Whole
  <2>4. /\ \A c \in 1..Len(tr.chunks) : copy.chunks[t][c] <= Len(copy.media)
        /\ Whole(tr, log[t]) =>
             \A c \in 1..Len(tr.chunks) :
               Laid(BytesOf(log[t]), t, copy.media, copy.chunks[t][c],
                    FirstOf(tr.stsc, c), FirstOf(tr.stsc, c + 1) - 1)
    BY <1>2, <1>5 DEF CopyInv, Copied
  <2>5. copy.chunks[t] \in Seq(0..Len(copy.media))
    <3> DEFINE s == copy.chunks[t]
               n == Len(copy.media)
    <3>1. s \in Seq(Nat) /\ Len(s) = Len(tr.chunks) /\ n \in Nat
      BY <1>3, <1>5
    <3>2. \A c \in 1..Len(s) : s[c] <= n
      BY <2>4, <3>1
    <3> HIDE DEF s, n
    <3>3. Len(s) \in Nat /\ s \in [1..Len(s) -> Nat]
      BY <3>1, LenProperties
    <3>4. s \in [1..Len(s) -> 0..n]
      BY <3>1, <3>2, <3>3
    <3>5. s \in Seq(0..n)
      BY <3>3, <3>4, SeqDef
    <3> QED
      BY <3>5 DEF s, n
  <2> HIDE DEF tr, new
  <2>6. Chunked(new, t, log[t], copy.media)
    <3>1. IsStsc(new.stsc, Len(new.chunks)) /\ new.chunks \in Seq(0..Len(copy.media))
      BY <2>1, <2>2, <2>5 DEF Chunked
    <3>2. new.buffer \in Seq(Byte) /\ (new.samples = 0 => new.buffer = <<>>)
      BY <2>1, <2>2 DEF Chunked
    <3>3. Stored(new) + new.samples <= Len(log[t])
      BY <2>1, <2>2, <2>3 DEF Chunked
    <3>4. ASSUME Whole(new, log[t])
          PROVE  /\ \A c \in 1..Len(new.chunks) :
                      Laid(BytesOf(log[t]), t, copy.media, new.chunks[c],
                           FirstOf(new.stsc, c), FirstOf(new.stsc, c + 1) - 1)
                 /\ Laid(BytesOf(log[t]), t, new.buffer, 0, Stored(new) + 1, Len(log[t]))
                 /\ Len(new.buffer) = SumOver(BytesOf(log[t]), Stored(new) + 1, Len(log[t]))
      <4>1. Whole(tr, log[t])
        BY <2>3, <3>4
      <4>2. \A c \in 1..Len(new.chunks) :
              Laid(BytesOf(log[t]), t, copy.media, new.chunks[c],
                   FirstOf(new.stsc, c), FirstOf(new.stsc, c + 1) - 1)
        BY <2>2, <2>4, <4>1
      <4>3. /\ Laid(BytesOf(log[t]), t, new.buffer, 0, Stored(new) + 1, Len(log[t]))
            /\ Len(new.buffer) = SumOver(BytesOf(log[t]), Stored(new) + 1, Len(log[t]))
        BY <2>1, <2>2, <2>3, <4>1 DEF Chunked
      <4> QED
        BY <4>2, <4>3
    <3> QED
      BY <3>1, <3>2, <3>3, <3>4 DEF Chunked
  <2>7. FirstsRight(t)'
    <3>1. Len(log[t]) < Span => FirstsKnown(new.stsc)
      BY <1>1, <2>1, <2>2 DEF FirstsRight, tr
    <3> QED
      BY <1>1, <2>2, <3>1 DEF FirstsRight, new
  <2>8. new.samples = 0
    BY <2>1, <2>2
  <2> QED
    BY <1>1, <2>2, <2>6, <2>7, <2>8 DEF TrackMedia, new
<1>8. Numbered' => InOrder'
  <2> SUFFICES ASSUME Numbered', NEW t \in Tracks, NEW u \in Tracks, FitsSpan(t)', FitsSpan(u)',
                      NEW c \in 1..Len(track'[t].chunks), NEW d \in 1..Len(track'[u].chunks),
                      track'[t].chunks[c] < track'[u].chunks[d]
               PROVE  ChunkStart(t, c)' <= ChunkStart(u, d)'
    BY DEF InOrder, Ordered
  <2>1. Numbered /\ FitsSpan(t) /\ FitsSpan(u)
    BY <1>1 DEF Numbered, FitsSpan, LoggedTime
  <2>2. /\ c \in 1..(copy.next[t] - 1) /\ d \in 1..(copy.next[u] - 1)
        /\ copy.chunks[t][c] < copy.chunks[u][d]
    BY <1>5, <1>6
  <2>3. Ordered(copy.chunks, [w \in Tracks |-> copy.next[w] - 1])
    BY <1>2, <2>1 DEF CopyInv, CopyInOrder
  <2>4. ChunkStart(t, c) <= ChunkStart(u, d)
    BY <2>1, <2>2, <2>3 DEF Ordered
  <2>5. ChunkStart(t, c)' = ChunkStart(t, c) /\ ChunkStart(u, d)' = ChunkStart(u, d)
    BY <1>1, <1>6 DEF ChunkStart, LoggedTime
  <2> QED
    BY <2>4, <2>5
<1> QED
  BY <1>1, <1>4, <1>7, <1>8 DEF MediaInv

(***************************************************************************)
(* The steps of the callers keep the media data.                           *)
(***************************************************************************)

\* A frame of the recorder or of the muxer.
LEMMA FrameMedia ==
  ASSUME FileInv, Clocks, MediaInv, NEW t \in {Video, Audio}, RecordFrame(t) \/ MuxFrame(t)
  PROVE  MediaInv'
<1>1. PICK f \in Frames : NextFrame(t, f) /\ (FrameWritten(t, f) \/ FrameRefused(t, f))
  BY DEF RecordFrame, MuxFrame
<1>2. Stamp(t, f) \in Nat
  BY <1>1, RecorderAssumption DEF NextFrame
<1>3. \E e \in Sample : \/ WriteSample(t, e.bytes, e.duration, e.offset, e.sync)
                        \/ WriteSampleFails(t, e.bytes, e.duration, e.offset, e.sync)
  BY <1>1, <1>2, FrameIsSample
<1>4. t \in Tracks
  BY Constants
<1> QED
  BY <1>3, <1>4, SampleMedia

\* The calls of mp4v2.
LEMMA CallMedia ==
  ASSUME FileInv, MediaInv,
         \/ Create \/ Modify \/ Read \/ Optimize
         \/ Close \/ CloseRead \/ Rename \/ OptimizeFails \/ Die
         \/ \E t \in Tracks :
              \/ EditWrite(t) \/ RewriteChunk(t)
              \/ \E id \in DOMAIN log[t] :
                   ReadSample(t, id) \/ \E o \in Offsets[t] : SetSampleRenderingOffset(t, id, o)
  PROVE  MediaInv'
<1>1. CASE Create \/ Modify \/ Read \/ Optimize \/ OptimizeFails
  BY <1>1, ModeChanged
<1>2. CASE Close \/ CloseRead \/ Rename \/ Die
  BY <1>2, ClosedMedia, ReadClosedMedia, RenamedMedia, MediaStart
<1>3. ASSUME NEW t \in Tracks, EditWrite(t)
      PROVE  MediaInv'
  BY <1>3, EditIsSample, SampleMedia
<1>4. ASSUME NEW t \in Tracks, RewriteChunk(t)
      PROVE  MediaInv'
  BY <1>4, RewriteMedia
<1>5. ASSUME NEW t \in Tracks, NEW id \in DOMAIN log[t], ReadSample(t, id)
      PROVE  MediaInv'
  BY <1>5, ReadMedia
<1>6. ASSUME NEW t \in Tracks, NEW id \in DOMAIN log[t], NEW o \in Offsets[t],
             SetSampleRenderingOffset(t, id, o)
      PROVE  MediaInv'
  <2>1. o \in Nat
    BY RecorderAssumption
  <2> QED
    BY <1>6, <2>1, OffsetMedia
<1> QED
  BY <1>1, <1>2, <1>3, <1>4, <1>5, <1>6

LEMMA MediaKept ==
  ASSUME FileInv, MediaInv, UNCHANGED fileVars
  PROVE  MediaInv'
BY ModeChanged

LEMMA StepMedia == TableInv /\ MediaInv /\ [Next]_vars => MediaInv'
<1> SUFFICES ASSUME FileInv, ListInv, Clocks, MediaInv, [Next]_vars
             PROVE  MediaInv'
  BY DEF TableInv
<1>1. CASE ProgramStep
  <2>1. CASE Start \/ Finish
    BY <2>1, CallMedia DEF Start, Finish
  <2>2. ASSUME NEW t \in {Video, Audio}, RecordFrame(t) \/ MuxFrame(t)
        PROVE  MediaInv'
    BY <2>2, FrameMedia
  <2>3. ASSUME NEW t \in {Video, Audio},
               RecordSkip(t) \/ RecordEnds(t) \/ MuxSkip(t) \/ MuxEnds(t)
        PROVE  MediaInv'
    BY <2>3, MediaKept DEF RecordSkip, RecordEnds, MuxSkip, MuxEnds
  <2> QED
    BY <1>1, <2>1, <2>2, <2>3 DEF ProgramStep
<1>2. CASE EditStep
  BY <1>2, CallMedia DEF EditStep
<1>3. CASE EditEnds
  BY <1>3, CallMedia DEF EditEnds
<1>4. CASE CutStep
  BY <1>4, CallMedia, Constants DEF CutStep
<1>5. CASE ListStep
  <2>1. UNCHANGED fileVars
    BY <1>5 DEF ListStep, AddTrackEdit, DeleteTrackEdit, CopyTrack
  <2> QED
    BY <2>1, MediaKept
<1>6. CASE CopyStep
  BY <1>6, TurnMoved DEF CopyStep
<1>7. CASE Death
  BY <1>7, MediaStart DEF Death
<1>8. CASE UNCHANGED vars
  BY <1>8, MediaKept DEF vars
<1> QED
  BY <1>1, <1>2, <1>3, <1>4, <1>5, <1>6, <1>7, <1>8 DEF Next

LEMMA InitMedia == Init => MediaInv
BY MediaStart DEF Init

\* The tables lead to the bytes of the samples in the chunks.
LEMMA SampleLed ==
  ASSUME FileInv, MediaInv, NEW t \in Tracks, Whole(track[t], log[t]), FirstsKnown(track[t].stsc),
         NEW id \in 1..Stored(track[t])
  PROVE  LeadsTo(t, track[t], id)
<1> DEFINE tr   == track[t]
           from == GetSampleFileOffset(tr, id)
           n    == log[t][id].bytes
<1>1. /\ IsTrack(tr) /\ log[t] \in Seq(Sample) /\ Sized(tr, log[t])
      /\ Chunked(tr, t, log[t], media) /\ Len(media) \in Nat
  BY TrackOfFile, MediaBegins DEF MediaInv, TrackMedia, Recorded
<1>2. from \in Nat /\ id \in 1..Len(log[t]) /\ LiesAt(media, from, n, t, id)
  BY <1>1, SampleFound
<1>3. GetSampleSize(tr, id) = n
  BY <1>1, <1>2, SizeOfSample
<1>4. Piece(from, n) = Bytes(t, id, n)
  <2> DEFINE S      == 1..n
             val(k) == IF from + k <= Len(media) THEN media[from + k] ELSE <<0, 0>>
  <2>1. \A k \in S : val(k) = <<t, id>>
    BY <1>2 DEF LiesAt
  <2> HIDE DEF S, val
  <2>2. [k \in S |-> val(k)] = [k \in S |-> <<t, id>>]
    BY <2>1
  <2> QED
    BY <2>2 DEF Piece, Bytes, S, val
<1>5. from >= 0
  BY <1>2
<1> QED
  BY <1>3, <1>4, <1>5 DEF LeadsTo

LEMMA StoredIsInChunks ==
  ASSUME FileInv, MediaInv, NEW t \in Tracks
  PROVE  /\ InChunks(t) = Stored(track[t]) /\ Stored(track[t]) \in Nat
         /\ track[t].samples \in Nat /\ DOMAIN log[t] = 1..Len(log[t]) /\ Len(log[t]) \in Nat
<1>1. /\ IsTrack(track[t]) /\ log[t] \in Seq(Sample)
      /\ DOMAIN log[t] = 1..Len(log[t]) /\ Len(log[t]) \in Nat
      /\ Chunked(track[t], t, log[t], media) /\ Len(media) \in Nat
  BY TrackOfFile, MediaBegins DEF MediaInv, TrackMedia
<1>2. track[t].samples \in Nat
  BY <1>1 DEF IsTrack
<1>3. IsStsc(track[t].stsc, Len(track[t].chunks)) /\ DOMAIN track[t].chunks = 1..Len(track[t].chunks)
  BY <1>1, <1>2, ChunkedFields DEF Chunked
<1> QED
  BY <1>1, <1>2, <1>3, StoredSamples DEF InChunks

LEMMA FileFound == FileInv /\ MediaInv => BytesFound
<1> SUFFICES ASSUME FileInv, MediaInv, mode \in {"closed", "reading", "optimizing"}, Numbered,
                    NEW t \in Tracks, InChunks(t) = Len(log[t]), NEW id \in DOMAIN log[t]
             PROVE  LeadsTo(t, track[t], id)
  BY DEF BytesFound
<1>1. mode # "writing" /\ Len(log[t]) < Span
  BY DEF Numbered
<1>2. track[t].samples = 0 /\ FirstsKnown(track[t].stsc)
  BY <1>1 DEF MediaInv, TrackMedia, FirstsRight
<1>3. Stored(track[t]) = Len(log[t]) /\ Stored(track[t]) \in Nat /\ DOMAIN log[t] = 1..Len(log[t])
  BY StoredIsInChunks
<1>4. Whole(track[t], log[t])
  BY <1>1, <1>2, <1>3 DEF Whole
<1> QED
  BY <1>2, <1>3, <1>4, SampleLed

LEMMA FileReadBack == FileInv /\ MediaInv => BytesReadBack
<1> SUFFICES ASSUME FileInv, MediaInv, mode = "writing", Numbered,
                    NEW t \in Tracks \ (strayed \cup readBack),
                    InChunks(t) + track[t].samples = Len(log[t]), NEW id \in 1..InChunks(t)
             PROVE  LeadsTo(t, track[t], id)
  BY DEF BytesReadBack
<1>1. t \in Tracks /\ t \notin strayed \cup readBack /\ Len(log[t]) < Span
  BY DEF Numbered
<1>2. InChunks(t) = Stored(track[t])
  BY <1>1, StoredIsInChunks
<1>3. Whole(track[t], log[t])
  BY <1>1, <1>2 DEF Whole
<1>4. FirstsKnown(track[t].stsc)
  BY <1>1, <1>3 DEF MediaInv, TrackMedia, FirstsRight
<1> QED
  BY <1>1, <1>2, <1>3, <1>4, SampleLed

LEMMA FileInOrder == FileInv /\ MediaInv => InTimeOrder
<1> SUFFICES ASSUME FileInv, MediaInv, optimized, mode = "closed", Numbered,
                    NEW t \in Tracks, NEW u \in Tracks, FitsSpan(t), FitsSpan(u),
                    NEW c \in DOMAIN track[t].chunks, NEW d \in DOMAIN track[u].chunks,
                    track[t].chunks[c] < track[u].chunks[d]
             PROVE  ChunkMovieTime(t, c) <= ChunkMovieTime(u, d)
  BY DEF InTimeOrder
<1>1. ASSUME NEW v \in Tracks
      PROVE  DOMAIN track[v].chunks = 1..Len(track[v].chunks)
  BY LenProperties DEF MediaInv, TrackMedia, Chunked
<1>2. c \in 1..Len(track[t].chunks) /\ d \in 1..Len(track[u].chunks)
  BY <1>1
<1>3. ChunkMovieTime(t, c) = ChunkStart(t, c) /\ ChunkMovieTime(u, d) = ChunkStart(u, d)
  BY <1>2, ChunkTimed
<1>4. ChunkStart(t, c) <= ChunkStart(u, d)
  BY <1>2 DEF MediaInv, InOrder, Ordered
<1> QED
  BY <1>3, <1>4

(***************************************************************************)
(* The theorems.                                                           *)
(***************************************************************************)

\* Whoever writes, appends, reads back, optimizes or fails: stsz has the size of
\* every sample the tables have.
THEOREM SizesKept == Spec => []SizesRecorded
<1>1. TableInv => SizesRecorded
  BY FileSized DEF TableInv
<1> QED
  BY <1>1, InitTables, StepTables, PTL DEF Spec

\* The rows of stts give every sample the time and the duration it was written
\* with, and without a failure the track and the movie last as long as that:
\* samples of one duration share a row, the cached row is one of the table, and
\* neither an append nor a refused chunk puts the rows out of step.
THEOREM TimesKept == Spec => []TimesRecorded
<1>1. TableInv => TimesRecorded
  BY FileTimed DEF TableInv
<1> QED
  BY <1>1, InitTables, StepTables, PTL DEF Spec

\* ctts gives every sample the offset it was written with or was given since,
\* however MP4SetSampleRenderingOffset splits and joins the rows, unless a
\* sample has been numbered wrongly.
THEOREM OffsetsKept == Spec => []OffsetsRecorded
<1>1. TableInv => OffsetsRecorded
  BY FileShifted DEF TableInv
<1> QED
  BY <1>1, InitTables, StepTables, PTL DEF Spec

\* The two binary searches of stss and the table that is made when the first
\* sample comes that is none: IsSyncSample and GetNextSyncSample answer for the
\* samples that were written as such.
THEOREM SyncKept == Spec => []SyncAnswered
<1>1. TableInv => SyncAnswered
  BY FileSynced DEF TableInv
<1> QED
  BY <1>1, InitTables, StepTables, PTL DEF Spec

\* The rows remembered by GetSampleTimes and by GetSampleRenderingOffset never
\* outlive the rows they stand for, in spite of the rows that are inserted and
\* lengthened behind and before them.
THEOREM CachesKept == Spec => []CachesAgree
<1>1. TableInv => CachesAgree
  BY FileCached DEF TableInv
<1> QED
  BY <1>1, InitTables, StepTables, PTL DEF Spec

\* Each time within a track is answered with the sample shown then.
THEOREM SeekKept == Spec => []SeekLands
<1>1. TableInv => SeekLands
  BY FileSought DEF TableInv
<1> QED
  BY <1>1, InitTables, StepTables, PTL DEF Spec

\* The chunk that stsc names for a sample and the sizes of stsz lead to the bytes
\* the caller gave for it, in a file that was closed, appended to, moved by
\* MP4Optimize or left by a failed call, if every sample has a number and is in a
\* chunk.
THEOREM BytesKept == Spec => []BytesFound
<1>1. TableInv /\ MediaInv => BytesFound
  BY FileFound DEF TableInv
<1> QED
  BY <1>1, InitTables, StepTables, InitMedia, StepMedia, PTL DEF Spec

\* While a file is written, its tables already lead to the bytes of every sample
\* whose chunk is in the file, unless ReadSample has written a chunk itself or
\* WriteSample has numbered a sample wrongly.
THEOREM ReadBackKept == Spec => []BytesReadBack
<1>1. TableInv /\ MediaInv => BytesReadBack
  BY FileReadBack DEF TableInv
<1> QED
  BY <1>1, InitTables, StepTables, InitMedia, StepMedia, PTL DEF Spec

\* MP4Optimize takes the chunk with the earliest first sample of all tracks each
\* time, and so it leaves the chunks in the order of their times, to the tick of
\* the movie.
THEOREM OrderOptimized == Spec => []InTimeOrder
<1>1. TableInv /\ MediaInv => InTimeOrder
  BY FileInOrder DEF TableInv
<1> QED
  BY <1>1, InitTables, StepTables, InitMedia, StepMedia, PTL DEF Spec
=============================================================================

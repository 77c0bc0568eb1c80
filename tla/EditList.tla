------------------------------- MODULE EditList -------------------------------
(***************************************************************************)
(* The edit list of a track and the calls of mp4v2 on it: MP4AddTrackEdit, *)
(* MP4DeleteTrackEdit, MP4GetSampleIdFromEditTime, and MP4CopyTrack, which *)
(* walks through the list to copy what it shows to another file.           *)
(*                                                                         *)
(* A list is a sequence of segments: from media on, duration ticks of the  *)
(* track are shown, or one sample for all of them (dwell).                 *)
(***************************************************************************)
EXTENDS Mp4File

CONSTANTS PtsSpan,        \* the values of a 64-bit time: 2^64
          MaxCopied       \* how many of the copied samples are remembered

ASSUME ListAssumption == PtsSpan \in Nat /\ Span <= PtsSpan /\ MaxCopied \in Nat

VARIABLES elst,   \* the edit list of each track
          dub     \* MP4CopyTrack as it runs, and the copy

listVars == <<elst, dub>>

NoDub == [phase |-> "none", track |-> 1, viaEdits |-> FALSE, when |-> 0, id |-> 0, samples |-> <<>>]

ListInit == elst = [t \in Tracks |-> <<>>] /\ dub = NoDub

InvalidDuration == PtsSpan - 1

-----------------------------------------------------------------------------
(* The list.                                                               *)

\* A new segment s before segment id, or after the last one; its times are
\* kept in 32 bits.
AddTrackEdit(t, id, s) ==
  /\ mode = "writing"
  /\ elst' = [elst EXCEPT ![t] = InsertAt(@, id, [s EXCEPT !.media = @ % Span, !.duration = @ % Span])]
  /\ UNCHANGED <<fileVars, dub>>

DeleteTrackEdit(t, id) ==
  /\ mode = "writing"
  /\ elst' = [elst EXCEPT ![t] = RemoveAt(@, id)]
  /\ UNCHANGED <<fileVars, dub>>

GetEditTotalDuration(t, id) == SumOver([i \in DOMAIN elst[t] |-> elst[t][i].duration], 1, id)

NoSample == [id |-> 0, start |-> 0, duration |-> 0]

\* The sample at a time of the track; there may be none.
SampleAt(tr, when) ==
  LET id == GetSampleIdFromTime(tr, when)
  IN IF id = 0 \/ RowFrom(tr.stts, FirstRow, id).index = 0 THEN NoSample
     ELSE [id |-> id, start |-> GetSampleTimes(tr, id).start,
           duration |-> GetSampleTimes(tr, id).duration]

\* The segments that are not passed over: the difference is unsigned, so these
\* are all that do not end at the very time that is asked for.
SegmentsAt(t, when) ==
  {i \in DOMAIN elst[t] : (GetEditTotalDuration(t, i) - when) % PtsSpan > 0}

\* A sample is shortened when the segment starts after it, and when the segment
\* ends before it would.
Shortened(sample, start, offset, late, end) ==
  LET natural == IF offset < late THEN sample.duration - (late - offset) ELSE sample.duration
  IN natural - Max({0, start + sample.duration - end})

\* The sample that segment i shows at a time, and its part of the time line.
SampleInSegment(t, i, when) ==
  LET s      == elst[t][i]
      offset == when - GetEditTotalDuration(t, i - 1)
      place  == (s.media + offset) % PtsSpan
      sample == SampleAt(track[t], place)
      late   == place - sample.start
      start  == when - Min({offset, late})
  IN IF sample.id = 0 THEN NoSample
     ELSE [id |-> sample.id, start |-> start,
           duration |-> IF s.dwell THEN s.duration
                        ELSE Shortened(sample, start, offset, late, GetEditTotalDuration(t, i)) % PtsSpan]

GetSampleIdFromEditTime(t, when) ==
  IF elst[t] = <<>> THEN SampleAt(track[t], when)
  ELSE IF SegmentsAt(t, when) = {} THEN NoSample
  ELSE SampleInSegment(t, Min(SegmentsAt(t, when)), when)

-----------------------------------------------------------------------------
(* MP4CopyTrack: one action for each turn of its loop.                      *)

Copying == dub.phase = "copying"

CopyTrack(t, applyEdits) ==
  /\ mode = "reading"
  /\ dub.phase = "none"
  /\ dub' = [NoDub EXCEPT !.phase = "copying", !.track = t,
                          !.viaEdits = applyEdits /\ elst[t] # <<>>]
  /\ UNCHANGED <<fileVars, elst>>

\* The sample of the next turn.
NextSample ==
  IF dub.viaEdits THEN GetSampleIdFromEditTime(dub.track, dub.when)
  ELSE [NoSample EXCEPT !.id = dub.id + 1, !.duration = InvalidDuration]

TimeAfter(s) == (dub.when + s.duration) % PtsSpan

\* Mutant: the loop goes on at the end of the list.
CopyIsOverLate(s) ==
  IF dub.viaEdits
  THEN s.id # 0 /\ TimeAfter(s) > GetEditTotalDuration(dub.track, Len(elst[dub.track]))
  ELSE s.id > track[dub.track].count

\* The loop is left before sample s is copied.
CopyIsOver(s) ==
  IF dub.viaEdits
  THEN s.id # 0 /\ TimeAfter(s) >= GetEditTotalDuration(dub.track, Len(elst[dub.track]))
  ELSE s.id > track[dub.track].count

\* The track after the search of the edit list has asked for the times of its
\* answer; a search for a sample that is not there leaves the cache alone.
Asked(tr, s) ==
  IF dub.viaEdits /\ s.id # 0 THEN [tr EXCEPT !.sttsCache = CacheAfter(tr.stts, @, s.id)] ELSE tr

\* ReadSample gives all that MP4CopySample asks of it.
Readable(tr, id) ==
  /\ GetSampleFileOffset(tr, id) >= 0
  /\ GetSampleRenderingOffset(tr, id) # -1
  /\ IsSyncSample(tr, id) # "error"

CopyDone(s) ==
  /\ CopyIsOver(s)
  /\ track' = [track EXCEPT ![dub.track] = Asked(@, s)]
  /\ dub' = [dub EXCEPT !.phase = "done"]
  /\ UNCHANGED fails

CopySample(s) ==
  /\ ~CopyIsOver(s)
  /\ s.id # 0 /\ Readable(track[dub.track], s.id)
  /\ track' = [track EXCEPT ![dub.track] = AfterRead(Asked(@, s), s.id)]
  /\ dub' = [dub EXCEPT
       !.id = s.id,
       !.when = IF dub.viaEdits THEN TimeAfter(s) ELSE @,
       !.samples = IF Len(@) < MaxCopied THEN Append(@, [id |-> s.id, duration |-> s.duration]) ELSE @]
  /\ UNCHANGED fails

\* There is no sample, its bytes (unless got) or what the tables say of it cannot be
\* read, or the disk refuses the copy: the track of the copy is deleted.
CopyFails(s) ==
  /\ ~CopyIsOver(s)
  /\ \E got \in BOOLEAN :
       /\ track' = [track EXCEPT ![dub.track] = IF s.id # 0 /\ got THEN AfterRead(Asked(@, s), s.id)
                                               ELSE Asked(@, s)]
       /\ IF s.id # 0 /\ got /\ Readable(track[dub.track], s.id)
          THEN fails < MaxFails /\ fails' = fails + 1
          ELSE UNCHANGED fails
  /\ dub' = [dub EXCEPT !.phase = "failed"]

CopyTurn ==
  /\ Copying
  /\ \E s \in {NextSample} : CopyDone(s) \/ CopySample(s) \/ CopyFails(s)
  /\ UNCHANGED <<mode, media, movieDuration, log, strayed, readBack, copy, optimized, elst>>

-----------------------------------------------------------------------------
(* Properties.                                                             *)

ListTypeOK ==
  /\ \A t \in Tracks : \A i \in DOMAIN elst[t] :
       elst[t][i] \in [media : 0..(Span - 1), duration : 0..(Span - 1), dwell : BOOLEAN]
  /\ dub.phase \in {"none", "copying", "done", "failed"}
  /\ dub.when \in 0..(PtsSpan - 1)

\* Each segment of the list starts with a sample and lies within the track, and
\* no sample is without duration.
Aligned(t) ==
  /\ FitsSpan(t)
  /\ \A id \in DOMAIN log[t] : log[t][id].duration > 0
  /\ \A i \in DOMAIN elst[t] :
       /\ ~elst[t][i].dwell /\ elst[t][i].duration > 0
       /\ \E id \in DOMAIN log[t] : elst[t][i].media = LoggedTime(t, id)
       /\ elst[t][i].media + elst[t][i].duration <= LoggedTime(t, Len(log[t]) + 1)

\* What segment i shows of the track.
ShownBy(t, i) ==
  LET s   == elst[t][i]
      end == s.media + s.duration
      ids == {id \in DOMAIN log[t] : LoggedTime(t, id) \in s.media..(end - 1)}
  IN [k \in 1..Cardinality(ids) |->
        LET id == Min(ids) + k - 1
        IN [id |-> id, duration |-> Min({end, LoggedTime(t, id + 1)}) - LoggedTime(t, id)]]

Shown(t) == FlattenSeq([i \in DOMAIN elst[t] |-> ShownBy(t, i)])

\* MP4CopyTrack copies the samples in their order, each once and each as long
\* as it is shown: all of them without the edit list, and all but the last one
\* with a list of one segment, because the loop is left before it copies that.
\* (Of a long copy the first MaxCopied samples are remembered.)
CopiesInOrder ==
  LET t    == dub.track
      all  == IF dub.viaEdits THEN Shown(t)
              ELSE [id \in DOMAIN log[t] |-> [id |-> id, duration |-> InvalidDuration]]
      kept == IF dub.viaEdits THEN SubSeq(all, 1, Len(all) - 1) ELSE all
  IN dub.phase # "none" /\ (dub.viaEdits => Len(elst[t]) = 1 /\ Aligned(t)) =>
       /\ IsPrefix(dub.samples, kept)
       /\ dub.phase = "done" => dub.samples = SubSeq(kept, 1, Min({MaxCopied, Len(kept)}))

\* "'editWhen' is within this edit segment" (mp4track.cpp:1788): then a copy
\* has what the segments show, one after the other.
CopyFollowsList ==
  dub.viaEdits /\ Aligned(dub.track) => IsPrefix(dub.samples, Shown(dub.track))
=============================================================================

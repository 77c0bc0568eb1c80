-------------------------------- MODULE Mp4File --------------------------------
(***************************************************************************)
(* One MP4 file and the calls of mp4v2 on it: MP4Create, MP4WriteSample,   *)
(* MP4SetSampleRenderingOffset, MP4ReadSample, MP4Close, MP4Read,          *)
(* MP4Modify and MP4Optimize, with a disk that may refuse a chunk and a    *)
(* process that may die.  The tables of each track are in Mp4Track; here   *)
(* are the media data they point into, and the order of the calls.         *)
(*                                                                         *)
(* log is what the caller has asked for, which the file is compared with.  *)
(* All offsets are counted from the first byte of the media data.          *)
(***************************************************************************)
EXTENDS Mp4Track, FiniteSets

CONSTANTS MovieScale,     \* the ticks per second of the whole movie
          MaxFails        \* how many chunks the disk may refuse

ASSUME FileAssumption == MovieScale \in Nat \ {0} /\ MaxFails \in Nat

VARIABLES mode,        \* how the file is open; "lost": it cannot be read
          track,       \* the tracks, or what the file holds of them
          media,       \* the media data
          movieDuration, \* the duration of the movie
          log,         \* the samples written to each track
          strayed,     \* tracks with a sample written under another's number
          readBack,    \* tracks whose chunk was written by ReadSample
          copy,        \* what MP4Optimize has written to its temporary file
          optimized,   \* the file is as MP4Optimize has left it
          fails        \* chunks the disk has refused

fileVars == <<mode, track, media, movieDuration, log, strayed, readBack, copy, optimized, fails>>

\* The bytes of sample id of track t, n of them.
Bytes(t, id, n) == [k \in 1..n |-> <<t, id>>]

NoCopy == [chunks |-> [t \in Tracks |-> <<>>], media |-> <<>>, next |-> [t \in Tracks |-> 1]]

FileInit ==
  /\ mode = "new"
  /\ track = [t \in Tracks |-> NewTrack(t)]
  /\ media = <<>> /\ movieDuration = 0
  /\ log = [t \in Tracks |-> <<>>]
  /\ strayed = {} /\ readBack = {}
  /\ copy = NoCopy /\ optimized = FALSE /\ fails = 0

-----------------------------------------------------------------------------
(* Writing.                                                                *)

\* MP4Create and the calls that add the tracks.
Create ==
  /\ mode = "new"
  /\ mode' = "writing"
  /\ UNCHANGED <<track, media, movieDuration, log, strayed, readBack, copy, optimized, fails>>

ToMovieDuration(t, d) == (d * MovieScale) \div TimeScale[t]

\* Mutant: the movie is as long as the track written last.
UpdateDurationLast(d) == movieDuration' = d

UpdateDuration(d) == movieDuration' = IF d > movieDuration THEN d ELSE movieDuration

\* A sample reaches the tables under number m_writeSampleId.
Logged(t, n, d, o, sync) ==
  /\ log' = [log EXCEPT ![t] = Append(@, [bytes |-> n, duration |-> d, offset |-> o, sync |-> sync])]
  /\ strayed' = IF track[t].next = track[t].count + 1 THEN strayed ELSE strayed \cup {t}

TakenSample(t, n, d, o, sync) ==
  Taken(track[t], Bytes(t, track[t].count + 1, n), d, o, sync)

\* Mutant: the number of the next sample is advanced before the chunk.
FinishedEarly(t, tr, d) ==
  LET numbered == [tr EXCEPT !.next = @ + 1, !.duration = (@ + d) % Span]
  IN IF IsChunkFull(t, tr) THEN WriteChunkBuffer(numbered, Len(media)) ELSE numbered

\* The chunk is written when it is full, then the durations and the number of
\* the next sample are advanced.
Finished(t, tr, d) ==
  LET written == IF IsChunkFull(t, tr) THEN WriteChunkBuffer(tr, Len(media)) ELSE tr
  IN [written EXCEPT !.next = @ + 1, !.duration = (@ + d) % Span]

WriteSample(t, n, d, o, sync) ==
  LET tr == TakenSample(t, n, d, o, sync)
  IN /\ mode = "writing"
     /\ Logged(t, n, d, o, sync)
     /\ track' = [track EXCEPT ![t] = Finished(t, tr, d)]
     /\ media' = IF IsChunkFull(t, tr) THEN media \o tr.buffer ELSE media
     /\ UpdateDuration(ToMovieDuration(t, (track[t].duration + d) % Span) % Span)
     /\ UNCHANGED <<mode, readBack, copy, optimized, fails>>

\* The disk refuses the chunk: WriteSample returns false with the sample in
\* the tables and in the buffer.
WriteSampleFails(t, n, d, o, sync) ==
  LET tr == TakenSample(t, n, d, o, sync)
  IN /\ mode = "writing"
     /\ IsChunkFull(t, tr) /\ tr.buffer # <<>>
     /\ fails < MaxFails
     /\ fails' = fails + 1
     /\ Logged(t, n, d, o, sync)
     /\ track' = [track EXCEPT ![t] = tr]
     /\ UNCHANGED <<mode, media, movieDuration, readBack, copy, optimized>>

SetSampleRenderingOffset(t, id, o) ==
  /\ mode = "writing"
  /\ ~NoTable(track[t], id, o)
  /\ track' = [track EXCEPT ![t] = IF @.ctts = <<>> THEN FirstOffset(@, id, o)
                                   ELSE SetOffset(@, id, o)]
  /\ log' = [log EXCEPT ![t][id].offset = o]
  /\ UNCHANGED <<mode, media, movieDuration, strayed, readBack, copy, optimized, fails>>

\* Flushed(ts): each track writes its chunk at the end of the media data, in
\* the order of their numbers.
FlushAll ==
  LET start(t) == Len(media) + SumOver([u \in Tracks |-> Len(track[u].buffer)], 1, t - 1)
  IN [t \in Tracks |-> WriteChunkBuffer(track[t], start(t))]

FlushedMedia == media \o FlattenSeq([t \in Tracks |-> track[t].buffer])

\* MP4Close of a file that is written: FinishWrite, then moov is on the disk.
Close ==
  /\ mode = "writing"
  /\ mode' = "closed"
  /\ LET flushed == FlushAll
     IN track' = [t \in Tracks |-> Loaded(flushed[t])]
  /\ media' = FlushedMedia
  /\ readBack' = {}
  /\ UNCHANGED <<movieDuration, log, strayed, copy, optimized, fails>>

\* The process dies while the file is written, or in SetSampleRenderingOffset:
\* there is no moov on the disk, MP4Modify has written over the old one, and
\* nothing of the file can be read.
Die ==
  /\ mode = "writing"
  /\ mode' = "lost"
  /\ track' = [t \in Tracks |-> NewTrack(t)]
  /\ media' = <<>> /\ movieDuration' = 0
  /\ log' = [t \in Tracks |-> <<>>]
  /\ strayed' = {} /\ readBack' = {}
  /\ UNCHANGED <<copy, optimized, fails>>

-----------------------------------------------------------------------------
(* Reading, and writing to a file that exists.                             *)

\* MP4Read.
Read ==
  /\ mode = "closed"
  /\ mode' = "reading"
  /\ UNCHANGED <<track, media, movieDuration, log, strayed, readBack, copy, optimized, fails>>

\* MP4Close of a file that was read: the caches are gone.
CloseRead ==
  /\ mode = "reading"
  /\ mode' = "closed"
  /\ track' = [t \in Tracks |-> Loaded(track[t])]
  /\ UNCHANGED <<media, movieDuration, log, strayed, readBack, copy, optimized, fails>>

\* MP4Modify: new media data go after the old.
Modify ==
  /\ mode = "closed"
  /\ mode' = "writing"
  /\ optimized' = FALSE
  /\ UNCHANGED <<track, media, movieDuration, log, strayed, readBack, copy, fails>>

\* n bytes of the file from an offset; what follows the media data is moov.
Piece(from, n) ==
  [k \in 1..n |-> IF from + k <= Len(media) THEN media[from + k] ELSE <<0, 0>>]

\* The tables lead to the bytes of a sample.
LeadsTo(t, tr, id) ==
  /\ GetSampleFileOffset(tr, id) >= 0
  /\ Piece(GetSampleFileOffset(tr, id), GetSampleSize(tr, id)) = Bytes(t, id, log[t][id].bytes)

\* A sample still in the chunk buffer is written first; its times are asked for
\* only when ReadBytes has got the bytes, which the disk may refuse.
ReadSample(t, id) ==
  LET buffered == id >= (track[t].next - track[t].samples) % Span
      flushed  == IF buffered THEN WriteChunkBuffer(track[t], Len(media)) ELSE track[t]
  IN /\ mode \in {"writing", "reading"}
     /\ \E got \in BOOLEAN :
          track' = [track EXCEPT ![t] = IF got THEN AfterRead(flushed, id) ELSE flushed]
     /\ media' = IF buffered THEN media \o track[t].buffer ELSE media
     /\ readBack' = IF buffered /\ track[t].buffer # <<>> THEN readBack \cup {t} ELSE readBack
     /\ UNCHANGED <<mode, movieDuration, log, strayed, copy, optimized, fails>>

-----------------------------------------------------------------------------
(* MP4Optimize: the chunks of all tracks go to a temporary file in the      *)
(* order of their times, which then takes the place of the file.            *)

\* ilog2(t) + ilog2(scale) <= 64, where ilog2 is the binary logarithm rounded up.
IntegersSuffice(t, scale) == \E i \in 0..64 : t <= 2^i /\ \E j \in 0..(64 - i) : scale <= 2^j

\* Otherwise the quotient is taken in floating point and rounded to the nearest;
\* that a double has 53 bits is left out.
MP4ConvertTime(t, oldScale, newScale) ==
  IF IntegersSuffice(t, newScale) THEN (t * newScale) \div oldScale
  ELSE (2 * t * newScale + oldScale) \div (2 * oldScale)

ChunkMovieTime(t, c) == MP4ConvertTime(GetChunkTime(track[t], c), TimeScale[t], MovieScale)

Optimize ==
  /\ mode = "closed"
  /\ mode' = "optimizing"
  /\ copy' = [NoCopy EXCEPT !.chunks = [t \in Tracks |-> track[t].chunks]]
  /\ UNCHANGED <<track, media, movieDuration, log, strayed, readBack, optimized, fails>>

Pending == {t \in Tracks : copy.next[t] <= Len(track[t].chunks)}

\* Mutant: the track with the most chunks left goes first.
NextTrackLongest(t) ==
  \A u \in Pending : Len(track[t].chunks) - copy.next[t] >= Len(track[u].chunks) - copy.next[u]

\* The track whose next chunk is the earliest, the first one of these.
NextTrack(t) ==
  \A u \in Pending \ {t} :
    LET mine == ChunkMovieTime(t, copy.next[t])
        hers == ChunkMovieTime(u, copy.next[u])
    IN mine < hers \/ (mine = hers /\ t < u)

RewriteChunk(t) ==
  LET c == copy.next[t]
  IN /\ mode = "optimizing"
     /\ t \in Pending /\ NextTrack(t)
     /\ ChunkIsSized(track[t], c)
     /\ copy' = [copy EXCEPT !.chunks[t][c] = Len(copy.media),
                             !.media = @ \o Piece(track[t].chunks[c], GetChunkSize(track[t], c)),
                             !.next[t] = @ + 1]
     /\ UNCHANGED <<mode, track, media, movieDuration, log, strayed, readBack, optimized, fails>>

\* moov is written again with the new offsets, and the file is renamed.
Rename ==
  /\ mode = "optimizing"
  /\ Pending = {}
  /\ mode' = "closed"
  /\ track' = [t \in Tracks |-> [track[t] EXCEPT !.chunks = copy.chunks[t]]]
  /\ media' = copy.media
  /\ copy' = NoCopy
  /\ optimized' = TRUE
  /\ UNCHANGED <<movieDuration, log, strayed, readBack, fails>>

\* The process dies, a chunk has no size, or a read or a write fails: the file
\* is as it was.
OptimizeFails ==
  /\ mode = "optimizing"
  /\ mode' = "closed"
  /\ copy' = NoCopy
  /\ UNCHANGED <<track, media, movieDuration, log, strayed, readBack, optimized, fails>>

-----------------------------------------------------------------------------
(* Properties.                                                             *)

FileTypeOK ==
  /\ mode \in {"new", "writing", "reading", "closed", "optimizing", "lost"}
  /\ \A t \in Tracks :
       /\ track[t].count \in Nat /\ track[t].size \in Nat
       /\ track[t].next \in Nat \ {0}
       /\ track[t].samples \in Nat /\ track[t].elapsed \in Nat
       /\ track[t].sizes \in Seq(Nat)
       /\ track[t].stss \in Seq(Nat \ {0})
       /\ track[t].hasStss \in BOOLEAN /\ track[t].hasCtts \in BOOLEAN
       /\ \A i \in DOMAIN track[t].stts : track[t].stts[i] \in [n : Nat \ {0}, v : 0..(Span - 1)]
       /\ \A i \in DOMAIN track[t].ctts : track[t].ctts[i] \in [n : Nat \ {0}, v : 0..(Span - 1)]
       /\ \A i \in DOMAIN track[t].chunks : track[t].chunks[i] \in 0..Len(media)
       /\ \A i \in DOMAIN track[t].stsc : track[t].stsc[i] \in
            [chunk : 1..Len(track[t].chunks), per : Nat \ {0}, first : 0..(Span - 1)]
  /\ strayed \subseteq Tracks /\ readBack \subseteq Tracks
  /\ fails \in 0..MaxFails

\* Whatever was written, failed, read back or appended in a later session, stsz
\* gives every sample the size it was written with.
SizesRecorded ==
  \A t \in Tracks :
    /\ track[t].count = Len(log[t])
    /\ \A id \in DOMAIN log[t] : GetSampleSize(track[t], id) = log[t][id].bytes

\* The durations of samples, and the time at which a sample of a track starts.
Durations(samples) == [i \in DOMAIN samples |-> samples[i].duration]
LoggedTime(t, id)  == SumOver(Durations(log[t]), 1, id - 1)

\* The durations of a track fit the 32 bits of its tables.
FitsSpan(t) == LoggedTime(t, Len(log[t]) + 1) < Span

\* Every sample starts where the one before ends and lasts as long as it was
\* given, over all sessions; without a failure the track is as long as its
\* samples, and the movie as long as its longest track whose length fits 32 bits
\* in the time scale of the movie.
TimesRecorded ==
  \A t \in Tracks : FitsSpan(t) =>
    /\ \A id \in DOMAIN log[t] :
         GetSampleTimes(track[t], id) = [start |-> LoggedTime(t, id), duration |-> log[t][id].duration]
    /\ fails = 0 => /\ track[t].duration = LoggedTime(t, Len(log[t]) + 1)
                    /\ LET shown == ToMovieDuration(t, track[t].duration)
                       IN shown < Span => movieDuration >= shown

\* The rendering offset of a sample is, in 32 bits, the one it was written with, or that
\* MP4SetSampleRenderingOffset gave it since, unless WriteSample has numbered
\* a sample wrongly.
OffsetsRecorded ==
  \A t \in Tracks \ strayed : \A id \in DOMAIN log[t] :
    GetSampleRenderingOffset(track[t], id) = log[t][id].offset % Span

\* IsSyncSample says yes for the sync samples and no for the others, but fails
\* for those before the first sync sample; GetNextSyncSample finds the next.
SyncAnswered ==
  \A t \in Tracks \ strayed :
    LET sync == {id \in DOMAIN log[t] : log[t][id].sync}
    IN \A id \in DOMAIN log[t] :
         /\ IsSyncSample(track[t], id) =
              IF id \in sync THEN "yes" ELSE IF \E s \in sync : s < id THEN "no" ELSE "error"
         /\ GetNextSyncSample(track[t], id) =
              IF \E s \in sync : s >= id THEN Min({s \in sync : s >= id}) ELSE 0

\* The numbers of the samples fit the 32 bits of an MP4SampleId.
Numbered == \A t \in Tracks : Len(log[t]) < Span

\* The samples that are in a chunk of the file.
InChunks(t) ==
  SumOver([c \in DOMAIN track[t].chunks |-> Cardinality(ChunkSamples(track[t], c))],
          1, Len(track[t].chunks))

\* In a file that was closed the tables lead to the bytes of every sample, also
\* after appends, failures and MP4Optimize, if every sample has a number and is
\* in a chunk: a session that ends with a sample of no bytes leaves it out.
BytesFound ==
  mode \in {"closed", "reading", "optimizing"} /\ Numbered =>
    \A t \in Tracks : InChunks(t) = Len(log[t]) =>
      \A id \in DOMAIN log[t] : LeadsTo(t, track[t], id)

\* While the file is written, a sample whose chunk is written can be read back,
\* unless ReadSample has written a chunk itself, WriteSample has numbered a
\* sample wrongly, or an earlier session has left a sample out.
BytesReadBack ==
  mode = "writing" /\ Numbered =>
    \A t \in Tracks \ (strayed \cup readBack) :
      InChunks(t) + track[t].samples = Len(log[t]) =>
        \A id \in 1..InChunks(t) : LeadsTo(t, track[t], id)

\* A search that starts at the cached row finds the row that a search of the
\* whole table finds, although rows are added and cut after it was cached.
CachesAgree ==
  \A t \in Tracks : \A id \in DOMAIN log[t] :
    LET stts == track[t].sttsCache
        ctts == track[t].cttsCache
    IN /\ stts.sid # 0 =>
            RowFrom(track[t].stts, Cached(stts, id), id) = RowFrom(track[t].stts, FirstRow, id)
       /\ ctts.sid # 0 =>
            LET cached == RowFrom(track[t].ctts, Cached(ctts, id), id)
                whole  == RowFrom(track[t].ctts, FirstRow, id)
            IN cached.index = whole.index /\ cached.sid = whole.sid

\* A time within the track gives the sample that is shown then, a sample of
\* no duration at the time it starts.
SeekLands ==
  \A t \in Tracks : FitsSpan(t) =>
    \A when \in 0..(LoggedTime(t, Len(log[t]) + 1) - 1) :
      LET id == GetSampleIdFromTime(track[t], when)
      IN /\ id \in DOMAIN log[t]
         /\ LoggedTime(t, id) = when
              \/ (LoggedTime(t, id) < when /\ when < LoggedTime(t, id + 1))

\* After MP4Optimize the chunks of all tracks lie in the order of their times.
InTimeOrder ==
  optimized /\ mode = "closed" /\ Numbered =>
    \A t, u \in Tracks : FitsSpan(t) /\ FitsSpan(u) =>
      \A c \in DOMAIN track[t].chunks, d \in DOMAIN track[u].chunks :
        track[t].chunks[c] < track[u].chunks[d] => ChunkMovieTime(t, c) <= ChunkMovieTime(u, d)
=============================================================================

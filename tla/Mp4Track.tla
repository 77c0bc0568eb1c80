------------------------------- MODULE Mp4Track -------------------------------
(***************************************************************************)
(* The tables of one track of an MP4 file (mp4v2, MP4Track): how           *)
(* WriteSample extends them, and how ReadSample finds a sample in them.    *)
(* A track is a record: what the atoms of the file hold (fixed, sizes,     *)
(* count: stsz; stts; ctts; stss; stsc; chunks: stco; duration: mdhd), and *)
(* the members of the MP4Track object, which start anew each time the file *)
(* is opened (Opened).                                                     *)
(*                                                                         *)
(* A byte of the file is a pair of the track and the number of the sample  *)
(* it belongs to; a table of runs (stts, ctts) is a sequence of rows that  *)
(* say n samples in a row have the value v.                                *)
(***************************************************************************)
EXTENDS Integers, SequencesExt

CONSTANTS NumTracks,      \* m_pTracks.Size()
          TimeScale,      \* the ticks per second of each track
          FixedDuration,  \* the sample duration each track is created with
          Span            \* the values a 32-bit field of the file can have

Tracks == 1..NumTracks

ASSUME Mp4Assumption ==
  /\ NumTracks \in Nat \ {0}
  /\ TimeScale \in [Tracks -> Nat \ {0}]
  /\ FixedDuration \in [Tracks -> Nat]
  /\ Span \in Nat \ {0}

\* No cached row: MP4_INVALID_SAMPLE_ID.
NoCache  == [index |-> 1, sid |-> 0, elapsed |-> 0]
FirstRow == [index |-> 1, sid |-> 1, elapsed |-> 0]

\* The track when its file is opened with sample duration d: the constructor
\* starts to count the samples it writes at 1, whatever the file holds.
Fresh(tr, d) ==
  [tr EXCEPT !.next = 1, !.buffer = <<>>, !.samples = 0, !.elapsed = 0,
             !.fixedDuration = d, !.sttsCache = NoCache, !.cttsCache = NoCache]

NewTrack(t) ==
  [size |-> 0, sizes |-> <<>>, count |-> 0, stts |-> <<>>,
   hasCtts |-> FALSE, ctts |-> <<>>, hasStss |-> FALSE, stss |-> <<>>,
   stsc |-> <<>>, chunks |-> <<>>, duration |-> 0,
   next |-> 1, buffer |-> <<>>, samples |-> 0, elapsed |-> 0,
   fixedDuration |-> FixedDuration[t], sttsCache |-> NoCache, cttsCache |-> NoCache]

\* v[m] + ... + v[n].
SumOver(v, m, n) ==
  LET sum[i \in Int] == IF i < m THEN 0 ELSE sum[i - 1] + v[i] IN sum[n]

\* How many samples each row of a table of runs has, and how long they last
\* together, a product of 32 bits.
Counts(rows)  == [i \in DOMAIN rows |-> rows[i].n]
Lengths(rows) == [i \in DOMAIN rows |-> (rows[i].n * rows[i].v) % Span]

\* The first sample of row i, and the time at which it starts.
SidAt(rows, i)   == 1 + SumOver(Counts(rows), 1, i - 1)
Elapsed(rows, i) == SumOver(Lengths(rows), 1, i - 1)

-----------------------------------------------------------------------------
(* Writing a sample.                                                       *)

\* Mutant: "wmay - if we are adding, we want to make sure that we don't
\* inadvertently set up the fixed size again": without that check.
IsFirstOfSession(tr) == tr.next = 1

IsFirst(tr) == tr.next = 1 /\ tr.count = 0

\* The size is kept once for all samples until one differs; then each sample
\* has its own, those before it included.
UpdateSampleSizes(tr, n) ==
  [tr EXCEPT
     !.size  = IF IsFirst(tr) \/ n = @ THEN n ELSE 0,
     !.sizes = IF IsFirst(tr) THEN (IF n = 0 THEN <<0>> ELSE @)
               ELSE IF tr.size # 0 /\ n = tr.size THEN @
               ELSE (IF tr.size # 0 THEN @ \o [i \in 1..tr.count |-> tr.size] ELSE @) \o <<n>>,
     !.count = @ + 1]

\* Mutant: a value is kept at 64 bits.
AddToRowsWide(rows, v) ==
  IF rows # <<>> /\ v = Last(rows).v
  THEN [rows EXCEPT ![Len(rows)].n = @ + 1]
  ELSE Append(rows, [n |-> 1, v |-> v])

\* A run longer by one, or a new one; the values are compared at 64 bits but
\* kept in 32.
AddToRows(rows, v) ==
  IF rows # <<>> /\ v = Last(rows).v
  THEN [rows EXCEPT ![Len(rows)].n = @ + 1]
  ELSE Append(rows, [n |-> 1, v |-> v % Span])

UpdateSampleTimes(tr, d) == [tr EXCEPT !.stts = AddToRows(@, d)]

\* Mutant: the samples before the first one with an offset get no row.
UpdateRenderingOffsetsNoPad(tr, id, o) ==
  IF ~tr.hasCtts /\ o = 0 THEN tr
  ELSE [tr EXCEPT !.hasCtts = TRUE, !.ctts = AddToRows(@, o)]

\* The table starts with the first sample that has an offset, with a row for
\* the samples id says come before it.
UpdateRenderingOffsets(tr, id, o) ==
  LET before == IF ~tr.hasCtts /\ id > 1 THEN <<[n |-> id - 1, v |-> 0]>> ELSE tr.ctts
  IN IF ~tr.hasCtts /\ o = 0 THEN tr
     ELSE [tr EXCEPT !.hasCtts = TRUE, !.ctts = AddToRows(before, o)]

\* Mutant: the samples before the first one that is not a sync sample get no
\* entries.
UpdateSyncSamplesNoPad(tr, id, sync) ==
  IF sync
  THEN IF tr.hasStss THEN [tr EXCEPT !.stss = Append(@, id)] ELSE tr
  ELSE [tr EXCEPT !.hasStss = TRUE]

\* The table starts with the first sample that is not a sync sample: all
\* samples before it, by the number of samples, are.
UpdateSyncSamples(tr, id, sync) ==
  IF tr.hasStss
  THEN IF sync THEN [tr EXCEPT !.stss = Append(@, id)] ELSE tr
  ELSE IF sync THEN tr
       ELSE [tr EXCEPT !.hasStss = TRUE, !.stss = [i \in 1..(tr.count - 1) |-> i]]

\* MP4_INVALID_DURATION: the samples of a track do not all have one duration.
NotFixed == -1

GetFixedSampleDuration(tr) ==
  CASE Len(tr.stts) = 0 -> tr.fixedDuration
    [] Len(tr.stts) = 1 -> Head(tr.stts).v
    [] OTHER            -> NotFixed

\* WriteSample up to the point where the chunk may be written.
Taken(tr, bytes, d, o, sync) ==
  LET buffered == [tr EXCEPT !.buffer = @ \o bytes, !.samples = @ + 1, !.elapsed = @ + d]
      sized    == UpdateSampleSizes(buffered, Len(bytes))
      timed    == UpdateSampleTimes(sized, d)
  IN UpdateSyncSamples(UpdateRenderingOffsets(timed, tr.next, o), tr.next, sync)

\* A chunk is one second of samples.
IsChunkFull(t, tr) == tr.elapsed >= TimeScale[t]

\* A new row unless the chunk has as many samples as the one before; its first
\* sample is counted back from the sample that is being written.
UpdateSampleToChunk(tr) ==
  IF tr.stsc # <<>> /\ Last(tr.stsc).per = tr.samples THEN tr.stsc
  ELSE Append(tr.stsc, [chunk |-> Len(tr.chunks) + 1, per |-> tr.samples,
                        first |-> (tr.next - tr.samples + 1) % Span])

\* WriteChunkBuffer at position pos of the file; samples of no bytes stay
\* behind in m_chunkSamples.
WriteChunkBuffer(tr, pos) ==
  IF tr.buffer = <<>> THEN tr
  ELSE [tr EXCEPT !.stsc = UpdateSampleToChunk(tr), !.chunks = Append(@, pos),
                  !.buffer = <<>>, !.samples = 0, !.elapsed = 0]

-----------------------------------------------------------------------------
(* Finding a sample.                                                       *)

GetSampleSize(tr, id) == IF tr.size # 0 THEN tr.size ELSE tr.sizes[id]

\* The row of a table of runs that has sample id, as a cached position, when
\* the search starts at position p; index 0 when there is none.
RowFrom(rows, p, id) ==
  LET sid(i) == p.sid + SumOver(Counts(rows), p.index, i - 1)
      found  == {i \in p.index..Len(rows) : id <= sid(i) + rows[i].n - 1}
      i      == Min(found)
  IN IF found = {} THEN [index |-> 0, sid |-> 0, elapsed |-> 0]
     ELSE [index |-> i, sid |-> sid(i),
           elapsed |-> p.elapsed + SumOver(Lengths(rows), p.index, i - 1)]

\* Mutant: the cached row is used for every sample.
CachedAlways(cache, id) == IF cache.sid # 0 THEN cache ELSE FirstRow

\* The search starts at the cached row unless the sample lies before it.
Cached(cache, id) == IF cache.sid # 0 /\ id >= cache.sid THEN cache ELSE FirstRow

\* The cache after a search: a search that fails leaves all but the index.
CacheAfter(rows, cache, id) ==
  LET row == RowFrom(rows, Cached(cache, id), id)
  IN IF row.index # 0 THEN row ELSE [cache EXCEPT !.index = Cached(cache, id).index]

\* Start and duration of the sample that a search of stts has found in a row.
TimesAt(tr, row, id) ==
  [start |-> row.elapsed + (id - row.sid) * tr.stts[row.index].v,
   duration |-> tr.stts[row.index].v]

\* GetSampleTimes with an empty cache.
GetSampleTimes(tr, id) == TimesAt(tr, RowFrom(tr.stts, FirstRow, id), id)

\* Mutant: the time is not counted from the start of the row.
SampleInRowAbsolute(tr, i, when) ==
  SidAt(tr.stts, i) + (IF tr.stts[i].v = 0 THEN 0 ELSE when \div tr.stts[i].v)

SampleInRow(tr, i, when) ==
  SidAt(tr.stts, i)
    + (IF tr.stts[i].v = 0 THEN 0 ELSE (when - Elapsed(tr.stts, i)) \div tr.stts[i].v)

\* GetSampleIdFromTime; 0 when the time is out of range.  The end of a row
\* still belongs to it, and gives the first sample of the next one.
GetSampleIdFromTime(tr, when) ==
  LET rows == {i \in DOMAIN tr.stts : when - Elapsed(tr.stts, i) <= Lengths(tr.stts)[i]}
  IN IF rows = {} THEN 0 ELSE SampleInRow(tr, Min(rows), when)

\* GetNextSyncSample: 0 when no sync sample follows.
GetNextSyncSample(tr, id) ==
  LET later == {i \in DOMAIN tr.stss : id <= tr.stss[i]}
  IN IF ~tr.hasStss THEN id ELSE IF later = {} THEN 0 ELSE tr.stss[Min(later)]

GetSampleRenderingOffset(tr, id) ==
  LET row == RowFrom(tr.ctts, FirstRow, id)
  IN IF tr.ctts = <<>> THEN 0 ELSE IF row.index = 0 THEN -1 ELSE tr.ctts[row.index].v

\* IsSyncSample: a search that goes below the first entry reads the table at
\* index 2^31 and fails.
IsSyncSample(tr, id) ==
  LET ends == {lr \in (0..Len(tr.stss)) \X (0..Len(tr.stss)) : lr[1] <= lr[2]}
      search[lr \in ends] ==      \* the entries lr[1]+1 .. lr[2]
        LET m == (lr[1] + lr[2] - 1) \div 2
        IN IF lr[2] = 0 THEN "error"
           ELSE IF lr[1] = lr[2] THEN "no"
           ELSE IF id = tr.stss[m + 1] THEN "yes"
           ELSE IF id > tr.stss[m + 1] THEN search[<<m + 1, lr[2]>>]
           ELSE search[<<lr[1], m>>]
  IN IF tr.hasStss THEN search[<<0, Len(tr.stss)>>] ELSE "yes"

\* GetSampleStscIndex; 0 when the sample is before the first row, or there is
\* no row.
GetSampleStscIndex(tr, id) ==
  LET later == {i \in DOMAIN tr.stsc : id < tr.stsc[i].first}
  IN IF later = {} THEN Len(tr.stsc) ELSE Min(later) - 1

\* GetSampleFileOffset; -1 when the tables lead to no chunk, or a sample before
\* this one in the chunk has no size.
GetSampleFileOffset(tr, id) ==
  LET row    == tr.stsc[GetSampleStscIndex(tr, id)]
      chunk  == row.chunk + (id - row.first) \div row.per
      before == (id - ((id - row.first) % row.per))..(id - 1)
  IN IF \/ GetSampleStscIndex(tr, id) = 0
        \/ chunk > Len(tr.chunks)
        \/ tr.size = 0 /\ ~(before \subseteq DOMAIN tr.sizes)
     THEN -1
     ELSE tr.chunks[chunk] + SumOver([i \in before |-> GetSampleSize(tr, i)], Min(before \cup {id}), id - 1)

\* Mutant: a row is taken for one chunk.
ReadStscOneChunk(stsc) ==
  [i \in DOMAIN stsc |->
     [stsc[i] EXCEPT !.first = (1 + SumOver([k \in DOMAIN stsc |-> stsc[k].per], 1, i - 1)) % Span]]

\* MP4StscAtom::Read: the first sample of each row, when the file is read.
ReadStsc(stsc) ==
  LET samples == [k \in 1..(Len(stsc) - 1) |-> (stsc[k + 1].chunk - stsc[k].chunk) * stsc[k].per]
  IN [i \in DOMAIN stsc |->
        [stsc[i] EXCEPT !.first = (1 + SumOver(samples, 1, i - 1)) % Span]]

\* A track read from the file.
Loaded(tr) == [Fresh(tr, 0) EXCEPT !.stsc = ReadStsc(@)]

\* The caches after ReadSample has the bytes: it asks for the times of the sample.
AfterRead(tr, id) ==
  IF GetSampleFileOffset(tr, id) < 0 THEN tr
  ELSE [tr EXCEPT !.sttsCache = CacheAfter(tr.stts, @, id),
                  !.cttsCache = IF tr.ctts = <<>> THEN @ ELSE CacheAfter(tr.ctts, @, id)]

-----------------------------------------------------------------------------
(* Changing the rendering offset of a sample.                              *)

\* The row of the table that has sample id is cut in three.
Split(rows, row, id, o) ==
  LET i == row.index
      before == id - row.sid
      after  == row.sid + rows[i].n - 1 - id
      run(n, v) == IF n > 0 THEN <<[n |-> n, v |-> v]>> ELSE <<>>
  IN SubSeq(rows, 1, i - 1) \o run(before, rows[i].v) \o run(1, o % Span)
       \o run(after, rows[i].v) \o SubSeq(rows, i + 1, Len(rows))

\* Mutant: nothing is said of the samples after the first one with an offset.
FirstOffsetOnly(tr, id, o) == UpdateRenderingOffsets(tr, id, o)

\* The table as it starts with the offset of sample id.
FirstOffset(tr, id, o) ==
  LET begun == UpdateRenderingOffsets(tr, id, o)
      after == tr.count - id
  IN IF after = 0 THEN begun
     ELSE [begun EXCEPT !.ctts = Append(@, [n |-> after, v |-> 0])]

SetOffset(tr, id, o) ==
  LET row   == RowFrom(tr.ctts, Cached(tr.cttsCache, id), id)
      asked == [tr EXCEPT !.cttsCache = CacheAfter(tr.ctts, @, id)]
  IN IF row.index = 0 \/ o = tr.ctts[row.index].v THEN asked
     ELSE [asked EXCEPT !.ctts = Split(@, row, id, o)]

\* A first offset of 0 for a sample that others follow writes to a table that
\* is not there.
NoTable(tr, id, o) == ~tr.hasCtts /\ o = 0 /\ id < tr.count

-----------------------------------------------------------------------------
(* Chunks.                                                                 *)

GetChunkStscIndex(tr, c) == Max({i \in DOMAIN tr.stsc : tr.stsc[i].chunk <= c})

\* The samples of a chunk, as stsc has them.
ChunkSamples(tr, c) ==
  LET row   == tr.stsc[GetChunkStscIndex(tr, c)]
      first == row.first + (c - row.chunk) * row.per
  IN first..(first + row.per - 1)

GetChunkTime(tr, c) == GetSampleTimes(tr, Min(ChunkSamples(tr, c))).start

\* stsz has a size for each sample of the chunk; otherwise the array of sizes
\* throws.
ChunkIsSized(tr, c) == tr.size # 0 \/ ChunkSamples(tr, c) \subseteq DOMAIN tr.sizes

GetChunkSize(tr, c) ==
  LET ids == ChunkSamples(tr, c)
  IN SumOver([i \in ids |-> GetSampleSize(tr, i)], Min(ids), Max(ids))
=============================================================================

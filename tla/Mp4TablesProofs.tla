--------------------------- MODULE Mp4TablesProofs ---------------------------
(***************************************************************************)
(* What the tables of a track say of the samples that were written to it,  *)
(* and how the operations on a track keep that: Recorded(tr, samples,      *)
(* stray) holds when stsz, stts and - unless WriteSample has numbered a    *)
(* sample wrongly (stray) - ctts and stss describe these very samples; and *)
(* Chunked(tr, t, samples, med) when the chunks of stsc and stco, and the  *)
(* buffer, hold the bytes of these samples, one after the other.           *)
(***************************************************************************)
EXTENDS Mp4TrackProofs, FiniteSetTheorems

Sample == [bytes : Nat, duration : Nat, offset : Nat, sync : BOOLEAN]

\* A field no proof looks into is in the set of itself, so that an update of
\* one field is known to leave the others.
IsTrack(tr) ==
  /\ tr \in [size : Nat, sizes : Seq(Nat), count : Nat, stts : Seq(Row),
             hasCtts : BOOLEAN, ctts : Seq(Row), hasStss : BOOLEAN, stss : Seq(Nat \ {0}),
             stsc : {tr.stsc}, chunks : {tr.chunks}, duration : Nat,
             next : Nat \ {0}, buffer : {tr.buffer}, samples : Nat, elapsed : Nat,
             fixedDuration : Nat, sttsCache : {tr.sttsCache}, cttsCache : {tr.cttsCache}]
  /\ CacheOK(tr.stts, tr.sttsCache) /\ CacheOK(tr.ctts, tr.cttsCache)
  /\ tr.hasCtts <=> tr.ctts # <<>>

\* b is a track with the tables of a.
Same(a, b) ==
  /\ IsTrack(b)
  /\ b.size = a.size /\ b.sizes = a.sizes /\ b.count = a.count /\ b.stts = a.stts
  /\ b.hasCtts = a.hasCtts /\ b.ctts = a.ctts /\ b.hasStss = a.hasStss /\ b.stss = a.stss
  /\ b.duration = a.duration

LEMMA Within ==
  ASSUME NEW x \in Nat, x < Span
  PROVE  x % Span = x
BY Mp4Assumption

LEMMA SameTransitive ==
  ASSUME NEW a, NEW b, NEW c, Same(a, b), Same(b, c)
  PROVE  Same(a, c)
BY DEF Same

LEMMA SameItself ==
  ASSUME NEW tr, IsTrack(tr)
  PROVE  Same(tr, tr)
BY DEF Same

LEMMA NoCacheOK ==
  ASSUME NEW rows
  PROVE  CacheOK(rows, NoCache)
BY DEF CacheOK, NoCache

(***************************************************************************)
(* The operations that leave the tables.                                   *)
(***************************************************************************)

LEMMA FreshSame ==
  ASSUME NEW tr, IsTrack(tr), NEW d \in Nat
  PROVE  Same(tr, Fresh(tr, d))
<1> DEFINE first == [tr EXCEPT !.next = 1]
           idle  == [first EXCEPT !.buffer = <<>>, !.samples = 0, !.elapsed = 0]
<1>1. Same(tr, first)
  <2>1. ASSUME NEW k \in Nat \ {0}
        PROVE  Same(tr, [tr EXCEPT !.next = k])
    BY DEF IsTrack, Same
  <2> QED
    BY <2>1
<1>2. ASSUME NEW a, IsTrack(a), NEW x
      PROVE  Same(a, [a EXCEPT !.buffer = x, !.samples = 0, !.elapsed = 0])
  BY <1>2 DEF IsTrack, Same
<1>3. Same(tr, idle)
  <2> HIDE DEF first
  <2>1. IsTrack(first)
    BY <1>1 DEF Same
  <2>2. Same(first, idle)
    BY <1>2, <2>1
  <2> HIDE DEF idle
  <2> QED
    BY <1>1, <2>2, SameTransitive
<1>4. Fresh(tr, d) = [idle EXCEPT !.fixedDuration = d, !.sttsCache = NoCache, !.cttsCache = NoCache]
  BY DEF Fresh
<1> HIDE DEF idle
<1>5. ASSUME NEW c, CacheOK(idle.stts, c), CacheOK(idle.ctts, c)
      PROVE  Same(idle, [idle EXCEPT !.fixedDuration = d, !.sttsCache = c, !.cttsCache = c])
  BY <1>3, <1>5 DEF IsTrack, Same
<1>6. Same(idle, Fresh(tr, d))
  BY <1>4, <1>5, NoCacheOK
<1> QED
  BY <1>3, <1>6, SameTransitive

LEMMA LoadedSame ==
  ASSUME NEW tr, IsTrack(tr)
  PROVE  Same(tr, Loaded(tr))
<1>1. Same(tr, Fresh(tr, 0))
  BY FreshSame
<1> DEFINE a == Fresh(tr, 0)
<1>2. Loaded(tr) = [a EXCEPT !.stsc = ReadStsc(a.stsc)]
  BY DEF Loaded
<1> HIDE DEF a
<1>3. \A x : Same(a, [a EXCEPT !.stsc = x])
  BY <1>1 DEF a, Same, IsTrack
<1> QED
  BY <1>1, <1>2, <1>3, SameTransitive DEF a

LEMMA WriteChunkBufferSame ==
  ASSUME NEW tr, IsTrack(tr), NEW pos
  PROVE  Same(tr, WriteChunkBuffer(tr, pos))
<1>1. ASSUME NEW x, NEW y, NEW z
      PROVE  Same(tr, [tr EXCEPT !.stsc = x, !.chunks = y, !.buffer = z, !.samples = 0, !.elapsed = 0])
  BY DEF IsTrack, Same
<1>2. CASE tr.buffer = <<>>
  BY <1>2, SameItself DEF WriteChunkBuffer
<1>3. CASE tr.buffer # <<>>
  BY <1>1, <1>3 DEF WriteChunkBuffer
<1> QED
  BY <1>2, <1>3

\* A search moves a cache, and leaves it right.
LEMMA SearchedSame ==
  ASSUME NEW tr, IsTrack(tr), NEW id \in Int
  PROVE  /\ Same(tr, [tr EXCEPT !.sttsCache = CacheAfter(tr.stts, @, id)])
         /\ Same(tr, [tr EXCEPT !.cttsCache = CacheAfter(tr.ctts, @, id)])
<1>1. CacheOK(tr.stts, CacheAfter(tr.stts, tr.sttsCache, id))
  BY CacheKept DEF IsTrack
<1>2. CacheOK(tr.ctts, CacheAfter(tr.ctts, tr.cttsCache, id))
  BY CacheKept DEF IsTrack
<1>3. ASSUME NEW x, CacheOK(tr.stts, x)
      PROVE  Same(tr, [tr EXCEPT !.sttsCache = x])
  BY <1>3 DEF IsTrack, Same
<1>4. ASSUME NEW x, CacheOK(tr.ctts, x)
      PROVE  Same(tr, [tr EXCEPT !.cttsCache = x])
  BY <1>4 DEF IsTrack, Same
<1> QED
  BY <1>1, <1>2, <1>3, <1>4

LEMMA AfterReadSame ==
  ASSUME NEW tr, IsTrack(tr), NEW id \in Int
  PROVE  Same(tr, AfterRead(tr, id))
<1> DEFINE a == CacheAfter(tr.stts, tr.sttsCache, id)
           b == CacheAfter(tr.ctts, tr.cttsCache, id)
           timed == [tr EXCEPT !.sttsCache = a]
<1>1. CacheOK(tr.stts, a) /\ CacheOK(tr.ctts, b) /\ CacheOK(tr.ctts, tr.cttsCache)
  BY CacheKept DEF IsTrack
<1>2. AfterRead(tr, id) = IF GetSampleFileOffset(tr, id) < 0 THEN tr
        ELSE [tr EXCEPT !.sttsCache = a, !.cttsCache = IF tr.ctts = <<>> THEN tr.cttsCache ELSE b]
  BY DEF AfterRead
<1> HIDE DEF a, b
<1>3. ASSUME NEW x, CacheOK(tr.ctts, x)
      PROVE  Same(tr, [tr EXCEPT !.sttsCache = a, !.cttsCache = x])
  BY <1>1, <1>3 DEF IsTrack, Same
<1> QED
  BY <1>1, <1>2, <1>3, SameItself

(***************************************************************************)
(* What the tables say.                                                    *)
(***************************************************************************)

DurationsOf(samples) == [i \in 1..Len(samples) |-> samples[i].duration % Span]
OffsetsOf(samples)   == [i \in 1..Len(samples) |-> samples[i].offset % Span]
SyncOf(samples)      == {i \in 1..Len(samples) : samples[i].sync}

\* Either one size stands for all samples, and there is no table, or the table
\* has each of them.
Sized(tr, samples) ==
  /\ tr.count = Len(samples)
  /\ IF tr.size # 0
     THEN tr.sizes = <<>> /\ \A id \in 1..Len(samples) : samples[id].bytes = tr.size
     ELSE /\ Len(tr.sizes) = Len(samples)
          /\ \A id \in 1..Len(samples) : tr.sizes[id] = samples[id].bytes

Timed(tr, samples) == RunsOf(tr.stts, Len(samples), DurationsOf(samples))

\* Without a table no sample has an offset.
Shifted(tr, samples) ==
  IF tr.hasCtts THEN RunsOf(tr.ctts, Len(samples), OffsetsOf(samples))
  ELSE \A id \in 1..Len(samples) : samples[id].offset % Span = 0

\* Without a table all samples are sync samples.
Synced(tr, samples) ==
  IF tr.hasStss THEN Enumerates(tr.stss, SyncOf(samples)) ELSE SyncOf(samples) = 1..Len(samples)

Recorded(tr, samples, stray) ==
  /\ Sized(tr, samples) /\ Timed(tr, samples)
  /\ ~stray => Shifted(tr, samples) /\ Synced(tr, samples)

LEMMA SameRecorded ==
  ASSUME NEW a, NEW b, Same(a, b), NEW samples, NEW stray, Recorded(a, samples, stray)
  PROVE  Recorded(b, samples, stray)
BY DEF Same, Recorded, Sized, Timed, Shifted, Synced
(***************************************************************************)
(* A sample more.                                                          *)
(***************************************************************************)

LEMMA AddedSample ==
  ASSUME NEW samples \in Seq(Sample), NEW e \in Sample
  PROVE  LET all == Append(samples, e)
         IN /\ all \in Seq(Sample) /\ Len(all) = Len(samples) + 1 /\ Len(samples) \in Nat
            /\ \A id \in 1..Len(samples) : all[id] = samples[id] /\ samples[id] \in Sample
            /\ all[Len(samples) + 1] = e
            /\ e.bytes \in Nat /\ e.duration \in Nat /\ e.offset \in Nat /\ e.sync \in BOOLEAN
<1>1. /\ Append(samples, e) \in Seq(Sample) /\ Len(Append(samples, e)) = Len(samples) + 1
      /\ Len(samples) \in Nat /\ Append(samples, e)[Len(samples) + 1] = e
      /\ \A id \in 1..Len(samples) : Append(samples, e)[id] = samples[id]
  BY AppendProperties, LenProperties
<1>2. \A id \in 1..Len(samples) : samples[id] \in Sample
  BY ElementOfSeq
<1> QED
  BY <1>1, <1>2 DEF Sample

\* The size stays, the first size is kept, or the table is made.
LEMMA UpdateSampleSizesSized ==
  ASSUME NEW tr, IsTrack(tr), NEW samples \in Seq(Sample), Sized(tr, samples),
         NEW e \in Sample
  PROVE  LET new == UpdateSampleSizes(tr, e.bytes)
         IN /\ IsTrack(new) /\ Sized(new, Append(samples, e))
            /\ new.count = tr.count + 1 /\ new.stts = tr.stts
            /\ new.hasCtts = tr.hasCtts /\ new.ctts = tr.ctts
            /\ new.hasStss = tr.hasStss /\ new.stss = tr.stss
            /\ new.next = tr.next /\ new.duration = tr.duration
<1> DEFINE n   == e.bytes
           new == UpdateSampleSizes(tr, n)
           all == Append(samples, e)
           filled == [i \in 1..tr.count |-> tr.size]
<1>1. n \in Nat
  BY DEF Sample
<1>2. /\ tr.size \in Nat /\ tr.sizes \in Seq(Nat) /\ tr.count \in Nat
      /\ tr.count = Len(samples)
  BY DEF IsTrack, Sized
<1>3. /\ Len(all) = Len(samples) + 1 /\ Len(samples) \in Nat
      /\ \A id \in 1..Len(samples) : all[id] = samples[id]
      /\ all[Len(samples) + 1] = e
  BY AddedSample
<1>4. /\ new.size = (IF IsFirst(tr) \/ n = tr.size THEN n ELSE 0)
      /\ new.count = tr.count + 1
      /\ new.sizes = IF IsFirst(tr) THEN (IF n = 0 THEN <<0>> ELSE tr.sizes)
                     ELSE IF tr.size # 0 /\ n = tr.size THEN tr.sizes
                     ELSE (IF tr.size # 0 THEN tr.sizes \o filled ELSE tr.sizes) \o <<n>>
  BY DEF IsTrack, UpdateSampleSizes
<1>5. /\ filled \in Seq(Nat) /\ Len(filled) = tr.count
      /\ \A id \in 1..tr.count : filled[id] = tr.size
  BY <1>2
<1>6. new.sizes \in Seq(Nat)
  <2>1. <<n>> \in Seq(Nat) /\ <<0>> \in Seq(Nat)
    BY <1>1
  <2>2. tr.sizes \o filled \in Seq(Nat)
    BY <1>2, <1>5, ConcatProperties
  <2>3. tr.sizes \o <<n>> \in Seq(Nat) /\ (tr.sizes \o filled) \o <<n>> \in Seq(Nat)
    BY <1>2, <2>1, <2>2, ConcatProperties
  <2> QED
    BY <1>2, <1>4, <2>1, <2>3
<1>7. /\ IsTrack(new)
      /\ new.stts = tr.stts /\ new.hasCtts = tr.hasCtts /\ new.ctts = tr.ctts
      /\ new.hasStss = tr.hasStss /\ new.stss = tr.stss
      /\ new.next = tr.next /\ new.duration = tr.duration
  <2>2. \E a, b, c : new = [tr EXCEPT !.size = a, !.sizes = b, !.count = c]
    BY DEF UpdateSampleSizes
  <2>3. PICK a, b, c : new = [tr EXCEPT !.size = a, !.sizes = b, !.count = c]
    BY <2>2
  <2>4. new.size = a /\ new.sizes = b /\ new.count = c
    BY <2>3 DEF IsTrack
  <2>5. new.size \in Nat /\ new.count \in Nat
    BY <1>1, <1>2, <1>4
  <2> HIDE DEF new
  <2>6. a \in Nat /\ b \in Seq(Nat) /\ c \in Nat
    BY <1>6, <2>4, <2>5
  <2> QED
    BY <2>3, <2>6 DEF IsTrack
<1>8. Sized(new, all)
  <2>1. CASE IsFirst(tr)
    <3>1. tr.count = 0 /\ Len(samples) = 0 /\ Len(all) = 1 /\ all[1] = e
      BY <1>2, <1>3, <2>1 DEF IsFirst
    <3>2. CASE n = 0
      BY <1>4, <2>1, <3>1, <3>2 DEF Sized
    <3>3. CASE n # 0
      <4>1. tr.sizes = <<>>
        BY <1>2, <3>1, EmptySeq DEF Sized
      <4> QED
        BY <1>1, <1>4, <2>1, <3>1, <3>3, <4>1 DEF Sized
    <3> QED
      BY <3>2, <3>3
  <2>2. CASE ~IsFirst(tr) /\ tr.size # 0 /\ n = tr.size
    BY <1>2, <1>3, <1>4, <2>2 DEF Sized
  <2>3. CASE ~IsFirst(tr) /\ tr.size # 0 /\ n # tr.size
    <3>1. tr.sizes = <<>> /\ \A id \in 1..Len(samples) : samples[id].bytes = tr.size
      BY <2>3 DEF Sized
    <3>2. new.size = 0 /\ new.sizes = filled \o <<n>>
      <4>1. <<>> \o filled = filled
        BY <1>5, ConcatEmptySeq
      <4> QED
        BY <1>4, <2>3, <3>1, <4>1
    <3>3. Len(new.sizes) = Len(all) /\ \A id \in 1..Len(all) : new.sizes[id] = all[id].bytes
      BY <1>2, <1>3, <1>5, <3>1, <3>2
    <3> QED
      BY <1>2, <1>3, <1>4, <3>2, <3>3 DEF Sized
  <2>4. CASE ~IsFirst(tr) /\ tr.size = 0
    <3>1. new.size = 0 /\ new.sizes = tr.sizes \o <<n>>
      BY <1>4, <2>4
    <3>2. Len(tr.sizes) = Len(samples) /\ \A id \in 1..Len(samples) : tr.sizes[id] = samples[id].bytes
      BY <2>4 DEF Sized
    <3>3. Len(new.sizes) = Len(all) /\ \A id \in 1..Len(all) : new.sizes[id] = all[id].bytes
      BY <1>2, <1>3, <3>1, <3>2
    <3> QED
      BY <1>2, <1>3, <1>4, <3>1, <3>3 DEF Sized
  <2> QED
    BY <2>1, <2>2, <2>3, <2>4
<1> HIDE DEF new
<1> QED
  BY <1>4, <1>7, <1>8 DEF new

LEMMA UpdateSampleTimesTimed ==
  ASSUME NEW tr, IsTrack(tr), NEW samples \in Seq(Sample), Timed(tr, samples), NEW e \in Sample
  PROVE  LET new == UpdateSampleTimes(tr, e.duration)
         IN /\ IsTrack(new) /\ Timed(new, Append(samples, e))
            /\ new.size = tr.size /\ new.sizes = tr.sizes /\ new.count = tr.count
            /\ new.hasCtts = tr.hasCtts /\ new.ctts = tr.ctts
            /\ new.hasStss = tr.hasStss /\ new.stss = tr.stss
            /\ new.next = tr.next /\ new.duration = tr.duration
<1> DEFINE all  == Append(samples, e)
           rows == AddToRows(tr.stts, e.duration)
<1>1. /\ Len(all) = Len(samples) + 1 /\ Len(samples) \in Nat
      /\ \A id \in 1..Len(samples) : all[id] = samples[id]
      /\ all[Len(samples) + 1] = e /\ e.duration \in Nat
  BY AddedSample
<1>2. tr.stts \in Seq(Row) /\ CacheOK(tr.stts, tr.sttsCache)
  BY DEF IsTrack
<1>3. rows \in Seq(Row) /\ CacheOK(rows, tr.sttsCache)
  BY <1>1, <1>2, AddedRows, CacheAfterAdd
<1>4. RunsOf(rows, Len(all), DurationsOf(all))
  <2> DEFINE old == DurationsOf(samples)
             new == DurationsOf(all)
             count == Len(samples)
  <2>1. /\ \A id \in 1..count : new[id] = old[id]
        /\ new[count + 1] = e.duration % Span
    BY <1>1 DEF DurationsOf
  <2>2. RunsOf(tr.stts, count, old)
    BY DEF Timed
  <2> HIDE DEF old, new, count
  <2>3. RunsOf(AddToRows(tr.stts, e.duration), count + 1, new)
    BY <1>1, <2>1, <2>2, RunsAdd
  <2> QED
    BY <1>1, <2>3 DEF new, count
<1> HIDE DEF rows
<1>5. ASSUME NEW x \in Seq(Row), CacheOK(x, tr.sttsCache)
      PROVE  LET new == [tr EXCEPT !.stts = x]
             IN /\ IsTrack(new) /\ new.stts = x
                /\ new.size = tr.size /\ new.sizes = tr.sizes /\ new.count = tr.count
                /\ new.hasCtts = tr.hasCtts /\ new.ctts = tr.ctts
                /\ new.hasStss = tr.hasStss /\ new.stss = tr.stss
                /\ new.next = tr.next /\ new.duration = tr.duration
  BY <1>5 DEF IsTrack
<1>6. UpdateSampleTimes(tr, e.duration) = [tr EXCEPT !.stts = rows]
  BY DEF UpdateSampleTimes, rows
<1> QED
  BY <1>3, <1>4, <1>5, <1>6 DEF Timed
\* The other tables stay, and the rows are those of UpdateRenderingOffsets.
LEMMA OffsetAdded ==
  ASSUME NEW tr, IsTrack(tr), NEW id \in Nat \ {0}, NEW o \in Nat
  PROVE  LET new == UpdateRenderingOffsets(tr, id, o)
         IN /\ IsTrack(new)
            /\ new.hasCtts = (tr.hasCtts \/ o # 0)
            /\ tr.hasCtts => new.ctts = AddToRows(tr.ctts, o)
            /\ ~tr.hasCtts /\ o # 0 =>
                 new.ctts = AddToRows(IF id > 1 THEN <<[n |-> id - 1, v |-> 0]>> ELSE <<>>, o)
            /\ new.size = tr.size /\ new.sizes = tr.sizes /\ new.count = tr.count
            /\ new.stts = tr.stts /\ new.hasStss = tr.hasStss /\ new.stss = tr.stss
            /\ new.next = tr.next /\ new.duration = tr.duration
<1> DEFINE first == IF id > 1 THEN <<[n |-> id - 1, v |-> 0]>> ELSE <<>>
           before == IF ~tr.hasCtts /\ id > 1 THEN <<[n |-> id - 1, v |-> 0]>> ELSE tr.ctts
           rows == AddToRows(before, o)
<1>1. /\ tr.ctts \in Seq(Row) /\ CacheOK(tr.ctts, tr.cttsCache)
      /\ tr.hasCtts \in BOOLEAN /\ (tr.hasCtts <=> tr.ctts # <<>>)
  BY DEF IsTrack
<1>2. before \in Seq(Row) /\ CacheOK(before, tr.cttsCache)
      /\ (tr.hasCtts => before = tr.ctts) /\ (~tr.hasCtts => before = first)
  <2>1. CASE ~tr.hasCtts /\ id > 1
    <3> DEFINE row == [n |-> id - 1, v |-> 0]
    <3>1. row \in Row
      BY <2>1, Mp4Assumption DEF Row
    <3> HIDE DEF row
    <3>2. <<row>> \in Seq(Row)
      BY <3>1
    <3>3. before = <<row>> /\ first = <<row>>
      BY <2>1 DEF row
    <3>4. CacheOK(<<row>>, tr.cttsCache)
      <4>1. tr.ctts = <<>> /\ Len(tr.ctts) = 0
        BY <1>1, <2>1, EmptySeq
      <4>2. tr.cttsCache.sid = 0
        BY <1>1, <4>1 DEF CacheOK
      <4> QED
        BY <1>1, <4>2 DEF CacheOK
    <3> HIDE DEF before, first
    <3> QED
      BY <2>1, <3>2, <3>3, <3>4
  <2>2. CASE ~(~tr.hasCtts /\ id > 1)
    BY <1>1, <2>2
  <2> QED
    BY <2>1, <2>2
<1> HIDE DEF before, first
<1>3. rows \in Seq(Row) /\ rows # <<>> /\ CacheOK(rows, tr.cttsCache)
  BY <1>2, AddedRows, CacheAfterAdd
<1>4. UpdateRenderingOffsets(tr, id, o) =
        IF ~tr.hasCtts /\ o = 0 THEN tr ELSE [tr EXCEPT !.hasCtts = TRUE, !.ctts = rows]
  BY DEF UpdateRenderingOffsets, before
<1> DEFINE new == UpdateRenderingOffsets(tr, id, o)
<1>5. CASE ~tr.hasCtts /\ o = 0
  <2>1. new = tr
    BY <1>4, <1>5
  <2> HIDE DEF new
  <2> QED
    BY <1>1, <1>5, <2>1 DEF new
<1>6. CASE ~(~tr.hasCtts /\ o = 0)
  <2> DEFINE x == [tr EXCEPT !.hasCtts = TRUE, !.ctts = rows]
  <2>1. new = x
    BY <1>4, <1>6
  <2> HIDE DEF rows, new
  <2>2. /\ IsTrack(x) /\ x.hasCtts = TRUE /\ x.ctts = rows
        /\ x.size = tr.size /\ x.sizes = tr.sizes /\ x.count = tr.count
        /\ x.stts = tr.stts /\ x.hasStss = tr.hasStss /\ x.stss = tr.stss
        /\ x.next = tr.next /\ x.duration = tr.duration
    BY <1>3 DEF IsTrack
  <2> HIDE DEF x
  <2>3. rows = AddToRows(before, o)
    BY DEF rows
  <2> QED
    BY <1>1, <1>2, <1>6, <2>1, <2>2, <2>3 DEF new, first
<1> QED
  BY <1>5, <1>6

LEMMA OffsetOthers ==
  ASSUME NEW tr, IsTrack(tr), NEW id \in Nat \ {0}, NEW o \in Nat
  PROVE  LET new == UpdateRenderingOffsets(tr, id, o)
         IN /\ IsTrack(new)
            /\ new.size = tr.size /\ new.sizes = tr.sizes /\ new.count = tr.count
            /\ new.stts = tr.stts /\ new.hasStss = tr.hasStss /\ new.stss = tr.stss
            /\ new.next = tr.next /\ new.duration = tr.duration
<1> DEFINE new == UpdateRenderingOffsets(tr, id, o)
<1>1. /\ IsTrack(new)
      /\ new.hasCtts = (tr.hasCtts \/ o # 0)
      /\ tr.hasCtts => new.ctts = AddToRows(tr.ctts, o)
      /\ ~tr.hasCtts /\ o # 0 =>
           new.ctts = AddToRows(IF id > 1 THEN <<[n |-> id - 1, v |-> 0]>> ELSE <<>>, o)
      /\ new.size = tr.size /\ new.sizes = tr.sizes /\ new.count = tr.count
      /\ new.stts = tr.stts /\ new.hasStss = tr.hasStss /\ new.stss = tr.stss
      /\ new.next = tr.next /\ new.duration = tr.duration
  BY OffsetAdded
<1> QED
  BY <1>1

LEMMA UpdateRenderingOffsetsShifted ==
  ASSUME NEW tr, IsTrack(tr), NEW samples \in Seq(Sample), Shifted(tr, samples), NEW e \in Sample
  PROVE  Shifted(UpdateRenderingOffsets(tr, Len(samples) + 1, e.offset), Append(samples, e))
<1> DEFINE all == Append(samples, e)
           count == Len(samples)
           id  == count + 1
           o   == e.offset
           new == UpdateRenderingOffsets(tr, id, o)
           old == OffsetsOf(samples)
           vals == OffsetsOf(all)
<1>1. /\ Len(all) = id /\ count \in Nat /\ id \in Nat \ {0} /\ o \in Nat
      /\ \A k \in 1..count : all[k] = samples[k]
      /\ all[id] = e
  BY AddedSample
<1>2. /\ \A k \in 1..count : vals[k] = old[k] /\ old[k] = samples[k].offset % Span
      /\ vals[id] = o % Span
  BY <1>1 DEF OffsetsOf
<1> HIDE DEF all, id, o, old, vals
<1>3. /\ new.hasCtts = (tr.hasCtts \/ o # 0)
      /\ tr.hasCtts => new.ctts = AddToRows(tr.ctts, o)
      /\ ~tr.hasCtts /\ o # 0 =>
           new.ctts = AddToRows(IF id > 1 THEN <<[n |-> id - 1, v |-> 0]>> ELSE <<>>, o)
  BY <1>1, OffsetAdded
<1> HIDE DEF new, count
<1>4. id = count + 1
  BY DEF id
<1>5. ASSUME tr.hasCtts
      PROVE  Shifted(new, all)
  <2>1. RunsOf(tr.ctts, count, old)
    BY <1>5 DEF Shifted, count, old
  <2>2. RunsOf(AddToRows(tr.ctts, o), count + 1, vals)
    BY <1>1, <1>2, <1>4, <2>1, RunsAdd
  <2> QED
    BY <1>1, <1>3, <1>4, <1>5, <2>2 DEF Shifted, vals
<1>6. ASSUME ~tr.hasCtts, o # 0
      PROVE  Shifted(new, all)
  <2>1. \A k \in 1..count : samples[k].offset % Span = 0
    BY <1>6 DEF Shifted, count
  <2>2. \A k \in 1..(id - 1) : vals[k] = 0
    BY <1>1, <1>2, <1>4, <2>1
  <2>3. RunsOf(AddToRows(IF id > 1 THEN <<[n |-> id - 1, v |-> 0]>> ELSE <<>>, o), id, vals)
    BY <1>1, <1>2, <2>2, RunsBegin
  <2> QED
    BY <1>1, <1>3, <1>6, <2>3 DEF Shifted, vals
<1>7. ASSUME ~tr.hasCtts, o = 0
      PROVE  Shifted(new, all)
  <2>1. \A k \in 1..count : samples[k].offset % Span = 0
    BY <1>7 DEF Shifted, count
  <2>2. 0 % Span = 0
    BY Mp4Assumption
  <2>3. \A k \in 1..Len(all) : all[k].offset % Span = 0
    BY <1>1, <1>4, <1>7, <2>1, <2>2 DEF o
  <2> QED
    BY <1>3, <1>7, <2>3 DEF Shifted
<1>8. Shifted(new, all)
  BY <1>5, <1>6, <1>7
<1> QED
  BY <1>8 DEF new, all, id, o, count

LEMMA UpdateSyncSamplesSynced ==
  ASSUME NEW tr, IsTrack(tr), NEW id \in Nat \ {0}, NEW sync \in BOOLEAN
  PROVE  LET new == UpdateSyncSamples(tr, id, sync)
         IN /\ IsTrack(new)
            /\ new.size = tr.size /\ new.sizes = tr.sizes /\ new.count = tr.count
            /\ new.stts = tr.stts /\ new.hasCtts = tr.hasCtts /\ new.ctts = tr.ctts
            /\ new.next = tr.next /\ new.duration = tr.duration
            /\ \A samples \in Seq(Sample), e \in Sample :
                 Synced(tr, samples) /\ id = Len(samples) + 1 /\ tr.count = id /\ sync = e.sync
                   => Synced(new, Append(samples, e))
<1> DEFINE new == UpdateSyncSamples(tr, id, sync)
           begun == [i \in 1..(tr.count - 1) |-> i]
           more == Append(tr.stss, id)
<1>1. /\ tr.stss \in Seq(Nat \ {0}) /\ tr.count \in Nat /\ tr.hasStss \in BOOLEAN
  BY DEF IsTrack
<1>2. more \in Seq(Nat \ {0})
  BY <1>1, AppendProperties
<1>3. begun \in Seq(Nat \ {0})
  <2>1. CASE tr.count = 0
    <3>1. 1..(tr.count - 1) = {} /\ 1..0 = {}
      BY <2>1
    <3>2. begun = [i \in 1..0 |-> i]
      BY <3>1
    <3>3. [i \in 1..0 |-> i] \in Seq(Nat \ {0})
      BY EnumeratesAll DEF Enumerates
    <3> QED
      BY <3>2, <3>3
  <2>2. CASE tr.count # 0
    <3>1. tr.count - 1 \in Nat
      BY <1>1, <2>2
    <3> QED
      BY <3>1, EnumeratesAll DEF Enumerates
  <2> QED
    BY <2>1, <2>2
<1>4. new = IF tr.hasStss THEN (IF sync THEN [tr EXCEPT !.stss = more] ELSE tr)
            ELSE IF sync THEN tr ELSE [tr EXCEPT !.hasStss = TRUE, !.stss = begun]
  BY DEF UpdateSyncSamples
<1> HIDE DEF new, begun, more
<1>5. /\ IsTrack(new)
      /\ new.size = tr.size /\ new.sizes = tr.sizes /\ new.count = tr.count
      /\ new.stts = tr.stts /\ new.hasCtts = tr.hasCtts /\ new.ctts = tr.ctts
      /\ new.next = tr.next /\ new.duration = tr.duration
      /\ new.hasStss = (tr.hasStss \/ ~sync)
      /\ new.stss = IF tr.hasStss THEN (IF sync THEN more ELSE tr.stss)
                    ELSE IF sync THEN tr.stss ELSE begun
  <2>1. CASE tr.hasStss /\ sync
    BY <1>2, <1>4, <2>1, ZenonT(30) DEF IsTrack
  <2>2. CASE ~tr.hasStss /\ ~sync
    BY <1>3, <1>4, <2>2, ZenonT(30) DEF IsTrack
  <2>3. CASE tr.hasStss /\ ~sync
    BY <1>4, <2>3
  <2>4. CASE ~tr.hasStss /\ sync
    BY <1>1, <1>4, <2>4
  <2> QED
    BY <1>1, <2>1, <2>2, <2>3, <2>4
<1>6. ASSUME NEW samples \in Seq(Sample), NEW e \in Sample,
             Synced(tr, samples), id = Len(samples) + 1, tr.count = id, sync = e.sync
      PROVE  Synced(new, Append(samples, e))
  <2> DEFINE all == Append(samples, e)
             count == Len(samples)
             S == SyncOf(samples)
             T == SyncOf(all)
  <2>1. /\ Len(all) = count + 1 /\ count \in Nat
        /\ \A k \in 1..count : all[k] = samples[k]
        /\ all[count + 1] = e
    BY AddedSample
  <2>2. S \subseteq 1..count /\ T = IF sync THEN S \cup {id} ELSE S
    BY <1>6, <2>1 DEF SyncOf
  <2>3. T = SyncOf(all) /\ id = count + 1
    BY <1>6
  <2>4. Synced(tr, samples) <=> IF tr.hasStss THEN Enumerates(tr.stss, S) ELSE S = 1..count
    BY DEF Synced
  <2> HIDE DEF S, T, all, count
  <2>5. CASE tr.hasStss /\ sync
    <3>1. Enumerates(tr.stss, S) /\ \A k \in S : k < id
      BY <1>6, <2>1, <2>2, <2>3, <2>4, <2>5
    <3>2. Enumerates(more, S \cup {id})
      BY <3>1, EnumeratesMore DEF more
    <3> QED
      BY <1>5, <2>2, <2>3, <2>5, <3>2 DEF Synced, all
  <2>6. CASE tr.hasStss /\ ~sync
    BY <1>5, <1>6, <2>2, <2>3, <2>4, <2>6 DEF Synced, all
  <2>7. CASE ~tr.hasStss /\ sync
    <3>1. T = 1..(count + 1)
      BY <1>6, <2>1, <2>2, <2>3, <2>4, <2>7
    <3> QED
      BY <1>5, <2>1, <2>3, <2>7, <3>1 DEF Synced, all
  <2>8. CASE ~tr.hasStss /\ ~sync
    <3>0. tr.count - 1 = count
      BY <1>6, <2>1, <2>3
    <3>1. T = 1..count
      BY <1>6, <2>2, <2>4, <2>8
    <3>2. Enumerates(begun, T)
      BY <2>1, <3>0, <3>1, EnumeratesAll DEF begun
    <3> QED
      BY <1>5, <2>3, <2>8, <3>2 DEF Synced, all
  <2> QED
    BY <1>1, <2>5, <2>6, <2>7, <2>8
<1> QED
  BY <1>5, <1>6 DEF new

\* WriteSample: the sample is in every table, under number tr.next; when that is
\* not the number of samples plus one, ctts and stss are not about it.
LEMMA TakenRecorded ==
  ASSUME NEW tr, IsTrack(tr), NEW samples \in Seq(Sample), NEW stray \in BOOLEAN,
         Recorded(tr, samples, stray), NEW e \in Sample, NEW bytes, Len(bytes) = e.bytes
  PROVE  LET taken == Taken(tr, bytes, e.duration, e.offset, e.sync)
         IN /\ IsTrack(taken) /\ taken.next = tr.next /\ taken.duration = tr.duration
            /\ Recorded(taken, Append(samples, e), stray \/ tr.next # tr.count + 1)
<1> DEFINE all      == Append(samples, e)
           buffered == [tr EXCEPT !.buffer = @ \o bytes, !.samples = @ + 1, !.elapsed = @ + e.duration]
           sized    == UpdateSampleSizes(buffered, Len(bytes))
           timed    == UpdateSampleTimes(sized, e.duration)
           shifted  == UpdateRenderingOffsets(timed, tr.next, e.offset)
           taken    == UpdateSyncSamples(shifted, tr.next, e.sync)
<1>1. /\ e.bytes \in Nat /\ e.duration \in Nat /\ e.offset \in Nat /\ e.sync \in BOOLEAN
      /\ Len(all) = Len(samples) + 1 /\ Len(samples) \in Nat
  BY AddedSample
<1>2. /\ tr.next \in Nat \ {0} /\ tr.count \in Nat /\ tr.count = Len(samples)
      /\ tr.samples \in Nat /\ tr.elapsed \in Nat
  BY DEF IsTrack, Recorded, Sized
<1>3. Same(tr, buffered) /\ buffered.next = tr.next
  <2>1. ASSUME NEW x, NEW y \in Nat, NEW z \in Nat
        PROVE  LET b == [tr EXCEPT !.buffer = x, !.samples = y, !.elapsed = z]
               IN Same(tr, b) /\ b.next = tr.next
    BY DEF IsTrack, Same
  <2>2. tr.samples + 1 \in Nat /\ tr.elapsed + e.duration \in Nat
    BY <1>1, <1>2
  <2>3. buffered = [tr EXCEPT !.buffer = tr.buffer \o bytes, !.samples = tr.samples + 1,
                              !.elapsed = tr.elapsed + e.duration]
    OBVIOUS
  <2>4. LET b == [tr EXCEPT !.buffer = tr.buffer \o bytes, !.samples = tr.samples + 1,
                            !.elapsed = tr.elapsed + e.duration]
        IN Same(tr, b) /\ b.next = tr.next
    BY <2>1, <2>2, ZenonT(30)
  <2> HIDE DEF buffered
  <2> QED
    BY <2>3, <2>4
<1>4. IsTrack(buffered) /\ Recorded(buffered, samples, stray) /\ buffered.count = tr.count
      /\ buffered.duration = tr.duration
  <2> HIDE DEF buffered
  <2> QED
    BY <1>3, SameRecorded DEF Same
<1> HIDE DEF all
<1>5. /\ IsTrack(sized) /\ Sized(sized, all) /\ Timed(sized, samples)
      /\ ~stray => Shifted(sized, samples) /\ Synced(sized, samples)
      /\ sized.count = tr.count + 1 /\ sized.next = tr.next /\ sized.duration = tr.duration
  <2>1. Len(bytes) = e.bytes
    OBVIOUS
  <2> HIDE DEF buffered
  <2>2. Sized(buffered, samples)
    BY <1>4 DEF Recorded
  <2> DEFINE s == UpdateSampleSizes(buffered, e.bytes)
  <2>3. /\ IsTrack(s) /\ Sized(s, Append(samples, e))
        /\ s.count = buffered.count + 1 /\ s.stts = buffered.stts
        /\ s.hasCtts = buffered.hasCtts /\ s.ctts = buffered.ctts
        /\ s.hasStss = buffered.hasStss /\ s.stss = buffered.stss
        /\ s.next = buffered.next /\ s.duration = buffered.duration
    BY <1>4, <2>2, UpdateSampleSizesSized
  <2>4. sized = s
    BY <2>1
  <2> HIDE DEF s, sized
  <2> QED
    BY <1>3, <1>4, <2>3, <2>4 DEF Recorded, Timed, Shifted, Synced, all
<1>6. /\ IsTrack(timed) /\ Sized(timed, all) /\ Timed(timed, all)
      /\ ~stray => Shifted(timed, samples) /\ Synced(timed, samples)
      /\ timed.count = tr.count + 1 /\ timed.next = tr.next /\ timed.duration = tr.duration
  <2> HIDE DEF sized
  <2>1. /\ IsTrack(timed) /\ Timed(timed, Append(samples, e))
        /\ timed.size = sized.size /\ timed.sizes = sized.sizes /\ timed.count = sized.count
        /\ timed.hasCtts = sized.hasCtts /\ timed.ctts = sized.ctts
        /\ timed.hasStss = sized.hasStss /\ timed.stss = sized.stss
        /\ timed.next = sized.next /\ timed.duration = sized.duration
    BY <1>5, UpdateSampleTimesTimed
  <2> HIDE DEF timed
  <2> QED
    BY <1>5, <2>1 DEF Sized, Shifted, Synced, all
<1>7. /\ IsTrack(shifted) /\ Sized(shifted, all) /\ Timed(shifted, all)
      /\ ~stray => Synced(shifted, samples)
      /\ shifted.count = tr.count + 1 /\ shifted.next = tr.next /\ shifted.duration = tr.duration
  <2> HIDE DEF timed
  <2>1. /\ IsTrack(shifted)
        /\ shifted.size = timed.size /\ shifted.sizes = timed.sizes /\ shifted.count = timed.count
        /\ shifted.stts = timed.stts /\ shifted.hasStss = timed.hasStss /\ shifted.stss = timed.stss
        /\ shifted.next = timed.next /\ shifted.duration = timed.duration
    <3>1. IsTrack(timed) /\ tr.next \in Nat \ {0} /\ e.offset \in Nat
      BY <1>1, <1>2, <1>6
    <3> QED
      BY <3>1, OffsetOthers
  <2> HIDE DEF shifted
  <2> QED
    BY <1>6, <2>1 DEF Sized, Timed, Synced
<1>8. ~stray /\ tr.next = tr.count + 1 => Shifted(shifted, all)
  <2> HIDE DEF timed
  <2>1. SUFFICES ASSUME ~stray, tr.next = tr.count + 1
                 PROVE  Shifted(shifted, all)
    OBVIOUS
  <2>2. Shifted(timed, samples) /\ tr.next = Len(samples) + 1
    BY <1>2, <1>6, <2>1
  <2> QED
    BY <1>6, <2>2, UpdateRenderingOffsetsShifted DEF all
<1>9. /\ IsTrack(taken) /\ Sized(taken, all) /\ Timed(taken, all)
      /\ ~stray /\ tr.next = tr.count + 1 => Shifted(taken, all) /\ Synced(taken, all)
      /\ taken.next = tr.next /\ taken.duration = tr.duration
  <2> HIDE DEF shifted
  <2>1. /\ IsTrack(taken)
        /\ taken.size = shifted.size /\ taken.sizes = shifted.sizes /\ taken.count = shifted.count
        /\ taken.stts = shifted.stts /\ taken.hasCtts = shifted.hasCtts /\ taken.ctts = shifted.ctts
        /\ taken.next = shifted.next /\ taken.duration = shifted.duration
        /\ Synced(shifted, samples) /\ tr.next = Len(samples) + 1 /\ shifted.count = tr.next
             => Synced(taken, Append(samples, e))
    BY <1>1, <1>2, <1>7, UpdateSyncSamplesSynced, ZenonT(30)
  <2> HIDE DEF taken
  <2> QED
    BY <1>2, <1>7, <1>8, <2>1 DEF Sized, Timed, Shifted, all
<1>10. Taken(tr, bytes, e.duration, e.offset, e.sync) = taken
  BY DEF Taken
<1> HIDE DEF taken
<1> QED
  BY <1>9, <1>10 DEF Recorded, all

(***************************************************************************)
(* MP4SetSampleRenderingOffset.                                            *)
(***************************************************************************)

\* The samples with another offset for one of them.
Changed(samples, id, o) == [samples EXCEPT ![id] = [samples[id] EXCEPT !.offset = o]]

LEMMA ChangedSamples ==
  ASSUME NEW samples \in Seq(Sample), NEW id \in 1..Len(samples), NEW o \in Nat
  PROVE  LET new == Changed(samples, id, o)
         IN /\ new \in Seq(Sample) /\ Len(new) = Len(samples) /\ Len(samples) \in Nat
            /\ \A k \in 1..Len(samples) :
                 /\ samples[k] \in Sample
                 /\ new[k].bytes = samples[k].bytes /\ new[k].duration = samples[k].duration
                 /\ new[k].sync = samples[k].sync
                 /\ new[k].offset = IF k = id THEN o ELSE samples[k].offset
<1> DEFINE e == [samples[id] EXCEPT !.offset = o]
<1>1. Len(samples) \in Nat /\ \A k \in 1..Len(samples) : samples[k] \in Sample
  BY LenProperties, ElementOfSeq
<1>2. /\ e \in Sample /\ e.bytes = samples[id].bytes /\ e.duration = samples[id].duration
      /\ e.sync = samples[id].sync /\ e.offset = o
  BY <1>1 DEF Sample
<1>3. Changed(samples, id, o) = [samples EXCEPT ![id] = e]
  BY DEF Changed
<1> HIDE DEF e
<1>4. /\ [samples EXCEPT ![id] = e] \in Seq(Sample)
      /\ Len([samples EXCEPT ![id] = e]) = Len(samples)
      /\ \A i \in 1..Len(samples) : [samples EXCEPT ![id] = e][i] = IF i = id THEN e ELSE samples[i]
  BY <1>2, ExceptSeq
<1> QED
  BY <1>1, <1>2, <1>3, <1>4

\* The other tables say of the changed samples what they said before.
LEMMA ChangedRecorded ==
  ASSUME NEW a, NEW samples \in Seq(Sample), NEW stray, Recorded(a, samples, stray),
         NEW id \in 1..Len(samples), NEW o \in Nat, NEW b,
         b.size = a.size, b.sizes = a.sizes, b.count = a.count, b.stts = a.stts,
         b.hasStss = a.hasStss, b.stss = a.stss,
         ~stray => Shifted(b, Changed(samples, id, o))
  PROVE  Recorded(b, Changed(samples, id, o), stray)
<1> DEFINE new == Changed(samples, id, o)
<1>1. /\ Len(new) = Len(samples) /\ Len(samples) \in Nat
      /\ \A k \in 1..Len(samples) :
           /\ new[k].bytes = samples[k].bytes /\ new[k].duration = samples[k].duration
           /\ new[k].sync = samples[k].sync
  BY ChangedSamples
<1>3. ~stray => Shifted(b, new)
  OBVIOUS
<1> HIDE DEF new
<1>4. Sized(b, new)
  BY <1>1 DEF Recorded, Sized
<1>5. Timed(b, new)
  <2>1. \A k \in 1..Len(samples) : DurationsOf(new)[k] = DurationsOf(samples)[k]
    BY <1>1 DEF DurationsOf
  <2>2. RunsOf(a.stts, Len(samples), DurationsOf(samples))
    BY DEF Recorded, Timed
  <2>3. RunsOf(a.stts, Len(samples), DurationsOf(new))
    BY <2>1, <2>2, RunsOther
  <2> QED
    BY <1>1, <2>3 DEF Timed
<1>6. ~stray => Synced(b, new)
  <2>1. SyncOf(new) = SyncOf(samples)
    BY <1>1 DEF SyncOf
  <2> QED
    BY <1>1, <2>1 DEF Recorded, Synced
<1>7. Recorded(b, new, stray)
  BY <1>3, <1>4, <1>5, <1>6 DEF Recorded
<1> QED
  BY <1>7 DEF new

\* The values of ctts after the change.
LEMMA ChangedOffsets ==
  ASSUME NEW samples \in Seq(Sample), NEW id \in 1..Len(samples), NEW o \in Nat
  PROVE  LET new == OffsetsOf(Changed(samples, id, o))
         IN /\ new[id] = o % Span
            /\ \A k \in 1..Len(samples) : k # id => new[k] = OffsetsOf(samples)[k]
BY ChangedSamples DEF OffsetsOf

\* The table starts with a row for the samples before, one for the sample, and
\* one for those after it.
LEMMA FirstOffsetRecorded ==
  ASSUME NEW tr, IsTrack(tr), NEW samples \in Seq(Sample), NEW stray,
         Recorded(tr, samples, stray), NEW id \in 1..Len(samples), NEW o \in Nat,
         tr.ctts = <<>>, ~NoTable(tr, id, o)
  PROVE  LET new == FirstOffset(tr, id, o)
         IN /\ IsTrack(new) /\ new.next = tr.next /\ new.duration = tr.duration
            /\ Recorded(new, Changed(samples, id, o), stray)
<1> DEFINE begun == UpdateRenderingOffsets(tr, id, o)
           row   == [n |-> tr.count - id, v |-> 0]
           rows  == Append(begun.ctts, row)
           full  == [begun EXCEPT !.ctts = rows]
           vals  == OffsetsOf(Changed(samples, id, o))
<1>1. /\ ~tr.hasCtts /\ tr.count = Len(samples) /\ id \in Nat \ {0} /\ id <= tr.count
      /\ tr.count \in Nat /\ (o = 0 => id = tr.count)
  <2>1. ~tr.hasCtts /\ tr.count = Len(samples) /\ tr.count \in Nat
    BY DEF IsTrack, Recorded, Sized
  <2> QED
    BY <2>1 DEF NoTable
<1>2. /\ IsTrack(begun)
      /\ begun.size = tr.size /\ begun.sizes = tr.sizes /\ begun.count = tr.count
      /\ begun.stts = tr.stts /\ begun.hasStss = tr.hasStss /\ begun.stss = tr.stss
      /\ begun.next = tr.next /\ begun.duration = tr.duration
  BY <1>1, OffsetOthers
<1>3. /\ begun.hasCtts = (o # 0)
      /\ o # 0 => begun.ctts = AddToRows(IF id > 1 THEN <<[n |-> id - 1, v |-> 0]>> ELSE <<>>, o)
  BY <1>1, OffsetAdded, SMTT(30)
<1>4. /\ Len(Changed(samples, id, o)) = Len(samples)
      /\ vals[id] = o % Span /\ 0 % Span = 0
      /\ \A k \in 1..Len(samples) : vals[k] = Changed(samples, id, o)[k].offset % Span
  <2>1. Len(Changed(samples, id, o)) = Len(samples)
    BY ChangedSamples
  <2>2. vals[id] = o % Span
    BY ChangedOffsets
  <2>3. 0 % Span = 0
    BY Mp4Assumption
  <2> QED
    BY <2>1, <2>2, <2>3 DEF OffsetsOf
<1>5. ~stray => \A k \in 1..Len(samples) : k # id => vals[k] = 0
  <2>1. ~stray => \A k \in 1..Len(samples) : samples[k].offset % Span = 0
    BY <1>1 DEF Recorded, Shifted
  <2>2. \A k \in 1..Len(samples) : k # id => vals[k] = OffsetsOf(samples)[k]
    BY ChangedOffsets
  <2> HIDE DEF vals
  <2> QED
    BY <2>1, <2>2 DEF OffsetsOf
<1> HIDE DEF begun, vals
<1>6. ~stray /\ o # 0 => RunsOf(begun.ctts, id, vals)
  <2> SUFFICES ASSUME ~stray, o # 0
               PROVE  RunsOf(begun.ctts, id, vals)
    OBVIOUS
  <2>1. \A k \in 1..(id - 1) : vals[k] = 0
    BY <1>1, <1>5
  <2> QED
    BY <1>1, <1>3, <1>4, <2>1, RunsBegin
<1>7. CASE tr.count - id = 0
  <2>1. FirstOffset(tr, id, o) = begun
    BY <1>7 DEF FirstOffset, begun
  <2>2. ~stray => Shifted(begun, Changed(samples, id, o))
    <3> SUFFICES ASSUME ~stray
                 PROVE  Shifted(begun, Changed(samples, id, o))
      OBVIOUS
    <3>1. CASE o # 0
      <4>0. begun.hasCtts
        BY <1>3, <3>1
      <4>1. id = Len(Changed(samples, id, o))
        BY <1>1, <1>4, <1>7
      <4>2. RunsOf(begun.ctts, id, vals)
        BY <1>6, <3>1
      <4> QED
        BY <4>0, <4>1, <4>2 DEF Shifted, vals
    <3>2. CASE o = 0
      <4>1. \A k \in 1..Len(samples) : vals[k] = 0
        BY <1>4, <1>5, <3>2
      <4> QED
        BY <1>3, <1>4, <3>2, <4>1 DEF Shifted
    <3> QED
      BY <3>1, <3>2
  <2>3. Recorded(begun, Changed(samples, id, o), stray)
    BY <1>2, <2>2, ChangedRecorded
  <2> QED
    BY <1>2, <2>1, <2>3
<1>8. CASE tr.count - id # 0
  <2>1. FirstOffset(tr, id, o) = full
    BY <1>8 DEF FirstOffset, begun
  <2>2. o # 0 /\ id < tr.count
    BY <1>1, <1>8
  <2>3. begun.hasCtts = TRUE /\ begun.ctts \in Seq(Row) /\ CacheOK(begun.ctts, begun.cttsCache)
    BY <1>2, <1>3, <2>2 DEF IsTrack
  <2>4. row \in Row
    BY <1>1, <2>2, Mp4Assumption DEF Row
  <2> HIDE DEF row
  <2>5. /\ rows \in Seq(Row) /\ rows # <<>> /\ CacheOK(rows, begun.cttsCache)
    <3>1. /\ rows \in Seq(Row) /\ Len(rows) = Len(begun.ctts) + 1 /\ Len(begun.ctts) \in Nat
          /\ \A k \in 1..Len(begun.ctts) : rows[k] = begun.ctts[k]
      BY <2>3, <2>4, AppendProperties, LenProperties
    <3>2. rows # <<>>
      BY <3>1, EmptySeq, SMTT(30)
    <3> DEFINE c == begun.cttsCache
    <3>3. c.sid # 0 => c.index \in 1..Len(begun.ctts)
      BY <2>3 DEF CacheOK
    <3> HIDE DEF rows, c
    <3>4. c.sid # 0 => c.index <= Len(rows) /\ \A k \in 1..(c.index - 1) : rows[k] = begun.ctts[k]
      BY <3>1, <3>3
    <3>5. CacheOK(begun.ctts, c)
      BY <2>3 DEF c
    <3>6. CacheOK(rows, c)
      BY <2>3, <3>1, <3>4, <3>5, CacheOfOther
    <3> QED
      BY <3>1, <3>2, <3>6 DEF c
  <2> HIDE DEF rows
  <2>6. /\ IsTrack(full) /\ full.hasCtts = TRUE /\ full.ctts = rows
        /\ full.size = begun.size /\ full.sizes = begun.sizes /\ full.count = begun.count
        /\ full.stts = begun.stts /\ full.hasStss = begun.hasStss /\ full.stss = begun.stss
        /\ full.next = begun.next /\ full.duration = begun.duration
    BY <1>2, <2>3, <2>5 DEF IsTrack
  <2> HIDE DEF full
  <2>7. ~stray => Shifted(full, Changed(samples, id, o))
    <3> SUFFICES ASSUME ~stray
                 PROVE  Shifted(full, Changed(samples, id, o))
      OBVIOUS
    <3>1. \A k \in (id + 1)..tr.count : vals[k] = 0
      BY <1>1, <1>5
    <3>2. RunsOf(begun.ctts, id, vals)
      BY <1>6, <2>2
    <3>3. RunsOf(Append(begun.ctts, [n |-> tr.count - id, v |-> 0]), tr.count, vals)
      BY <1>1, <2>2, <3>1, <3>2, RunsFirst
    <3>4. RunsOf(rows, tr.count, vals)
      BY <3>3 DEF rows, row
    <3> QED
      BY <1>1, <1>4, <2>6, <3>4 DEF Shifted, vals
  <2>8. Recorded(full, Changed(samples, id, o), stray)
    BY <1>2, <2>6, <2>7, ChangedRecorded
  <2> QED
    BY <1>2, <2>1, <2>6, <2>8
<1> QED
  BY <1>7, <1>8

\* The row of the sample is cut, unless the offset is the one it has.
LEMMA SetOffsetRecorded ==
  ASSUME NEW tr, IsTrack(tr), NEW samples \in Seq(Sample), NEW stray,
         Recorded(tr, samples, stray), NEW id \in 1..Len(samples), NEW o \in Nat,
         tr.ctts # <<>>
  PROVE  LET new == SetOffset(tr, id, o)
         IN /\ IsTrack(new) /\ new.next = tr.next /\ new.duration = tr.duration
            /\ Recorded(new, Changed(samples, id, o), stray)
<1> DEFINE rows  == tr.ctts
           row   == RowOf(rows, id)
           moved == CacheAfter(rows, tr.cttsCache, id)
           asked == [tr EXCEPT !.cttsCache = moved]
           parts == Split(rows, row, id, o)
           cut   == [asked EXCEPT !.ctts = parts]
           vals  == OffsetsOf(Changed(samples, id, o))
           old   == OffsetsOf(samples)
           count == Len(samples)
<1>1. /\ tr.hasCtts /\ rows \in Seq(Row) /\ CacheOK(rows, tr.cttsCache)
      /\ id \in Nat \ {0} /\ count \in Nat
  BY LenProperties, SMTT(30) DEF IsTrack
<1>2. RowFrom(rows, Cached(tr.cttsCache, id), id) = row
  BY <1>1, CachedSearch
<1>3. SetOffset(tr, id, o) = IF row.index = 0 \/ o = rows[row.index].v THEN asked ELSE cut
  BY <1>2 DEF SetOffset
<1>4. CacheOK(rows, moved)
  BY <1>1, CacheKept
<1>5. Len(Changed(samples, id, o)) = count
  BY ChangedSamples
<1>6. vals[id] = o % Span /\ \A k \in 1..count : k # id => vals[k] = old[k]
  BY ChangedOffsets
<1>7. ~stray => /\ RunsOf(rows, count, old)
                /\ row.index \in 1..Len(rows) /\ row.sid = SidAt(rows, row.index)
                /\ id \in row.sid..(row.sid + rows[row.index].n - 1)
                /\ rows[row.index].v = old[id]
  <2> SUFFICES ASSUME ~stray
               PROVE  /\ RunsOf(rows, count, old)
                      /\ row.index \in 1..Len(rows) /\ row.sid = SidAt(rows, row.index)
                      /\ id \in row.sid..(row.sid + rows[row.index].n - 1)
                      /\ rows[row.index].v = old[id]
    OBVIOUS
  <2>1. RunsOf(rows, count, old)
    BY <1>1 DEF Recorded, Shifted
  <2> HIDE DEF rows, old, count
  <2>2. id \in 1..count
    BY DEF count
  <2> QED
    BY <2>1, <2>2, RunsLookup
<1> HIDE DEF moved, vals, old, parts
<1>8. /\ IsTrack(asked) /\ asked.next = tr.next /\ asked.duration = tr.duration
      /\ asked.hasCtts = tr.hasCtts /\ asked.ctts = tr.ctts /\ asked.cttsCache = moved
      /\ asked.size = tr.size /\ asked.sizes = tr.sizes /\ asked.count = tr.count
      /\ asked.stts = tr.stts /\ asked.hasStss = tr.hasStss /\ asked.stss = tr.stss
  <2>1. ASSUME NEW x, CacheOK(tr.ctts, x)
        PROVE  LET a == [tr EXCEPT !.cttsCache = x]
               IN /\ IsTrack(a) /\ a.next = tr.next /\ a.duration = tr.duration
                  /\ a.hasCtts = tr.hasCtts /\ a.ctts = tr.ctts /\ a.cttsCache = x
                  /\ a.size = tr.size /\ a.sizes = tr.sizes /\ a.count = tr.count
                  /\ a.stts = tr.stts /\ a.hasStss = tr.hasStss /\ a.stss = tr.stss
    BY <2>1 DEF IsTrack
  <2> QED
    BY <1>4, <2>1
<1> HIDE DEF asked
<1>9. CASE row.index = 0 \/ o = rows[row.index].v
  <2>1. SetOffset(tr, id, o) = asked
    BY <1>3, <1>9
  <2>2. ~stray => Shifted(asked, Changed(samples, id, o))
    <3> SUFFICES ASSUME ~stray
                 PROVE  Shifted(asked, Changed(samples, id, o))
      OBVIOUS
    <3>1. row.index \in 1..Len(rows) /\ rows[row.index].v = old[id] /\ RunsOf(rows, count, old)
      BY <1>7
    <3>2. rows[row.index].v \in 0..(Span - 1) /\ o = rows[row.index].v
      BY <1>1, <1>9, <3>1, RowTypes
    <3>3. o % Span = o
      <4>1. o < Span
        BY <3>2, Mp4Assumption
      <4> QED
        BY <4>1, Within
    <3>4. \A k \in 1..count : vals[k] = old[k]
      BY <1>6, <3>1, <3>2, <3>3
    <3>5. RunsOf(rows, count, vals)
      <4> HIDE DEF rows, count
      <4> QED
        BY <3>1, <3>4, RunsOther
    <3> QED
      BY <1>1, <1>5, <1>8, <3>5 DEF Shifted, vals
  <2>3. Recorded(asked, Changed(samples, id, o), stray)
    BY <1>8, <2>2, ChangedRecorded
  <2> QED
    BY <1>8, <2>1, <2>3
<1>10. CASE ~(row.index = 0 \/ o = rows[row.index].v)
  <2>1. SetOffset(tr, id, o) = cut
    BY <1>3, <1>10
  <2>2. parts \in Seq(Row) /\ parts # <<>> /\ CacheOK(parts, moved)
    <3> HIDE DEF rows
    <3>1. RowOf(rows, id).index # 0
      BY <1>10
    <3> QED
      BY <1>1, <3>1, CacheAfterSplit DEF parts, moved
  <2>3. /\ IsTrack(cut) /\ cut.hasCtts = asked.hasCtts /\ cut.ctts = parts
        /\ cut.size = asked.size /\ cut.sizes = asked.sizes /\ cut.count = asked.count
        /\ cut.stts = asked.stts /\ cut.hasStss = asked.hasStss /\ cut.stss = asked.stss
        /\ cut.next = asked.next /\ cut.duration = asked.duration
    BY <1>1, <1>8, <2>2 DEF IsTrack
  <2> HIDE DEF cut
  <2>4. ~stray => Shifted(cut, Changed(samples, id, o))
    <3> SUFFICES ASSUME ~stray
                 PROVE  Shifted(cut, Changed(samples, id, o))
      OBVIOUS
    <3>1. RunsOf(parts, count, vals)
      <4> HIDE DEF rows, row, count
      <4>1. /\ RunsOf(rows, count, old)
            /\ row.index \in 1..Len(rows) /\ row.sid = SidAt(rows, row.index)
            /\ id \in row.sid..(row.sid + rows[row.index].n - 1)
        BY <1>7
      <4> QED
        BY <1>6, <4>1, RunsSplit DEF parts
    <3> QED
      BY <1>1, <1>5, <1>8, <2>3, <3>1 DEF Shifted, vals
  <2>5. Recorded(cut, Changed(samples, id, o), stray)
    BY <1>8, <2>3, <2>4, ChangedRecorded
  <2> QED
    BY <1>8, <2>1, <2>3, <2>5
<1> QED
  BY <1>9, <1>10

\* What the tables answer for the samples they record.
LEMMA TimesAnswered ==
  ASSUME NEW tr, NEW samples \in Seq(Sample), NEW stray, Recorded(tr, samples, stray),
         NEW durations, \A k \in 1..Len(samples) : durations[k] = samples[k].duration,
         SumOver(durations, 1, Len(samples)) < Span
  PROVE  /\ \A id \in 1..Len(samples) :
              GetSampleTimes(tr, id) = [start |-> SumOver(durations, 1, id - 1), duration |-> durations[id]]
         /\ \A when \in Nat : when < SumOver(durations, 1, Len(samples)) =>
              LET id == GetSampleIdFromTime(tr, when)
              IN /\ id \in 1..Len(samples)
                 /\ \/ SumOver(durations, 1, id - 1) = when
                    \/ SumOver(durations, 1, id - 1) < when /\ when < SumOver(durations, 1, id)
<1> DEFINE count == Len(samples)
<1>1. count \in Nat /\ \A k \in 1..count : durations[k] \in Nat
  <2>1. \A k \in 1..Len(samples) : samples[k] \in Sample
    BY ElementOfSeq
  <2> QED
    BY <2>1, LenProperties DEF Sample
<1>2. \A k \in 1..count : durations[k] < Span
  <2> SUFFICES ASSUME NEW k \in 1..count
               PROVE  durations[k] < Span
    OBVIOUS
  <2>0. k \in Int /\ k - 1 \in Int /\ k <= count /\ 1 <= k /\ \A i \in 1..k : durations[i] \in Nat
    BY <1>1
  <2>1. SumOver(durations, 1, k) <= SumOver(durations, 1, count)
    BY <1>1, <2>0, SumPart
  <2>2. SumOver(durations, 1, k) = SumOver(durations, 1, k - 1) + durations[k]
    BY <2>0, SumStep
  <2>3. SumOver(durations, 1, k - 1) \in Nat
    BY <2>0, SumNat
  <2>4. SumOver(durations, 1, count) \in Nat
    BY <1>1, SumNat
  <2> QED
    BY <2>0, <2>1, <2>2, <2>3, <2>4, Mp4Assumption
<1>3. \A k \in 1..count : DurationsOf(samples)[k] = durations[k]
  <2> SUFFICES ASSUME NEW k \in 1..count
               PROVE  DurationsOf(samples)[k] = durations[k]
    OBVIOUS
  <2>1. DurationsOf(samples)[k] = durations[k] % Span
    BY DEF DurationsOf
  <2>2. durations[k] \in Nat /\ durations[k] < Span
    BY <1>1, <1>2
  <2> QED
    BY <2>1, <2>2, Within
<1>4. RunsOf(tr.stts, count, durations)
  <2>1. RunsOf(tr.stts, count, DurationsOf(samples))
    BY DEF Recorded, Timed
  <2> QED
    BY <1>3, <2>1, RunsOther
<1> HIDE DEF count
<1>5. \A id \in 1..count :
        GetSampleTimes(tr, id) = [start |-> SumOver(durations, 1, id - 1), duration |-> durations[id]]
  BY <1>1, <1>4, SampleTimes DEF count
<1>6. \A when \in Nat : when < SumOver(durations, 1, count) =>
        LET id == GetSampleIdFromTime(tr, when)
        IN /\ id \in 1..count
           /\ \/ SumOver(durations, 1, id - 1) = when
              \/ SumOver(durations, 1, id - 1) < when /\ when < SumOver(durations, 1, id)
  BY <1>1, <1>4, SampleAtTime DEF count
<1> QED
  BY <1>5, <1>6 DEF count

LEMMA OffsetAnswered ==
  ASSUME NEW tr, IsTrack(tr), NEW samples \in Seq(Sample), Recorded(tr, samples, FALSE),
         NEW id \in 1..Len(samples)
  PROVE  GetSampleRenderingOffset(tr, id) = samples[id].offset % Span
<1> DEFINE rows == tr.ctts
           vals == OffsetsOf(samples)
           count == Len(samples)
<1>1. /\ rows \in Seq(Row) /\ (tr.hasCtts <=> rows # <<>>) /\ tr.hasCtts \in BOOLEAN
      /\ Shifted(tr, samples) /\ count \in Nat /\ vals[id] = samples[id].offset % Span
  BY LenProperties DEF IsTrack, Recorded, OffsetsOf
<1>2. CASE ~tr.hasCtts
  BY <1>1, <1>2 DEF Shifted, GetSampleRenderingOffset
<1>3. CASE tr.hasCtts
  <2>1. RunsOf(rows, count, vals)
    BY <1>1, <1>3 DEF Shifted
  <2>2. CacheOK(rows, NoCache)
    BY NoCacheOK
  <2>3. RowFrom(rows, FirstRow, id) = RowOf(rows, id)
    BY <1>1, <2>2, CachedSearch
  <2> HIDE DEF rows, vals, count
  <2>4. RowOf(rows, id).index \in 1..Len(rows) /\ rows[RowOf(rows, id).index].v = vals[id]
    <3>1. id \in 1..count
      BY DEF count
    <3> QED
      BY <2>1, <3>1, RunsLookup
  <2>5. RowOf(rows, id).index # 0
    BY <1>1, <2>4, LenProperties
  <2> QED
    BY <1>1, <1>3, <2>3, <2>4, <2>5 DEF GetSampleRenderingOffset, rows
<1> QED
  BY <1>1, <1>2, <1>3

LEMMA SyncOfTable ==
  ASSUME NEW tr, IsTrack(tr), NEW samples \in Seq(Sample), Recorded(tr, samples, FALSE),
         NEW id \in 1..Len(samples)
  PROVE  LET sync == SyncOf(samples)
         IN /\ IsSyncSample(tr, id) =
                 IF id \in sync THEN "yes" ELSE IF \E s \in sync : s < id THEN "no" ELSE "error"
            /\ GetNextSyncSample(tr, id) =
                 IF \E s \in sync : s >= id THEN Min({s \in sync : s >= id}) ELSE 0
<1> DEFINE sync == SyncOf(samples)
           after == {s \in sync : s >= id}
<1>1. /\ tr.stss \in Seq(Nat \ {0}) /\ tr.hasStss \in BOOLEAN /\ Synced(tr, samples)
      /\ id \in Int /\ Len(samples) \in Nat
  BY LenProperties DEF IsTrack, Recorded
<1>2. CASE tr.hasStss
  <2>1. Enumerates(tr.stss, sync)
    BY <1>1, <1>2 DEF Synced
  <2> HIDE DEF sync
  <2>2. Increasing(tr.stss) /\ sync = {tr.stss[i] : i \in 1..Len(tr.stss)}
    BY <2>1 DEF Enumerates
  <2>3. IsSyncSample(tr, id) =
          IF \E i \in 1..Len(tr.stss) : tr.stss[i] = id THEN "yes"
          ELSE IF \E i \in 1..Len(tr.stss) : tr.stss[i] < id THEN "no" ELSE "error"
    BY <1>1, <1>2, <2>2, SyncSearch
  <2>4. GetNextSyncSample(tr, id) =
          IF \E k \in sync : k >= id THEN Min({k \in sync : k >= id}) ELSE 0
    BY <1>1, <1>2, <2>1, NextSync
  <2>5. /\ id \in sync <=> \E i \in 1..Len(tr.stss) : tr.stss[i] = id
        /\ (\E s \in sync : s < id) <=> \E i \in 1..Len(tr.stss) : tr.stss[i] < id
    BY <2>2
  <2> QED
    BY <2>3, <2>4, <2>5 DEF sync
<1>3. CASE ~tr.hasStss
  <2>1. sync = 1..Len(samples)
    BY <1>1, <1>3 DEF Synced
  <2> HIDE DEF sync
  <2>2. id \in after /\ \A s \in after : id <= s
    BY <1>1, <2>1
  <2>3. after \subseteq Int
    BY <2>1
  <2>4. Min(after) = id
    <3> HIDE DEF after
    <3> QED
      BY <2>2, <2>3, MinIs
  <2>5. IsSyncSample(tr, id) = "yes" /\ GetNextSyncSample(tr, id) = id
    BY <1>3 DEF IsSyncSample, GetNextSyncSample
  <2>6. id \in sync /\ \E s \in sync : s >= id
    BY <1>1, <2>1
  <2> QED
    BY <2>4, <2>5, <2>6 DEF sync
<1> QED
  BY <1>1, <1>2, <1>3

LEMMA CachesOfTrack ==
  ASSUME NEW tr, IsTrack(tr), NEW id \in Int
  PROVE  /\ RowFrom(tr.stts, Cached(tr.sttsCache, id), id) = RowFrom(tr.stts, FirstRow, id)
         /\ RowFrom(tr.ctts, Cached(tr.cttsCache, id), id) = RowFrom(tr.ctts, FirstRow, id)
BY CachedSearch DEF IsTrack

(***************************************************************************)
(* Answers for any time, recorded or not, are numbers.                     *)
(***************************************************************************)

LEMMA SeekInt ==
  ASSUME NEW tr, IsTrack(tr), NEW when \in Int
  PROVE  GetSampleIdFromTime(tr, when) \in Int
<1> DEFINE stts == tr.stts
           rows == {i \in DOMAIN stts : when - Elapsed(stts, i) <= Lengths(stts)[i]}
           i    == Min(rows)
<1>1. stts \in Seq(Row) /\ Len(stts) \in Nat /\ DOMAIN stts = 1..Len(stts)
  BY RowTypes DEF IsTrack
<1>2. CASE rows = {}
  BY <1>2 DEF GetSampleIdFromTime
<1>3. CASE rows # {}
  <2>1. \A k \in rows : k \in 1..Len(stts) /\ k \in Int /\ 1 <= k
    BY <1>1
  <2>2. GetSampleIdFromTime(tr, when) = SampleInRow(tr, i, when)
    BY <1>3 DEF GetSampleIdFromTime
  <2>3. i \in rows
    <3> HIDE DEF rows
    <3> QED
      BY <1>3, <2>1, MinOfInts
  <2>4. i \in 1..Len(stts)
    BY <2>1, <2>3
  <2> HIDE DEF i, rows, stts
  <2>5. SidAt(stts, i) \in Int /\ Elapsed(stts, i) \in Int /\ stts[i].v \in 0..(Span - 1)
    <3>1. i \in 1..(Len(stts) + 1)
      BY <1>1, <2>4
    <3> QED
      BY <1>1, <2>4, <3>1, SidStep, RowTypes
  <2>6. stts[i].v # 0 => (when - Elapsed(stts, i)) \div stts[i].v \in Int
    <3>1. stts[i].v # 0 => stts[i].v \in Nat \ {0}
      BY <2>5, Mp4Assumption
    <3>2. when - Elapsed(stts, i) \in Int
      BY <2>5
    <3> QED
      BY <3>1, <3>2
  <2> QED
    BY <2>2, <2>5, <2>6 DEF SampleInRow, stts
<1> QED
  BY <1>2, <1>3

LEMMA TimesInt ==
  ASSUME NEW tr, IsTrack(tr), NEW id \in Int, RowFrom(tr.stts, FirstRow, id).index # 0
  PROVE  GetSampleTimes(tr, id).start \in Int /\ GetSampleTimes(tr, id).duration \in Int
<1> DEFINE rows == tr.stts
           row  == RowOf(rows, id)
           i    == Min(Reaching(rows, id))
<1>1. rows \in Seq(Row)
  BY DEF IsTrack
<1>2. RowFrom(rows, FirstRow, id) = row
  BY <1>1, NoCacheOK, CachedSearch
<1>3. Reaching(rows, id) # {} /\ row = [index |-> i, sid |-> SidAt(rows, i), elapsed |-> Elapsed(rows, i)]
  BY <1>2 DEF RowOf
<1>4. i \in 1..Len(rows) /\ i \in 1..(Len(rows) + 1)
  <2>1. i \in Reaching(rows, id)
    BY <1>1, <1>3, ReachingMin
  <2> HIDE DEF i
  <2> QED
    BY <1>1, <2>1, LenProperties DEF Reaching
<1> HIDE DEF i, row
<1>5. /\ rows[i].v \in Int /\ SidAt(rows, i) \in Int /\ Elapsed(rows, i) \in Int
  <2> HIDE DEF rows
  <2>1. SidAt(rows, i) \in Int /\ Elapsed(rows, i) \in Int
    BY <1>1, <1>4, SidStep
  <2>2. rows[i].v \in 0..(Span - 1)
    BY <1>1, <1>4, RowTypes
  <2> QED
    BY <2>1, <2>2, Mp4Assumption
<1>6. (id - SidAt(rows, i)) * rows[i].v \in Int
  <2>1. id - SidAt(rows, i) \in Int
    BY <1>5
  <2> HIDE DEF rows
  <2> QED
    BY <1>5, <2>1
<1>7. GetSampleTimes(tr, id) = [start |-> Elapsed(rows, i) + (id - SidAt(rows, i)) * rows[i].v,
                                duration |-> rows[i].v]
  BY <1>2, <1>3 DEF GetSampleTimes, TimesAt
<1> HIDE DEF rows
<1> QED
  BY <1>5, <1>6, <1>7

(***************************************************************************)
(* The table of chunks.                                                    *)
(***************************************************************************)

StscRow == [chunk : Nat \ {0}, per : Nat \ {0}, first : 0..(Span - 1)]

\* A table of runs of chunks 1..n: a row holds from its chunk to the one of the
\* next row.
IsStsc(stsc, n) ==
  /\ stsc \in Seq(StscRow) /\ n \in Nat
  /\ n # 0 => stsc # <<>> /\ stsc[1].chunk = 1
  /\ \A i \in 1..Len(stsc) : stsc[i].chunk <= n
  /\ \A i, j \in 1..Len(stsc) : i < j => stsc[i].chunk < stsc[j].chunk

RowAt(stsc, c) == Max({i \in DOMAIN stsc : stsc[i].chunk <= c})

\* How many samples each chunk has, and the first one of a chunk.
PerOf(stsc)      == [c \in Nat \ {0} |-> stsc[RowAt(stsc, c)].per]
FirstOf(stsc, c) == 1 + SumOver(PerOf(stsc), 1, c - 1)

\* The rows know the first samples of their chunks.
FirstsKnown(stsc) == \A i \in 1..Len(stsc) : stsc[i].first = FirstOf(stsc, stsc[i].chunk)

LEMMA StscFields ==
  ASSUME NEW stsc, NEW n, IsStsc(stsc, n)
  PROVE  /\ Len(stsc) \in Nat /\ DOMAIN stsc = 1..Len(stsc) /\ n \in Nat
         /\ \A i \in 1..Len(stsc) :
              /\ stsc[i] \in StscRow /\ stsc[i].chunk \in Nat \ {0} /\ stsc[i].chunk <= n
              /\ stsc[i].per \in Nat \ {0} /\ stsc[i].first \in 0..(Span - 1)
<1>1. Len(stsc) \in Nat /\ DOMAIN stsc = 1..Len(stsc) /\ n \in Nat
  BY LenProperties DEF IsStsc
<1>2. \A i \in 1..Len(stsc) : stsc[i] \in StscRow
  BY ElementOfSeq DEF IsStsc
<1> QED
  BY <1>1, <1>2 DEF IsStsc, StscRow

LEMMA MaxIs ==
  ASSUME NEW T, NEW i \in T, T \subseteq Int, \A j \in T : j <= i
  PROVE  Max(T) = i
<1>1. \A x \in T : (\A j \in T : x >= j) => x = i
  OBVIOUS
<1>2. Max(T) \in T /\ \A j \in T : Max(T) >= j
  BY DEF Max
<1> QED
  BY <1>1, <1>2

LEMMA MaxOfInts ==
  ASSUME NEW T, NEW l \in Int, \A i \in T : i \in Int /\ i <= l, T # {}
  PROVE  Max(T) \in T /\ \A i \in T : i <= Max(T)
<1> DEFINE U == {l - i : i \in T}
<1>1. U \subseteq Nat /\ U # {}
  OBVIOUS
<1>2. PICK n \in U : \A m \in U : n <= m
  <2> HIDE DEF U
  <2> QED
    BY <1>1, NatMin
<1>3. PICK j \in T : n = l - j
  BY <1>2
<1>4. \A i \in T : i <= j
  <2> TAKE i \in T
  <2>1. n <= l - i
    BY <1>2
  <2> QED
    BY <1>3, <2>1
<1> QED
  BY <1>3, <1>4, MaxIs

\* The row of a chunk is the last one that does not begin after it.
LEMMA RowAtIs ==
  ASSUME NEW stsc, NEW n, IsStsc(stsc, n), NEW c \in 1..n
  PROVE  LET i == RowAt(stsc, c)
         IN /\ i \in 1..Len(stsc) /\ stsc[i].chunk <= c
            /\ \A j \in 1..Len(stsc) : i < j => c < stsc[j].chunk
            /\ PerOf(stsc)[c] = stsc[i].per /\ PerOf(stsc)[c] \in Nat \ {0}
<1> DEFINE T == {i \in DOMAIN stsc : stsc[i].chunk <= c}
<1>1. /\ Len(stsc) \in Nat /\ DOMAIN stsc = 1..Len(stsc) /\ n \in Nat
      /\ \A i \in 1..Len(stsc) : stsc[i].chunk \in Nat /\ stsc[i].per \in Nat \ {0}
  BY StscFields
<1>2. 1 \in T
  <2>1. n # 0
    BY <1>1
  <2>2. stsc # <<>> /\ stsc[1].chunk = 1
    BY <2>1 DEF IsStsc
  <2>3. Len(stsc) # 0
    BY <2>2, EmptySeq, LenProperties DEF IsStsc
  <2> QED
    BY <1>1, <2>2, <2>3
<1>3. T # {} /\ \A i \in T : i \in Int /\ i <= Len(stsc)
  BY <1>1, <1>2
<1>4. Max(T) \in T /\ \A i \in T : i <= Max(T)
  <2> HIDE DEF T
  <2> QED
    BY <1>1, <1>3, MaxOfInts
<1>5. RowAt(stsc, c) = Max(T)
  BY DEF RowAt
<1> DEFINE m == Max(T)
<1>6. m \in 1..Len(stsc) /\ stsc[m].chunk <= c
  BY <1>1, <1>4
<1>7. ASSUME NEW j \in 1..Len(stsc), m < j
      PROVE  c < stsc[j].chunk
  <2>1. ~ (j <= m)
    BY <1>1, <1>6, <1>7
  <2>2. j \notin T
    BY <1>4, <2>1
  <2> HIDE DEF m
  <2>3. ~ (stsc[j].chunk <= c)
    BY <1>1, <2>2
  <2> QED
    BY <1>1, <2>3
<1>8. c \in Nat \ {0}
  BY <1>1
<1>9. PerOf(stsc)[c] = stsc[RowAt(stsc, c)].per
  BY <1>8 DEF PerOf
<1> HIDE DEF T, m
<1> QED
  BY <1>1, <1>5, <1>6, <1>7, <1>9 DEF m

LEMMA RowAtUnique ==
  ASSUME NEW stsc, NEW n, IsStsc(stsc, n), NEW c \in Nat \ {0}, NEW i \in 1..Len(stsc),
         stsc[i].chunk <= c, \A j \in 1..Len(stsc) : i < j => c < stsc[j].chunk
  PROVE  RowAt(stsc, c) = i /\ PerOf(stsc)[c] = stsc[i].per
<1> DEFINE T == {j \in DOMAIN stsc : stsc[j].chunk <= c}
<1>1. /\ Len(stsc) \in Nat /\ DOMAIN stsc = 1..Len(stsc)
      /\ \A j \in 1..Len(stsc) : stsc[j].chunk \in Nat
  BY StscFields
<1>2. i \in T /\ T \subseteq Int
  BY <1>1
<1>3. ASSUME NEW j \in T
      PROVE  j <= i
  <2>1. j \in 1..Len(stsc) /\ ~ (c < stsc[j].chunk)
    BY <1>1
  <2> QED
    BY <1>1, <2>1
<1>4. Max(T) = i
  <2> HIDE DEF T
  <2> QED
    BY <1>2, <1>3, MaxIs
<1> QED
  BY <1>4 DEF RowAt, PerOf

LEMMA FirstTypes ==
  ASSUME NEW stsc, NEW n, IsStsc(stsc, n)
  PROVE  /\ \A c \in 1..(n + 1) : FirstOf(stsc, c) \in Nat \ {0}
         /\ \A c \in 1..n : /\ FirstOf(stsc, c + 1) = FirstOf(stsc, c) + PerOf(stsc)[c]
                            /\ PerOf(stsc)[c] \in Nat \ {0}
         /\ FirstOf(stsc, 1) = 1
<1>1. n \in Nat /\ \A c \in 1..n : PerOf(stsc)[c] \in Nat \ {0}
  BY StscFields, RowAtIs
<1>2. ASSUME NEW c \in 1..(n + 1)
      PROVE  FirstOf(stsc, c) \in Nat \ {0}
  <2>1. c - 1 \in Int /\ \A d \in 1..(c - 1) : PerOf(stsc)[d] \in Nat
    BY <1>1
  <2>2. SumOver(PerOf(stsc), 1, c - 1) \in Nat
    BY <2>1, SumNat
  <2> QED
    BY <2>2 DEF FirstOf
<1>3. ASSUME NEW c \in 1..n
      PROVE  FirstOf(stsc, c + 1) = FirstOf(stsc, c) + PerOf(stsc)[c]
  <2>1. c \in Int /\ c >= 1 /\ c + 1 - 1 = c /\ c \in 1..(n + 1)
    BY <1>1
  <2>2. SumOver(PerOf(stsc), 1, c) = SumOver(PerOf(stsc), 1, c - 1) + PerOf(stsc)[c]
    BY <2>1, SumStep
  <2>3. c - 1 \in Int /\ \A d \in 1..(c - 1) : PerOf(stsc)[d] \in Int
    BY <1>1
  <2>4. SumOver(PerOf(stsc), 1, c - 1) \in Int
    BY <2>3, SumInt
  <2>5. PerOf(stsc)[c] \in Int
    BY <1>1
  <2> QED
    BY <2>1, <2>2, <2>4, <2>5 DEF FirstOf
<1>4. FirstOf(stsc, 1) = 1
  BY SumEmpty DEF FirstOf
<1> QED
  BY <1>1, <1>2, <1>3, <1>4

\* The first samples of chunks are in the order of the chunks.
LEMMA FirstMonotone ==
  ASSUME NEW stsc, NEW n, IsStsc(stsc, n), NEW c \in 1..(n + 1), NEW d \in 1..(n + 1), c <= d
  PROVE  FirstOf(stsc, d) >= FirstOf(stsc, c) + (d - c)
<1> DEFINE S == {k \in Int : k <= n + 1 => FirstOf(stsc, k) >= FirstOf(stsc, c) + (k - c)}
<1>1. n \in Nat /\ \A k \in 1..(n + 1) : FirstOf(stsc, k) \in Nat
  BY StscFields, FirstTypes
<1>2. c \in S
  BY <1>1
<1>3. ASSUME NEW k \in Int, k >= c + 1, k - 1 \in S
      PROVE  k \in S
  <2> SUFFICES ASSUME k <= n + 1
               PROVE  FirstOf(stsc, k) >= FirstOf(stsc, c) + (k - c)
    BY DEF S
  <2>1. k - 1 \in 1..n /\ k - 1 + 1 = k /\ k \in 1..(n + 1) /\ k - 1 \in 1..(n + 1)
    BY <1>1, <1>3
  <2>2. FirstOf(stsc, k - 1 + 1) = FirstOf(stsc, k - 1) + PerOf(stsc)[k - 1]
        /\ PerOf(stsc)[k - 1] \in Nat \ {0}
    BY <2>1, FirstTypes
  <2>3. FirstOf(stsc, k - 1) >= FirstOf(stsc, c) + (k - 1 - c)
    BY <1>1, <1>3, <2>1
  <2>4. FirstOf(stsc, k) = FirstOf(stsc, k - 1) + PerOf(stsc)[k - 1]
    BY <2>1, <2>2
  <2> DEFINE x == FirstOf(stsc, k)
             y == FirstOf(stsc, k - 1)
             z == FirstOf(stsc, c)
             p == PerOf(stsc)[k - 1]
  <2>5. x \in Nat /\ y \in Nat /\ z \in Nat /\ p \in Nat /\ p >= 1
    BY <1>1, <2>1, <2>2
  <2>6. x = y + p /\ y >= z + (k - 1 - c)
    BY <2>3, <2>4
  <2> HIDE DEF x, y, z, p
  <2>7. x >= z + (k - c)
    BY <2>5, <2>6
  <2> QED
    BY <2>7 DEF x, z
<1> HIDE DEF S
<1>4. d \in S
  <2> DEFINE b == c + 1
  <2>1. b \in Int /\ b - 1 = c /\ d >= b - 1 /\ d \in Int
    BY <1>1
  <2>2. \A k \in Int : k >= b /\ k - 1 \in S => k \in S
    BY <1>3
  <2> HIDE DEF b
  <2> QED
    BY <1>2, <2>1, <2>2, SumInduction
<1> QED
  BY <1>1, <1>4 DEF S

\* The chunks of a row have as many samples as the row says.
LEMMA InRow ==
  ASSUME NEW stsc, NEW n, IsStsc(stsc, n), NEW i \in 1..Len(stsc), NEW c \in Nat,
         stsc[i].chunk <= c, c <= n + 1,
         \A j \in 1..Len(stsc) : i < j => c <= stsc[j].chunk
  PROVE  FirstOf(stsc, c) = FirstOf(stsc, stsc[i].chunk) + (c - stsc[i].chunk) * stsc[i].per
<1> DEFINE b == stsc[i].chunk
           p == stsc[i].per
           v == PerOf(stsc)
<1>1. n \in Nat /\ b \in Nat \ {0} /\ b <= n /\ p \in Nat \ {0}
  BY StscFields
<1>2. \A d \in b..(c - 1) : v[d] = p
  <2> TAKE d \in b..(c - 1)
  <2>1. d \in Nat \ {0} /\ stsc[i].chunk <= d /\ d < c
    BY <1>1
  <2>2. \A j \in 1..Len(stsc) : i < j => d < stsc[j].chunk
    <3> TAKE j \in 1..Len(stsc)
    <3>1. stsc[j].chunk \in Nat
      BY StscFields
    <3> QED
      BY <2>1, <3>1
  <2> QED
    BY <2>1, <2>2, RowAtUnique
<1>3. \A d \in 1..(c - 1) : v[d] \in Int
  <2> TAKE d \in 1..(c - 1)
  <2>1. d \in 1..n
    BY <1>1
  <2> QED
    BY <2>1, FirstTypes
<1> HIDE DEF v, p
<1>4. SumOver(v, 1, c - 1) = SumOver(v, 1, b - 1) + SumOver(v, b, c - 1)
  <2> DEFINE l == b - 1
             m == c - 1
  <2>1. l \in Int /\ m \in Int /\ 1 - 1 <= l /\ l <= m /\ \A d \in 1..m : v[d] \in Int
    BY <1>1, <1>3
  <2> HIDE DEF l, m
  <2>2. SumOver(v, 1, m) = SumOver(v, 1, l) + SumOver(v, l + 1, m)
    BY <2>1, SumSplit
  <2>3. l + 1 = b
    BY <1>1 DEF l
  <2> QED
    BY <2>2, <2>3 DEF l, m
<1>5. SumOver(v, b, c - 1) = (c - b) * p
  <2> DEFINE m == c - 1
  <2>1. b \in Int /\ m \in Int /\ b - 1 <= m /\ p \in Int /\ \A d \in b..m : v[d] = p
    BY <1>1, <1>2
  <2> HIDE DEF m
  <2>2. SumOver(v, b, m) = (m - b + 1) * p
    BY <2>1, SumConst
  <2>3. m - b + 1 = c - b
    BY <1>1 DEF m
  <2> QED
    BY <2>2, <2>3 DEF m
<1>6. SumOver(v, 1, b - 1) \in Int
  <2>1. b - 1 \in Int /\ \A d \in 1..(b - 1) : v[d] \in Int
    BY <1>1, <1>3
  <2> QED
    BY <2>1, SumInt
<1>7. (c - b) * p \in Int
  BY <1>1
<1> HIDE DEF b
<1>8. 1 + SumOver(v, 1, c - 1) = 1 + SumOver(v, 1, b - 1) + (c - b) * p
  BY <1>4, <1>5, <1>6, <1>7
<1> QED
  BY <1>8 DEF FirstOf, v, b, p

\* The chunks before are left, and the new one has the samples.
StscWith(stsc, n, s, f) ==
  IF stsc # <<>> /\ Last(stsc).per = s THEN stsc
  ELSE Append(stsc, [chunk |-> n + 1, per |-> s, first |-> f])

LEMMA StscAdded ==
  ASSUME NEW stsc, NEW n, IsStsc(stsc, n), NEW s \in Nat \ {0}, NEW f \in 0..(Span - 1)
  PROVE  LET new == StscWith(stsc, n, s, f)
         IN /\ IsStsc(new, n + 1)
            /\ \A c \in 1..n : PerOf(new)[c] = PerOf(stsc)[c]
            /\ PerOf(new)[n + 1] = s
            /\ \A c \in 1..(n + 1) : FirstOf(new, c) = FirstOf(stsc, c)
            /\ FirstOf(new, n + 2) = FirstOf(stsc, n + 1) + s
            /\ FirstsKnown(stsc) /\ f = FirstOf(stsc, n + 1) => FirstsKnown(new)
<1> DEFINE e   == [chunk |-> n + 1, per |-> s, first |-> f]
           new == StscWith(stsc, n, s, f)
           l   == Len(stsc)
<1>1. /\ l \in Nat /\ n \in Nat /\ stsc \in Seq(StscRow) /\ DOMAIN stsc = 1..l
      /\ \A i \in 1..l : /\ stsc[i].chunk \in Nat \ {0} /\ stsc[i].chunk <= n
                         /\ stsc[i].per \in Nat \ {0}
  BY StscFields DEF IsStsc
<1>2. e \in StscRow
  BY <1>1 DEF StscRow
<1>3. stsc # <<>> => l \in 1..l /\ Last(stsc) = stsc[l]
  BY <1>1, EmptySeq DEF Last
<1>4. /\ IsStsc(new, n + 1)
      /\ \A c \in 1..n : PerOf(new)[c] = PerOf(stsc)[c]
      /\ PerOf(new)[n + 1] = s
      /\ \A i \in 1..Len(new) : (i \in 1..l /\ new[i] = stsc[i]) \/ new[i] = e
  <2>1. CASE stsc # <<>> /\ Last(stsc).per = s
    <3>1. new = stsc
      BY <2>1 DEF StscWith
    <3>2. stsc[1].chunk = 1
      <4>1. n # 0
        BY <1>1, <1>3, <2>1
      <4> QED
        BY <4>1 DEF IsStsc
    <3>3. IsStsc(stsc, n + 1)
      BY <1>1, <2>1, <3>2 DEF IsStsc
    <3>4. PerOf(stsc)[n + 1] = stsc[l].per
      <4>1. n + 1 \in Nat \ {0} /\ l \in 1..l /\ stsc[l].chunk <= n + 1
        BY <1>1, <1>3, <2>1
      <4>2. \A j \in 1..l : l < j => n + 1 < stsc[j].chunk
        BY <1>1
      <4> QED
        BY <3>3, <4>1, <4>2, RowAtUnique
    <3> QED
      BY <1>3, <2>1, <3>1, <3>3, <3>4
  <2>2. CASE ~ (stsc # <<>> /\ Last(stsc).per = s)
    <3>1. /\ new \in Seq(StscRow) /\ Len(new) = l + 1 /\ new[l + 1] = e
          /\ \A i \in 1..l : new[i] = stsc[i]
      BY <1>1, <1>2, <2>2, AppendProperties DEF StscWith
    <3>2. \A i \in 1..Len(new) : (i \in 1..l /\ new[i] = stsc[i]) \/ (i = l + 1 /\ new[i] = e)
      BY <1>1, <3>1
    <3> HIDE DEF new
    <3>3. \A i, j \in 1..Len(new) : i < j => new[i].chunk < new[j].chunk
      <4> SUFFICES ASSUME NEW i \in 1..Len(new), NEW j \in 1..Len(new), i < j
                   PROVE  new[i].chunk < new[j].chunk
        OBVIOUS
      <4>1. i \in 1..l /\ new[i] = stsc[i]
        BY <1>1, <3>1, <3>2
      <4>2. CASE j \in 1..l /\ new[j] = stsc[j]
        BY <4>1, <4>2 DEF IsStsc
      <4>3. CASE new[j] = e
        BY <1>1, <4>1, <4>3
      <4> QED
        BY <3>2, <4>2, <4>3
    <3>4. \A i \in 1..Len(new) : new[i].chunk <= n + 1
      <4> TAKE i \in 1..Len(new)
      <4>1. CASE i \in 1..l /\ new[i] = stsc[i]
        BY <1>1, <4>1
      <4>2. CASE new[i] = e
        BY <1>1, <4>2
      <4> QED
        BY <3>2, <4>1, <4>2
    <3>5. new # <<>> /\ new[1].chunk = 1
      <4>1. CASE n = 0
        <5>1. l = 0
          <6>1. \A i \in 1..l : FALSE
            BY <1>1, <4>1
          <6> QED
            BY <1>1, <6>1
        <5>2. l + 1 = 1 /\ e.chunk = 1
          BY <4>1, <5>1
        <5>3. Len(new) = 1 /\ new[1].chunk = 1
          BY <3>1, <5>1, <5>2
        <5> QED
          BY <5>3
      <4>2. CASE n # 0
        <5>1. stsc # <<>> /\ stsc[1].chunk = 1
          BY <4>2 DEF IsStsc
        <5>2. 1 \in 1..l
          BY <1>1, <1>3, <5>1
        <5> QED
          BY <1>1, <3>1, <5>1, <5>2
      <4> QED
        BY <4>1, <4>2
    <3>6. IsStsc(new, n + 1)
      BY <1>1, <3>1, <3>3, <3>4, <3>5 DEF IsStsc
    <3>7. ASSUME NEW c \in 1..n
          PROVE  PerOf(new)[c] = PerOf(stsc)[c]
      <4> DEFINE i == RowAt(stsc, c)
      <4>1. /\ i \in 1..l /\ stsc[i].chunk <= c /\ PerOf(stsc)[c] = stsc[i].per
            /\ \A j \in 1..l : i < j => c < stsc[j].chunk
        BY RowAtIs
      <4> HIDE DEF i
      <4>2. i \in 1..Len(new) /\ c \in Nat \ {0} /\ new[i].chunk <= c /\ new[i].per = stsc[i].per
        BY <1>1, <3>1, <4>1
      <4>3. ASSUME NEW j \in 1..Len(new), i < j
            PROVE  c < new[j].chunk
        <5>1. CASE j \in 1..l /\ new[j] = stsc[j]
          BY <4>1, <4>3, <5>1
        <5>2. CASE new[j] = e
          BY <1>1, <5>2
        <5> QED
          BY <3>2, <5>1, <5>2
      <4> QED
        BY <3>6, <4>1, <4>2, <4>3, RowAtUnique
    <3>8. PerOf(new)[n + 1] = s
      <4>1. /\ n + 1 \in Nat \ {0} /\ l + 1 \in 1..Len(new) /\ new[l + 1].chunk <= n + 1
            /\ new[l + 1].per = s
        BY <1>1, <3>1
      <4>2. \A j \in 1..Len(new) : l + 1 < j => n + 1 < new[j].chunk
        BY <1>1, <3>1
      <4> QED
        BY <3>6, <4>1, <4>2, RowAtUnique, SMTT(30)
    <3> QED
      BY <3>2, <3>6, <3>7, <3>8
  <2> QED
    BY <2>1, <2>2
<1> HIDE DEF new
<1>5. ASSUME NEW c \in 1..(n + 1)
      PROVE  FirstOf(new, c) = FirstOf(stsc, c)
  <2>1. c - 1 \in Int /\ \A d \in 1..(c - 1) : PerOf(new)[d] = PerOf(stsc)[d]
    BY <1>1, <1>4
  <2>2. SumOver(PerOf(new), 1, c - 1) = SumOver(PerOf(stsc), 1, c - 1)
    BY <2>1, SumEqual
  <2> QED
    BY <2>2 DEF FirstOf
<1>6. FirstOf(new, n + 2) = FirstOf(stsc, n + 1) + s
  <2>1. n + 1 \in 1..(n + 1) /\ n + 1 + 1 = n + 2
    BY <1>1
  <2>2. FirstOf(new, n + 1 + 1) = FirstOf(new, n + 1) + PerOf(new)[n + 1]
    BY <1>4, <2>1, FirstTypes
  <2> QED
    BY <1>4, <1>5, <2>1, <2>2
<1>7. ASSUME FirstsKnown(stsc), f = FirstOf(stsc, n + 1)
      PROVE  FirstsKnown(new)
  <2> SUFFICES ASSUME NEW i \in 1..Len(new)
               PROVE  new[i].first = FirstOf(new, new[i].chunk)
    BY DEF FirstsKnown
  <2>1. CASE i \in 1..l /\ new[i] = stsc[i]
    <3>1. stsc[i].chunk \in 1..(n + 1) /\ stsc[i].first = FirstOf(stsc, stsc[i].chunk)
      BY <1>1, <1>7, <2>1 DEF FirstsKnown
    <3> QED
      BY <1>5, <2>1, <3>1
  <2>2. CASE new[i] = e
    <3>1. new[i].chunk = n + 1 /\ new[i].first = f /\ n + 1 \in 1..(n + 1)
      BY <1>1, <2>2
    <3> QED
      BY <1>5, <1>7, <3>1
  <2> QED
    BY <1>4, <2>1, <2>2
<1> QED
  BY <1>4, <1>5, <1>6, <1>7 DEF new

\* When the file is read the rows learn the first samples of their chunks.
LEMMA StscRead ==
  ASSUME NEW stsc, NEW n, IsStsc(stsc, n)
  PROVE  LET new == ReadStsc(stsc)
         IN /\ IsStsc(new, n)
            /\ \A c \in 1..n : PerOf(new)[c] = PerOf(stsc)[c]
            /\ \A c \in 1..(n + 1) : FirstOf(new, c) = FirstOf(stsc, c)
            /\ FirstOf(stsc, n + 1) - 1 < Span => FirstsKnown(new)
<1> DEFINE l       == Len(stsc)
           samples == [k \in 1..(Len(stsc) - 1) |-> (stsc[k + 1].chunk - stsc[k].chunk) * stsc[k].per]
           first(i) == (1 + SumOver(samples, 1, i - 1)) % Span
           new     == ReadStsc(stsc)
<1>1. /\ l \in Nat /\ n \in Nat /\ stsc \in Seq(StscRow) /\ DOMAIN stsc = 1..l
      /\ \A i \in 1..l : /\ stsc[i].chunk \in Nat \ {0} /\ stsc[i].chunk <= n
                         /\ stsc[i].per \in Nat \ {0} /\ stsc[i] \in StscRow
  BY StscFields DEF IsStsc
<1>2. \A k \in 1..(l - 1) : samples[k] = (stsc[k + 1].chunk - stsc[k].chunk) * stsc[k].per
  OBVIOUS
<1>3. \A k \in 1..(l - 1) : k \in 1..l /\ k + 1 \in 1..l /\ stsc[k].chunk < stsc[k + 1].chunk
  <2> TAKE k \in 1..(l - 1)
  <2>1. k \in 1..l /\ k + 1 \in 1..l /\ k < k + 1
    BY <1>1
  <2> QED
    BY <2>1 DEF IsStsc
<1>4. \A k \in 1..(l - 1) : samples[k] \in Nat
  <2> TAKE k \in 1..(l - 1)
  <2>1. stsc[k + 1].chunk - stsc[k].chunk \in Nat /\ stsc[k].per \in Nat
    BY <1>1, <1>3
  <2>2. \A x, y \in Nat : x * y \in Nat
    OBVIOUS
  <2> QED
    BY <1>2, <2>1, <2>2
<1>5. new = [i \in 1..l |-> [stsc[i] EXCEPT !.first = first(i)]]
  BY <1>1 DEF ReadStsc
<1> HIDE DEF samples
<1>6. \A i \in 1..l : 1 + SumOver(samples, 1, i - 1) \in Nat \ {0}
  <2> TAKE i \in 1..l
  <2>1. i - 1 \in Int /\ \A k \in 1..(i - 1) : samples[k] \in Nat
    BY <1>1, <1>4
  <2>2. SumOver(samples, 1, i - 1) \in Nat
    BY <2>1, SumNat
  <2> QED
    BY <2>2
<1>7. \A i \in 1..l : first(i) \in 0..(Span - 1)
  <2> TAKE i \in 1..l
  <2> DEFINE x == 1 + SumOver(samples, 1, i - 1)
  <2>1. x \in Nat
    BY <1>6
  <2> HIDE DEF x
  <2>2. x % Span \in 0..(Span - 1)
    BY <2>1, Mp4Assumption
  <2> QED
    BY <2>2 DEF x
<1> HIDE DEF first, new
<1>8. /\ new \in Seq(StscRow) /\ Len(new) = l
      /\ \A i \in 1..l : /\ new[i].chunk = stsc[i].chunk /\ new[i].per = stsc[i].per
                         /\ new[i].first = first(i)
  <2>1. \A i \in 1..l : LET r == [stsc[i] EXCEPT !.first = first(i)]
                        IN /\ r \in StscRow /\ r.chunk = stsc[i].chunk /\ r.per = stsc[i].per
                           /\ r.first = first(i)
    BY <1>1, <1>7 DEF StscRow
  <2> DEFINE r(i) == [stsc[i] EXCEPT !.first = first(i)]
  <2>2. \A i \in 1..l : /\ r(i) \in StscRow /\ r(i).chunk = stsc[i].chunk /\ r(i).per = stsc[i].per
                        /\ r(i).first = first(i)
    BY <2>1
  <2>3. new = [i \in 1..l |-> r(i)]
    BY <1>5
  <2> HIDE DEF r
  <2>4. Len(new) = l /\ \A i \in 1..l : new[i] = r(i)
    BY <1>1, <2>3
  <2>5. new \in Seq(StscRow)
    BY <1>1, <2>2, <2>3
  <2> QED
    BY <2>2, <2>4, <2>5
<1>9. IsStsc(new, n)
  <2>1. n # 0 => new # <<>> /\ new[1].chunk = 1
    <3> SUFFICES ASSUME n # 0
                 PROVE  new # <<>> /\ new[1].chunk = 1
      OBVIOUS
    <3>1. stsc # <<>> /\ stsc[1].chunk = 1
      BY DEF IsStsc
    <3>2. l # 0
      BY <1>1, <3>1, EmptySeq
    <3>3. 1 \in 1..l
      BY <1>1, <3>2
    <3> QED
      BY <1>8, <3>1, <3>2, <3>3
  <2>2. \A i, j \in 1..l : i < j => new[i].chunk < new[j].chunk
    BY <1>8 DEF IsStsc
  <2>3. \A i \in 1..l : new[i].chunk <= n
    BY <1>1, <1>8
  <2> QED
    BY <1>1, <1>8, <2>1, <2>2, <2>3 DEF IsStsc
<1>10. ASSUME NEW c \in 1..n
       PROVE  PerOf(new)[c] = PerOf(stsc)[c]
  <2> DEFINE i == RowAt(stsc, c)
  <2>1. /\ i \in 1..l /\ stsc[i].chunk <= c /\ PerOf(stsc)[c] = stsc[i].per
        /\ \A j \in 1..l : i < j => c < stsc[j].chunk
    BY RowAtIs
  <2> HIDE DEF i
  <2>2. i \in 1..Len(new) /\ c \in Nat \ {0} /\ new[i].chunk <= c
    BY <1>1, <1>8, <2>1
  <2>3. \A j \in 1..Len(new) : i < j => c < new[j].chunk
    BY <1>8, <2>1
  <2> QED
    BY <1>8, <1>9, <2>1, <2>2, <2>3, RowAtUnique
<1>11. ASSUME NEW c \in 1..(n + 1)
       PROVE  FirstOf(new, c) = FirstOf(stsc, c)
  <2>1. c - 1 \in Int /\ \A d \in 1..(c - 1) : PerOf(new)[d] = PerOf(stsc)[d]
    BY <1>1, <1>10
  <2>2. SumOver(PerOf(new), 1, c - 1) = SumOver(PerOf(stsc), 1, c - 1)
    BY <2>1, SumEqual
  <2> QED
    BY <2>2 DEF FirstOf
<1>12. \A i \in 1..l : 1 + SumOver(samples, 1, i - 1) = FirstOf(stsc, stsc[i].chunk)
  <2> DEFINE S == {m \in Int : m + 1 <= l =>
                     1 + SumOver(samples, 1, m) = FirstOf(stsc, stsc[m + 1].chunk)}
  <2>1. 1 - 1 \in S
    <3> SUFFICES ASSUME 1 <= l
                 PROVE  1 + SumOver(samples, 1, 0) = FirstOf(stsc, stsc[1].chunk)
      OBVIOUS
    <3>1. n # 0
      BY <1>1
    <3>2. stsc[1].chunk = 1
      BY <3>1 DEF IsStsc
    <3> QED
      BY <3>2, SumEmpty, FirstTypes
  <2>2. ASSUME NEW m \in Int, m >= 1, m - 1 \in S
        PROVE  m \in S
    <3> SUFFICES ASSUME m + 1 <= l
                 PROVE  1 + SumOver(samples, 1, m) = FirstOf(stsc, stsc[m + 1].chunk)
      OBVIOUS
    <3>1. m \in 1..(l - 1) /\ m \in 1..l /\ m + 1 \in 1..l /\ m - 1 + 1 = m
      BY <1>1, <2>2
    <3>2. 1 + SumOver(samples, 1, m - 1) = FirstOf(stsc, stsc[m].chunk)
      BY <1>1, <2>2, <3>1
    <3>3. SumOver(samples, 1, m) = SumOver(samples, 1, m - 1) + samples[m]
      BY <2>2, SumStep
    <3> DEFINE c == stsc[m + 1].chunk
    <3>4. c \in Nat /\ stsc[m].chunk <= c /\ c <= n + 1
      BY <1>1, <1>3, <3>1
    <3>5. \A j \in 1..l : m < j => c <= stsc[j].chunk
      <4> SUFFICES ASSUME NEW j \in 1..l, m < j
                   PROVE  c <= stsc[j].chunk
        OBVIOUS
      <4>1. CASE j = m + 1
        BY <1>1, <4>1
      <4>2. CASE j # m + 1
        <5>1. m + 1 < j
          BY <1>1, <4>2
        <5>2. stsc[m + 1].chunk < stsc[j].chunk
          BY <3>1, <5>1 DEF IsStsc
        <5> QED
          BY <1>1, <3>1, <5>2
      <4> QED
        BY <4>1, <4>2
    <3>6. FirstOf(stsc, c) = FirstOf(stsc, stsc[m].chunk) + (c - stsc[m].chunk) * stsc[m].per
      <4> HIDE DEF c
      <4> QED
        BY <3>1, <3>4, <3>5, InRow
    <3>7. FirstOf(stsc, c) = FirstOf(stsc, stsc[m].chunk) + samples[m]
      BY <1>2, <3>1, <3>6
    <3>8. samples[m] \in Int /\ SumOver(samples, 1, m - 1) \in Int
      <4>1. m - 1 \in Int /\ \A k \in 1..(m - 1) : samples[k] \in Int
        BY <1>1, <1>4, <3>1
      <4>2. SumOver(samples, 1, m - 1) \in Int
        BY <4>1, SumInt
      <4> QED
        BY <1>4, <3>1, <4>2
    <3> QED
      BY <3>2, <3>3, <3>7, <3>8
  <2> HIDE DEF S
  <2>3. \A m \in Int : m >= 1 - 1 => m \in S
    BY <2>1, <2>2, SumInduction
  <2> TAKE i \in 1..l
  <2>4. i - 1 \in Int /\ i - 1 >= 1 - 1 /\ i - 1 + 1 = i /\ i <= l
    BY <1>1
  <2>5. i - 1 \in S
    BY <2>3, <2>4
  <2> QED
    BY <2>4, <2>5 DEF S
<1>13. ASSUME FirstOf(stsc, n + 1) - 1 < Span
       PROVE  FirstsKnown(new)
  <2> SUFFICES ASSUME NEW i \in 1..l
               PROVE  new[i].first = FirstOf(new, new[i].chunk)
    BY <1>8 DEF FirstsKnown
  <2> DEFINE c == stsc[i].chunk
             x == FirstOf(stsc, c)
  <2>1. c \in 1..(n + 1) /\ c \in 1..n /\ n + 1 \in 1..(n + 1)
    BY <1>1
  <2>2. x \in Nat /\ FirstOf(stsc, n + 1) \in Nat
    BY <2>1, FirstTypes
  <2>3. \A d \in 1..(n + 1) : c <= d => FirstOf(stsc, d) >= x + (d - c)
    BY <2>1, FirstMonotone
  <2>4. n + 1 - c >= 1 /\ n + 1 - c \in Int
    BY <1>1, <2>1
  <2>5. first(i) = x % Span
    BY <1>12 DEF first
  <2> HIDE DEF x
  <2>6. x < Span
    <3>1. c <= n + 1
      BY <1>1, <2>1
    <3>2. FirstOf(stsc, n + 1) >= x + (n + 1 - c)
      <4>1. n + 1 \in 1..(n + 1) /\ n \in Int /\ c \in Int /\ x \in Int
        BY <1>1, <2>1, <2>2
      <4> HIDE DEF c, x
      <4>2. PICK d \in 1..(n + 1) : d = n + 1
        BY <4>1
      <4>3. FirstOf(stsc, d) >= x + (d - c)
        BY <2>3, <3>1, <4>2, Zenon
      <4>4. d - c = n + 1 - c
        BY <4>1, <4>2
      <4> QED
        BY <4>2, <4>3, <4>4, Zenon
    <3> DEFINE y == FirstOf(stsc, n + 1)
               z == n + 1 - c
    <3>3. y >= x + z /\ z >= 1 /\ z \in Int /\ y \in Nat /\ y - 1 < Span
      BY <1>13, <2>2, <2>4, <3>2
    <3> HIDE DEF y, z
    <3> QED
      BY <2>2, <3>3, Mp4Assumption
  <2>7. x % Span = x
    BY <2>2, <2>6, Within
  <2> HIDE DEF c
  <2>8. new[i].first = FirstOf(stsc, c) /\ new[i].chunk = c
    BY <1>8, <2>5, <2>7 DEF c, x
  <2> QED
    BY <1>11, <2>1, <2>8
<1> QED
  BY <1>9, <1>10, <1>11, <1>13 DEF new

\* Every sample that is in a chunk is in one chunk.
LEMMA ChunkOfSample ==
  ASSUME NEW stsc, NEW n, IsStsc(stsc, n), NEW id \in Nat \ {0}, id < FirstOf(stsc, n + 1)
  PROVE  \E c \in 1..n : id >= FirstOf(stsc, c) /\ id < FirstOf(stsc, c + 1)
<1> DEFINE S == {c \in 1..(n + 1) : id < FirstOf(stsc, c)}
<1>1. n \in Nat /\ \A c \in 1..(n + 1) : FirstOf(stsc, c) \in Nat
  BY StscFields, FirstTypes
<1>2. n + 1 \in S /\ \A i \in S : i \in Int /\ 1 <= i
  BY <1>1
<1> DEFINE m == Min(S)
<1>3. m \in S /\ \A i \in S : m <= i
  <2> HIDE DEF S
  <2> QED
    BY <1>2, MinOfInts
<1>4. m # 1
  <2>1. FirstOf(stsc, 1) = 1
    BY FirstTypes
  <2>2. 1 \notin S
    BY <2>1
  <2> HIDE DEF S, m
  <2> QED
    BY <1>3, <2>2
<1>5. m \in 1..(n + 1) /\ id < FirstOf(stsc, m)
  BY <1>3
<1>6. \A i \in S : m <= i
  BY <1>3
<1> HIDE DEF m
<1> DEFINE c == m - 1
<1>7. c \in 1..n /\ c \in 1..(n + 1) /\ c + 1 = m /\ ~ (m <= c)
  BY <1>1, <1>4, <1>5
<1> HIDE DEF c
<1>8. c \notin S
  BY <1>6, <1>7
<1>9. id >= FirstOf(stsc, c)
  BY <1>1, <1>7, <1>8
<1> QED
  BY <1>5, <1>7, <1>9

LEMMA ModOf ==
  ASSUME NEW q \in Nat, NEW p \in Nat \ {0}, NEW r \in 0..(p - 1)
  PROVE  (q * p + r) \div p = q /\ (q * p + r) % p = r
<1> DEFINE x == q * p + r
           d == x \div p
           m == x % p
<1>1. q * p \in Nat
  OBVIOUS
<1>2. x \in Nat
  BY <1>1
<1>3. d \in Int /\ m \in 0..(p - 1) /\ x = p * d + m
  <2> HIDE DEF x
  <2> QED
    BY <1>2
<1>4. p * (q - d) = m - r
  BY <1>1, <1>3
<1> HIDE DEF d, m, x
<1>5. q - d = 0
  <2> DEFINE k == q - d
  <2>1. k \in Int /\ p * k = m - r /\ m - r < p /\ r - m < p /\ m \in Int
    BY <1>3, <1>4
  <2> HIDE DEF k
  <2>2. CASE k >= 1
    <3>1. p * k >= p
      BY <2>1, <2>2
    <3> QED
      BY <2>1, <3>1
  <2>3. CASE k <= -1
    <3>1. p * k <= -p
      BY <2>1, <2>3
    <3> QED
      BY <2>1, <3>1
  <2>4. k = 0
    BY <2>1, <2>2, <2>3
  <2> QED
    BY <2>4 DEF k
<1>6. d = q /\ m = r
  BY <1>3, <1>4, <1>5
<1> QED
  BY <1>6 DEF d, m, x

\* A sample leads to the row of its chunk, to its chunk and to its place there.
LEMMA SampleInChunk ==
  ASSUME NEW stsc, NEW n, IsStsc(stsc, n), FirstsKnown(stsc),
         NEW c \in 1..n, NEW id \in Nat \ {0}, FirstOf(stsc, c) <= id, id < FirstOf(stsc, c + 1)
  PROVE  LET later == {i \in DOMAIN stsc : id < stsc[i].first}
             row   == stsc[RowAt(stsc, c)]
         IN /\ (IF later = {} THEN Len(stsc) ELSE Min(later) - 1) = RowAt(stsc, c)
            /\ row.chunk + (id - row.first) \div row.per = c
            /\ (id - row.first) % row.per = id - FirstOf(stsc, c)
            /\ RowAt(stsc, c) \in 1..Len(stsc)
<1> DEFINE i == RowAt(stsc, c)
           l == Len(stsc)
           b == stsc[i].chunk
           p == stsc[i].per
           x == FirstOf(stsc, c)
           y == FirstOf(stsc, b)
           later == {j \in DOMAIN stsc : id < stsc[j].first}
<1>1. /\ l \in Nat /\ n \in Nat /\ DOMAIN stsc = 1..l
      /\ \A j \in 1..l : stsc[j].chunk \in 1..n /\ stsc[j].first = FirstOf(stsc, stsc[j].chunk)
  BY StscFields DEF FirstsKnown
<1>2. /\ i \in 1..l /\ b <= c /\ PerOf(stsc)[c] = p /\ p \in Nat \ {0}
      /\ \A j \in 1..l : i < j => c < stsc[j].chunk
  BY RowAtIs
<1>3. x \in Nat /\ y \in Nat /\ FirstOf(stsc, c + 1) = x + p
  <2>1. c \in 1..(n + 1) /\ b \in 1..(n + 1)
    BY <1>1, <1>2
  <2>2. FirstOf(stsc, c + 1) = FirstOf(stsc, c) + PerOf(stsc)[c]
    BY FirstTypes
  <2> QED
    BY <1>2, <2>1, <2>2, FirstTypes
<1> HIDE DEF i
<1>4. x = y + (c - b) * p
  <2>1. c \in Nat /\ c <= n + 1 /\ \A j \in 1..l : i < j => c <= stsc[j].chunk
    <3> SUFFICES ASSUME NEW j \in 1..l, i < j
                 PROVE  c <= stsc[j].chunk
      BY <1>1
    <3> QED
      BY <1>1, <1>2
  <2> QED
    BY <1>2, <2>1, InRow
<1>5. stsc[i].first = y
  BY <1>1, <1>2
<1>6. id - y = (c - b) * p + (id - x) /\ c - b \in Nat /\ id - x \in 0..(p - 1)
  <2>1. c - b \in Nat
    BY <1>1, <1>2
  <2> DEFINE k == (c - b) * p
  <2>2. k \in Nat
    BY <1>2, <2>1
  <2>3. x = y + k
    BY <1>4
  <2>4. id < x + p
    BY <1>3
  <2> HIDE DEF k, x, y, p
  <2>5. id - y = k + (id - x) /\ id - x \in 0..(p - 1)
    BY <1>2, <1>3, <2>2, <2>3, <2>4 DEF x
  <2> QED
    BY <2>1, <2>5 DEF k
<1>7. (id - y) \div p = c - b /\ (id - y) % p = id - x
  <2> DEFINE q == c - b
             r == id - x
             z == id - y
  <2>1. q \in Nat /\ r \in 0..(p - 1) /\ z = q * p + r
    BY <1>6
  <2> HIDE DEF x, y, p, q, r, z
  <2>2. z \div p = q /\ z % p = r
    BY <1>2, <2>1, ModOf
  <2> QED
    BY <2>2 DEF q, r, z
<1>8. b + (id - y) \div p = c
  BY <1>1, <1>2, <1>7
<1>9. ASSUME NEW j \in 1..l
      PROVE  id < stsc[j].first <=> i < j
  <2> DEFINE d == stsc[j].chunk
  <2>1. d \in 1..(n + 1) /\ d \in Nat /\ c \in Nat /\ b \in Nat
    BY <1>1, <1>2
  <2>2. stsc[j].first = FirstOf(stsc, d) /\ FirstOf(stsc, d) \in Nat
    BY <1>1, <2>1, FirstTypes
  <2>3. CASE i < j
    <3>1. c < d
      BY <1>2, <2>3
    <3> DEFINE e == c + 1
    <3>2. e \in 1..(n + 1) /\ e <= d
      BY <1>1, <2>1, <3>1
    <3> HIDE DEF d, e
    <3>3. FirstOf(stsc, d) >= FirstOf(stsc, e) + (d - e)
      BY <2>1, <3>2, FirstMonotone
    <3>4. FirstOf(stsc, e) \in Nat
      BY <3>2, FirstTypes
    <3>5. id < FirstOf(stsc, e)
      BY DEF e
    <3>6. id < FirstOf(stsc, d)
      BY <2>1, <2>2, <3>2, <3>3, <3>4, <3>5
    <3> QED
      BY <2>2, <2>3, <3>6
  <2>4. CASE ~ (i < j)
    <3>1. d <= b
      <4>1. CASE j = i
        BY <2>1, <4>1
      <4>2. CASE j # i
        <5>1. j < i
          BY <1>1, <1>2, <2>4, <4>2
        <5>2. stsc[j].chunk < stsc[i].chunk
          BY <1>2, <5>1 DEF IsStsc
        <5> QED
          BY <2>1, <5>2
      <4> QED
        BY <4>1, <4>2
    <3>2. d <= c /\ c \in 1..(n + 1)
      BY <1>1, <1>2, <2>1, <3>1
    <3> HIDE DEF d
    <3>3. FirstOf(stsc, c) >= FirstOf(stsc, d) + (c - d)
      BY <2>1, <3>2, FirstMonotone
    <3>4. FirstOf(stsc, c) \in Nat
      BY <1>3
    <3>5. ~ (id < FirstOf(stsc, d))
      BY <2>1, <2>2, <3>2, <3>3, <3>4
    <3> QED
      BY <2>2, <2>4, <3>5
  <2> QED
    BY <2>3, <2>4
<1>10. (IF later = {} THEN l ELSE Min(later) - 1) = i
  <2>1. later = {j \in 1..l : i < j}
    BY <1>1, <1>9
  <2> HIDE DEF later
  <2>2. CASE i = l
    <3>1. later = {}
      BY <1>1, <2>1, <2>2
    <3> QED
      BY <2>2, <3>1
  <2>3. CASE i # l
    <3>1. i + 1 \in later /\ later \subseteq Int /\ \A j \in later : i + 1 <= j
      <4>1. i \in Int /\ i + 1 \in 1..l
        <5>1. i \in 1..l /\ l \in Nat
          BY <1>1, <1>2
        <5> HIDE DEF l
        <5> QED
          BY <2>3, <5>1
      <4>2. i + 1 \in later
        BY <2>1, <4>1
      <4>3. \A j \in later : j \in Int /\ i + 1 <= j
        BY <1>1, <2>1, <4>1
      <4> QED
        BY <4>2, <4>3
    <3>2. Min(later) = i + 1
      BY <3>1, MinIs
    <3> QED
      BY <1>2, <3>1, <3>2
  <2> QED
    BY <2>2, <2>3
<1> QED
  BY <1>2, <1>5, <1>7, <1>8, <1>10 DEF i

(***************************************************************************)
(* The media data of a track: n bytes of each sample, sample after sample. *)
(***************************************************************************)

Byte == Nat \X Nat

BytesOf(samples) == [i \in 1..Len(samples) |-> samples[i].bytes]

\* The samples from a to b lie in med, one after the other, from position pos.
Laid(bytes, t, med, pos, a, b) ==
  \A id \in a..b : \A k \in 1..bytes[id] :
    LET p == pos + SumOver(bytes, a, id - 1) + k
    IN p <= Len(med) /\ med[p] = <<t, id>>

\* How many samples are in chunks.
Stored(tr) == FirstOf(tr.stsc, Len(tr.chunks) + 1) - 1

\* The samples have numbers, and no session has ended with samples that are in
\* no chunk.
Whole(tr, samples) == Len(samples) < Span /\ Stored(tr) + tr.samples = Len(samples)

\* Each chunk of a track and the buffer have the bytes of their samples.
Chunked(tr, t, samples, med) ==
  /\ IsStsc(tr.stsc, Len(tr.chunks)) /\ tr.chunks \in Seq(0..Len(med))
  /\ tr.buffer \in Seq(Byte)
  /\ tr.samples = 0 => tr.buffer = <<>>
  /\ Stored(tr) + tr.samples <= Len(samples)
  /\ Whole(tr, samples) =>
       /\ \A c \in 1..Len(tr.chunks) :
            Laid(BytesOf(samples), t, med, tr.chunks[c],
                 FirstOf(tr.stsc, c), FirstOf(tr.stsc, c + 1) - 1)
       /\ Laid(BytesOf(samples), t, tr.buffer, 0, Stored(tr) + 1, Len(samples))
       /\ Len(tr.buffer) = SumOver(BytesOf(samples), Stored(tr) + 1, Len(samples))

LEMMA BytesTyped ==
  ASSUME NEW samples \in Seq(Sample)
  PROVE  /\ Len(samples) \in Nat /\ DOMAIN samples = 1..Len(samples)
         /\ \A i \in 1..Len(samples) :
              BytesOf(samples)[i] = samples[i].bytes /\ BytesOf(samples)[i] \in Nat
<1>1. Len(samples) \in Nat /\ DOMAIN samples = 1..Len(samples)
  BY LenProperties
<1>2. \A i \in 1..Len(samples) : samples[i] \in Sample
  BY ElementOfSeq
<1> QED
  BY <1>1, <1>2 DEF BytesOf, Sample

\* A byte of a sample is one of those of all samples.
LEMMA ByteWithin ==
  ASSUME NEW bytes, NEW a \in Int, NEW b \in Int, \A i \in a..b : bytes[i] \in Nat,
         NEW id \in a..b, NEW k \in 1..bytes[id]
  PROVE  /\ SumOver(bytes, a, id - 1) \in Nat /\ SumOver(bytes, a, b) \in Nat
         /\ SumOver(bytes, a, id - 1) + k \in 1..SumOver(bytes, a, b)
<1>1. SumOver(bytes, a, id) = SumOver(bytes, a, id - 1) + bytes[id]
  BY SumStep
<1>2. SumOver(bytes, a, id) <= SumOver(bytes, a, b)
  BY SumPart
<1>3. SumOver(bytes, a, id - 1) \in Nat /\ SumOver(bytes, a, b) \in Nat
  <2>1. \A i \in a..(id - 1) : bytes[i] \in Nat
    OBVIOUS
  <2> QED
    BY <2>1, SumNat
<1> DEFINE x == SumOver(bytes, a, id - 1)
           y == SumOver(bytes, a, id)
           z == SumOver(bytes, a, b)
<1>4. bytes[id] \in Nat /\ x \in Nat /\ z \in Nat /\ y = x + bytes[id] /\ y <= z
  BY <1>1, <1>2, <1>3
<1> HIDE DEF x, y, z
<1>5. x + k \in 1..z
  BY <1>4
<1> QED
  BY <1>4, <1>5 DEF x, z

\* What lies in one place lies in another that has the same bytes.
LEMMA LaidMoved ==
  ASSUME NEW bytes, NEW t, NEW med, NEW pos \in Nat, NEW a \in Int, NEW b \in Int,
         \A i \in a..b : bytes[i] \in Nat,
         Laid(bytes, t, med, pos, a, b),
         NEW other, NEW from \in Nat, NEW same, \A i \in a..b : same[i] = bytes[i],
         \A j \in 1..SumOver(bytes, a, b) : pos + j <= Len(med) =>
           from + j <= Len(other) /\ other[from + j] = med[pos + j]
  PROVE  Laid(same, t, other, from, a, b)
<1> SUFFICES ASSUME NEW id \in a..b, NEW k \in 1..same[id]
             PROVE  LET p == from + SumOver(same, a, id - 1) + k
                    IN p <= Len(other) /\ other[p] = <<t, id>>
  BY DEF Laid
<1>1. SumOver(same, a, id - 1) = SumOver(bytes, a, id - 1)
  <2>1. \A i \in a..(id - 1) : same[i] = bytes[i]
    OBVIOUS
  <2> QED
    BY <2>1, SumEqual
<1>2. k \in 1..bytes[id]
  OBVIOUS
<1> DEFINE x == SumOver(bytes, a, id - 1)
           j == x + k
<1>3. x \in Nat /\ j \in 1..SumOver(bytes, a, b)
  BY <1>2, ByteWithin
<1>4. pos + x + k <= Len(med) /\ med[pos + x + k] = <<t, id>>
  BY <1>2 DEF Laid
<1> HIDE DEF x
<1>5. pos + x + k = pos + j /\ from + x + k = from + j
  BY <1>2, <1>3
<1> HIDE DEF j
<1>6. from + j <= Len(other) /\ other[from + j] = <<t, id>>
  BY <1>3, <1>4, <1>5
<1> QED
  BY <1>1, <1>5, <1>6 DEF x

\* The length and the elements of a concatenation.
LEMMA Joined ==
  ASSUME NEW S, NEW med \in Seq(S), NEW more \in Seq(S)
  PROVE  LET all == med \o more
         IN /\ all \in Seq(S)
            /\ Len(med) \in Nat /\ Len(more) \in Nat /\ Len(all) = Len(med) + Len(more)
            /\ \A k \in 1..Len(med) : all[k] = med[k]
            /\ \A k \in 1..Len(more) : all[Len(med) + k] = more[k]
<1> DEFINE all == med \o more
<1>1. /\ all \in Seq(S)
      /\ Len(med) \in Nat /\ Len(more) \in Nat /\ Len(all) = Len(med) + Len(more)
      /\ \A i \in 1..(Len(med) + Len(more)) :
           all[i] = IF i <= Len(med) THEN med[i] ELSE more[i - Len(med)]
  BY LenProperties, ConcatProperties
<1> HIDE DEF all
<1>2. ASSUME NEW k \in 1..Len(more)
      PROVE  all[Len(med) + k] = more[k]
  <2> DEFINE j == Len(med) + k
  <2>1. j \in 1..(Len(med) + Len(more)) /\ ~ (j <= Len(med)) /\ j - Len(med) = k
    BY <1>1
  <2> HIDE DEF j
  <2>2. all[j] = more[k]
    BY <1>1, <2>1
  <2> QED
    BY <2>2 DEF j
<1> QED
  BY <1>1, <1>2 DEF all

\* A sample after the others.
LEMMA LaidMore ==
  ASSUME NEW bytes, NEW t, NEW med, NEW a \in Int, NEW b \in Int, a <= b + 1,
         \A i \in a..(b + 1) : bytes[i] \in Nat,
         Laid(bytes, t, med, 0, a, b), Len(med) = SumOver(bytes, a, b), Len(med) \in Nat,
         NEW all, Len(all) = Len(med) + bytes[b + 1],
         \A k \in 1..Len(med) : all[k] = med[k],
         \A k \in 1..bytes[b + 1] : all[Len(med) + k] = <<t, b + 1>>
  PROVE  Laid(bytes, t, all, 0, a, b + 1) /\ Len(all) = SumOver(bytes, a, b + 1)
<1>1. bytes[b + 1] \in Nat
  <2>1. b + 1 \in a..(b + 1)
    OBVIOUS
  <2> QED
    BY <2>1
<1>2. SumOver(bytes, a, b + 1) = SumOver(bytes, a, b) + bytes[b + 1]
  <2>1. b + 1 \in Int /\ ~ (b + 1 < a) /\ b + 1 - 1 = b
    OBVIOUS
  <2> QED
    BY <2>1, SumStep
<1>3. Len(all) = SumOver(bytes, a, b + 1)
  BY <1>2
<1>4. Laid(bytes, t, all, 0, a, b)
  <2>1. \A i \in a..b : bytes[i] \in Nat
    OBVIOUS
  <2>2. \A j \in 1..SumOver(bytes, a, b) : 0 + j <= Len(med) =>
          0 + j <= Len(all) /\ all[0 + j] = med[0 + j]
    BY <1>1
  <2>3. 0 \in Nat /\ \A i \in a..b : bytes[i] = bytes[i]
    OBVIOUS
  <2> QED
    BY <2>1, <2>2, <2>3, LaidMoved
<1>5. ASSUME NEW id \in a..(b + 1), NEW k \in 1..bytes[id]
      PROVE  LET p == 0 + SumOver(bytes, a, id - 1) + k
             IN p <= Len(all) /\ all[p] = <<t, id>>
  <2>1. CASE id \in a..b
    BY <1>4, <1>5, <2>1 DEF Laid
  <2>2. CASE id = b + 1
    <3>1. id - 1 = b
      BY <2>2
    <3>2. SumOver(bytes, a, id - 1) = Len(med)
      BY <3>1
    <3>3. k \in 1..bytes[b + 1]
      BY <2>2
    <3>4. Len(med) + k <= Len(all) /\ all[Len(med) + k] = <<t, id>>
      <4>1. Len(med) + k <= Len(all)
        BY <1>1, <3>3
      <4>2. all[Len(med) + k] = <<t, b + 1>>
        BY <3>3
      <4> QED
        BY <2>2, <4>1, <4>2
    <3>5. 0 + Len(med) + k = Len(med) + k
      BY <1>1, <3>3
    <3> QED
      BY <3>2, <3>4, <3>5
  <2> QED
    BY <2>1, <2>2
<1> QED
  BY <1>3, <1>5 DEF Laid

(***************************************************************************)
(* What the tables say of a sample, and of a chunk.                        *)
(***************************************************************************)

LEMMA SizeOfSample ==
  ASSUME NEW tr, IsTrack(tr), NEW samples \in Seq(Sample), Sized(tr, samples),
         NEW id \in 1..Len(samples)
  PROVE  /\ GetSampleSize(tr, id) = samples[id].bytes
         /\ GetSampleSize(tr, id) = BytesOf(samples)[id]
         /\ tr.size = 0 => id \in DOMAIN tr.sizes
<1>1. BytesOf(samples)[id] = samples[id].bytes
  BY BytesTyped
<1>2. CASE tr.size # 0
  BY <1>1, <1>2 DEF Sized, GetSampleSize
<1>3. CASE tr.size = 0
  <2>1. tr.sizes \in Seq(Nat)
    BY DEF IsTrack
  <2>2. DOMAIN tr.sizes = 1..Len(tr.sizes)
    BY <2>1, LenProperties
  <2>3. Len(tr.sizes) = Len(samples) /\ tr.sizes[id] = samples[id].bytes
    BY <1>3 DEF Sized
  <2> QED
    BY <1>1, <1>3, <2>2, <2>3 DEF GetSampleSize
<1> QED
  BY <1>2, <1>3

\* The offset of a sample is that of its chunk and the bytes before it there.
LEMMA OffsetInFile ==
  ASSUME NEW tr, IsTrack(tr), NEW samples \in Seq(Sample), Sized(tr, samples),
         IsStsc(tr.stsc, Len(tr.chunks)), FirstsKnown(tr.stsc),
         NEW c \in 1..Len(tr.chunks), NEW id \in 1..Len(samples),
         FirstOf(tr.stsc, c) <= id, id < FirstOf(tr.stsc, c + 1)
  PROVE  GetSampleFileOffset(tr, id) =
           tr.chunks[c] + SumOver(BytesOf(samples), FirstOf(tr.stsc, c), id - 1)
<1> DEFINE n     == Len(tr.chunks)
           i     == RowAt(tr.stsc, c)
           row   == tr.stsc[i]
           x     == FirstOf(tr.stsc, c)
           later == {j \in DOMAIN tr.stsc : id < tr.stsc[j].first}
           before == (id - ((id - row.first) % row.per))..(id - 1)
<1>1. n \in Nat /\ x \in Nat \ {0} /\ x <= id /\ id \in Nat \ {0} /\ Len(samples) \in Nat
  <2>1. n \in Nat /\ Len(samples) \in Nat
    BY StscFields, LenProperties
  <2>2. c \in 1..(n + 1)
    BY <2>1
  <2> HIDE DEF n
  <2> QED
    BY <2>1, <2>2, FirstTypes DEF n
<1>2. /\ (IF later = {} THEN Len(tr.stsc) ELSE Min(later) - 1) = i
      /\ row.chunk + (id - row.first) \div row.per = c
      /\ (id - row.first) % row.per = id - x
      /\ i \in 1..Len(tr.stsc)
  BY <1>1, SampleInChunk
<1>3. GetSampleStscIndex(tr, id) = i /\ i # 0
  <2>1. GetSampleStscIndex(tr, id) = i
    BY <1>2 DEF GetSampleStscIndex
  <2>2. Len(tr.stsc) \in Nat
    BY StscFields
  <2> HIDE DEF i, row
  <2> QED
    BY <1>2, <2>1, <2>2
<1> HIDE DEF n, i, later
<1>4. before = x..(id - 1)
  <2>1. id - (id - x) = x
    BY <1>1
  <2> QED
    BY <1>2, <2>1
<1> HIDE DEF x
<1> HIDE DEF before
<1>5. Min(before \cup {id}) = x
  <2> DEFINE T == before \cup {id}
  <2>1. T = x..id
    BY <1>1, <1>4
  <2>2. x \in T /\ T \subseteq Int /\ \A j \in T : x <= j
    BY <1>1, <2>1
  <2> HIDE DEF T
  <2>3. Min(T) = x
    BY <2>2, MinIs
  <2> QED
    BY <2>3 DEF T
<1>6. tr.size = 0 => before \subseteq DOMAIN tr.sizes
  <2>1. \A j \in before : j \in 1..Len(samples)
    BY <1>1, <1>4
  <2> QED
    BY <2>1, SizeOfSample
<1>7. SumOver([j \in before |-> GetSampleSize(tr, j)], x, id - 1) = SumOver(BytesOf(samples), x, id - 1)
  <2> DEFINE v == [j \in before |-> GetSampleSize(tr, j)]
  <2>1. \A j \in x..(id - 1) : v[j] = BytesOf(samples)[j]
    <3> TAKE j \in x..(id - 1)
    <3>1. j \in before /\ j \in 1..Len(samples)
      BY <1>1, <1>4
    <3>2. GetSampleSize(tr, j) = BytesOf(samples)[j]
      BY <3>1, SizeOfSample
    <3> HIDE DEF before
    <3> QED
      BY <3>1, <3>2
  <2> HIDE DEF v
  <2>2. x \in Int /\ id - 1 \in Int
    BY <1>1
  <2>3. SumOver(v, x, id - 1) = SumOver(BytesOf(samples), x, id - 1)
    BY <2>1, <2>2, SumEqual
  <2> QED
    BY <2>3 DEF v
<1>8. ~ (c > Len(tr.chunks))
  BY <1>1 DEF n
<1>9. GetSampleFileOffset(tr, id) =
        (LET chunk == row.chunk + (id - row.first) \div row.per
         IN IF i = 0 \/ chunk > Len(tr.chunks) \/ (tr.size = 0 /\ ~(before \subseteq DOMAIN tr.sizes))
            THEN -1
            ELSE tr.chunks[chunk]
                   + SumOver([j \in before |-> GetSampleSize(tr, j)], Min(before \cup {id}), id - 1))
  BY <1>3, Zenon DEF GetSampleFileOffset, before
<1> HIDE DEF row
<1> QED
  BY <1>2, <1>3, <1>5, <1>6, <1>7, <1>8, <1>9 DEF x

\* A chunk has as many samples as its row says, and begins with the one after
\* the last of the chunk before, if the rows know their first samples.
LEMMA SamplesOfChunk ==
  ASSUME NEW tr, IsStsc(tr.stsc, Len(tr.chunks)), NEW c \in 1..Len(tr.chunks)
  PROVE  /\ \E f \in Int, p \in Nat \ {0} : ChunkSamples(tr, c) = f..(f + p - 1)
         /\ Cardinality(ChunkSamples(tr, c)) = PerOf(tr.stsc)[c]
         /\ FirstsKnown(tr.stsc) =>
              ChunkSamples(tr, c) = FirstOf(tr.stsc, c)..(FirstOf(tr.stsc, c + 1) - 1)
<1> DEFINE n   == Len(tr.chunks)
           i   == RowAt(tr.stsc, c)
           row == tr.stsc[i]
           d   == (c - row.chunk) * row.per
           f   == row.first + d
           p   == PerOf(tr.stsc)[c]
<1>1. /\ n \in Nat /\ i \in 1..Len(tr.stsc) /\ row.chunk <= c
      /\ \A j \in 1..Len(tr.stsc) : i < j => c < tr.stsc[j].chunk
      /\ p = row.per /\ p \in Nat \ {0}
  BY StscFields, RowAtIs
<1>2. row.chunk \in Nat \ {0} /\ row.first \in Nat /\ \A j \in 1..Len(tr.stsc) : tr.stsc[j].chunk \in Nat
  BY <1>1, StscFields, Mp4Assumption
<1>3. ChunkSamples(tr, c) = f..(f + row.per - 1)
  <2>1. GetChunkStscIndex(tr, c) = i
    BY DEF GetChunkStscIndex, RowAt
  <2> HIDE DEF i
  <2> QED
    BY <2>1 DEF ChunkSamples
<1>4. d \in Int
  <2> HIDE DEF p, row, i
  <2> QED
    BY <1>1, <1>2
<1>5. f \in Int
  <2> HIDE DEF d, row
  <2> QED
    BY <1>2, <1>4
<1>6. Cardinality(f..(f + p - 1)) = p
  <2> DEFINE l == f + p - 1
  <2>1. l \in Int /\ ~ (f > l) /\ l - f + 1 = p
    <3> HIDE DEF f, p
    <3> QED
      BY <1>1, <1>5, SMTT(30)
  <2> HIDE DEF l, f, p
  <2>2. Cardinality(f..l) = l - f + 1
    BY <1>5, <2>1, FS_Interval
  <2> QED
    BY <2>1, <2>2 DEF l
<1>7. ASSUME FirstsKnown(tr.stsc)
      PROVE  f = FirstOf(tr.stsc, c) /\ f + p - 1 = FirstOf(tr.stsc, c + 1) - 1
  <2>1. c \in 1..n /\ c \in Nat /\ c <= n + 1 /\ c \in 1..(n + 1)
    BY <1>1
  <2>2. \A j \in 1..Len(tr.stsc) : i < j => c <= tr.stsc[j].chunk
    <3> HIDE DEF i, row
    <3> QED
      BY <1>1, <1>2, <2>1
  <2>3. FirstOf(tr.stsc, c) = FirstOf(tr.stsc, row.chunk) + d
    <3> HIDE DEF i
    <3> QED
      BY <1>1, <2>1, <2>2, InRow
  <2>4. row.first = FirstOf(tr.stsc, row.chunk)
    <3> HIDE DEF i
    <3> QED
      BY <1>1, <1>7 DEF FirstsKnown
  <2>5. FirstOf(tr.stsc, c + 1) = FirstOf(tr.stsc, c) + p /\ FirstOf(tr.stsc, c) \in Nat
    BY <2>1, FirstTypes
  <2> HIDE DEF d, i, row
  <2>6. f = FirstOf(tr.stsc, c)
    BY <2>3, <2>4
  <2> HIDE DEF f, p
  <2> QED
    BY <1>1, <2>5, <2>6
<1> HIDE DEF i, row, d, f
<1>8. ChunkSamples(tr, c) = f..(f + p - 1)
  BY <1>1, <1>3
<1> HIDE DEF p
<1> QED
  BY <1>1, <1>5, <1>6, <1>7, <1>8 DEF p

LEMMA ChunkSizeKnown ==
  ASSUME NEW tr, IsTrack(tr), NEW samples \in Seq(Sample), Sized(tr, samples),
         IsStsc(tr.stsc, Len(tr.chunks)), FirstsKnown(tr.stsc),
         NEW c \in 1..Len(tr.chunks), FirstOf(tr.stsc, c + 1) - 1 <= Len(samples)
  PROVE  GetChunkSize(tr, c) =
           SumOver(BytesOf(samples), FirstOf(tr.stsc, c), FirstOf(tr.stsc, c + 1) - 1)
<1> DEFINE x   == FirstOf(tr.stsc, c)
           y   == FirstOf(tr.stsc, c + 1) - 1
           ids == ChunkSamples(tr, c)
           v   == [i \in ids |-> GetSampleSize(tr, i)]
<1>1. x \in Nat \ {0} /\ y \in Int /\ x <= y /\ y <= Len(samples) /\ Len(samples) \in Nat
  <2>1. Len(tr.chunks) \in Nat /\ Len(samples) \in Nat
    BY StscFields, LenProperties
  <2>2. c \in 1..(Len(tr.chunks) + 1)
    BY <2>1
  <2>3. /\ FirstOf(tr.stsc, c) \in Nat \ {0}
        /\ FirstOf(tr.stsc, c + 1) = FirstOf(tr.stsc, c) + PerOf(tr.stsc)[c]
        /\ PerOf(tr.stsc)[c] \in Nat \ {0}
    BY <2>2, FirstTypes
  <2> QED
    BY <2>1, <2>3
<1>2. ids = x..y
  BY SamplesOfChunk
<1> HIDE DEF x, y, ids
<1>3. Min(ids) = x /\ Max(ids) = y
  <2>1. x \in ids /\ y \in ids /\ ids \subseteq Int
        /\ (\A j \in ids : x <= j) /\ (\A j \in ids : j <= y)
    BY <1>1, <1>2
  <2> QED
    BY <2>1, MinIs, MaxIs
<1>4. \A i \in x..y : v[i] = BytesOf(samples)[i]
  <2> TAKE i \in x..y
  <2>1. i \in ids /\ i \in 1..Len(samples)
    BY <1>1, <1>2
  <2> QED
    BY <2>1, SizeOfSample
<1>5. GetChunkSize(tr, c) = SumOver(v, x, y)
  BY <1>3 DEF GetChunkSize, ids
<1> HIDE DEF v
<1>6. SumOver(v, x, y) = SumOver(BytesOf(samples), x, y)
  BY <1>1, <1>4, SumEqual
<1> QED
  BY <1>5, <1>6 DEF x, y

LEMMA ChunkSizeNat ==
  ASSUME NEW tr, IsTrack(tr), IsStsc(tr.stsc, Len(tr.chunks)), NEW c \in 1..Len(tr.chunks),
         ChunkIsSized(tr, c)
  PROVE  GetChunkSize(tr, c) \in Nat
<1> DEFINE ids == ChunkSamples(tr, c)
           v   == [i \in ids |-> GetSampleSize(tr, i)]
<1>1. PICK f \in Int, p \in Nat \ {0} : ids = f..(f + p - 1)
  BY SamplesOfChunk
<1>2. ids = f..(f + p - 1)
  BY <1>1
<1>3. \A i \in ids : GetSampleSize(tr, i) \in Nat
  <2>1. tr.size \in Nat /\ tr.sizes \in Seq(Nat)
    BY DEF IsTrack
  <2>2. \A i \in DOMAIN tr.sizes : tr.sizes[i] \in Nat
    BY <2>1, ElementOfSeq, LenProperties
  <2> HIDE DEF ids
  <2>3. tr.size = 0 => ids \subseteq DOMAIN tr.sizes
    BY DEF ChunkIsSized, ids
  <2> QED
    BY <2>1, <2>2, <2>3 DEF GetSampleSize
<1>4. GetChunkSize(tr, c) = SumOver(v, Min(ids), Max(ids))
  BY DEF GetChunkSize
<1> HIDE DEF ids
<1> DEFINE y == f + p - 1
<1>5. Min(ids) = f /\ Max(ids) = y /\ y \in Int
  <2>1. f \in ids /\ y \in ids /\ ids \subseteq Int
        /\ (\A j \in ids : f <= j) /\ (\A j \in ids : j <= y) /\ y \in Int
    BY <1>2
  <2> HIDE DEF y
  <2> QED
    BY <2>1, MinIs, MaxIs
<1> HIDE DEF y
<1>6. \A i \in f..y : v[i] \in Nat
  BY <1>2, <1>3 DEF y
<1> HIDE DEF v
<1>7. SumOver(v, f, y) \in Nat
  BY <1>5, <1>6, SumNat
<1> QED
  BY <1>4, <1>5, <1>7

\* The chunks of a track have Stored(tr) samples.
LEMMA StoredSamples ==
  ASSUME NEW tr, IsStsc(tr.stsc, Len(tr.chunks)), DOMAIN tr.chunks = 1..Len(tr.chunks)
  PROVE  /\ SumOver([c \in DOMAIN tr.chunks |-> Cardinality(ChunkSamples(tr, c))],
                    1, Len(tr.chunks)) = Stored(tr)
         /\ Stored(tr) \in Nat
<1> DEFINE n == Len(tr.chunks)
           v == [c \in DOMAIN tr.chunks |-> Cardinality(ChunkSamples(tr, c))]
<1>1. n \in Nat
  BY StscFields
<1>2. \A c \in 1..n : v[c] = PerOf(tr.stsc)[c]
  BY SamplesOfChunk
<1>3. SumOver(v, 1, n) = SumOver(PerOf(tr.stsc), 1, n)
  <2> HIDE DEF n, v
  <2> DEFINE w == PerOf(tr.stsc)
  <2>1. 1 \in Int /\ n \in Int /\ \A c \in 1..n : v[c] = w[c]
    BY <1>1, <1>2
  <2> HIDE DEF w
  <2>2. SumOver(v, 1, n) = SumOver(w, 1, n)
    BY <2>1, SumEqual
  <2> QED
    BY <2>2 DEF w
<1>4. Stored(tr) = SumOver(PerOf(tr.stsc), 1, n) /\ Stored(tr) \in Nat
  <2>1. \A c \in 1..n : PerOf(tr.stsc)[c] \in Nat
    BY FirstTypes
  <2>2. SumOver(PerOf(tr.stsc), 1, n) \in Nat
    <3> DEFINE w == PerOf(tr.stsc)
    <3>1. 1 \in Int /\ n \in Int /\ \A c \in 1..n : w[c] \in Nat
      BY <1>1, <2>1
    <3> HIDE DEF n, w, v
    <3>2. SumOver(w, 1, n) \in Nat
      BY ONLY <3>1, SumNat
    <3> QED
      BY <3>2 DEF w
  <2>3. n + 1 - 1 = n
    BY <1>1
  <2>4. Stored(tr) = (1 + SumOver(PerOf(tr.stsc), 1, n)) - 1
    BY <2>3 DEF Stored, FirstOf
  <2> HIDE DEF n
  <2> QED
    BY <2>2, <2>4
<1> QED
  BY <1>3, <1>4

LEMMA ChunkedFields ==
  ASSUME NEW tr, NEW t, NEW samples \in Seq(Sample), NEW med, Chunked(tr, t, samples, med),
         Len(med) \in Nat, tr.samples \in Nat
  PROVE  /\ Len(tr.chunks) \in Nat /\ DOMAIN tr.chunks = 1..Len(tr.chunks)
         /\ \A c \in 1..Len(tr.chunks) : tr.chunks[c] \in 0..Len(med) /\ tr.chunks[c] \in Nat
         /\ Stored(tr) \in Nat /\ Stored(tr) + tr.samples <= Len(samples)
         /\ Len(tr.buffer) \in Nat
         /\ FirstOf(tr.stsc, Len(tr.chunks) + 1) = Stored(tr) + 1
         /\ \A c \in 1..Len(tr.chunks) :
              /\ FirstOf(tr.stsc, c) \in Nat \ {0} /\ FirstOf(tr.stsc, c + 1) \in Nat
              /\ FirstOf(tr.stsc, c) < FirstOf(tr.stsc, c + 1)
              /\ FirstOf(tr.stsc, c + 1) - 1 <= Stored(tr)
<1> DEFINE n == Len(tr.chunks)
<1>1. n \in Nat /\ DOMAIN tr.chunks = 1..n /\ Len(tr.buffer) \in Nat
  BY LenProperties DEF Chunked
<1>2. \A c \in 1..n : tr.chunks[c] \in 0..Len(med) /\ tr.chunks[c] \in Nat
  BY ElementOfSeq DEF Chunked
<1>3. IsStsc(tr.stsc, n) /\ Stored(tr) + tr.samples <= Len(samples)
  BY DEF Chunked
<1>4. Stored(tr) \in Nat
  BY <1>1, <1>3, StoredSamples
<1>5. FirstOf(tr.stsc, n + 1) = Stored(tr) + 1
  <2>1. FirstOf(tr.stsc, n + 1) \in Nat
    BY <1>1, <1>3, FirstTypes
  <2> HIDE DEF n
  <2> QED
    BY <2>1 DEF Stored, n
<1> HIDE DEF n
<1>6. ASSUME NEW c \in 1..n
      PROVE  /\ FirstOf(tr.stsc, c) \in Nat \ {0} /\ FirstOf(tr.stsc, c + 1) \in Nat
             /\ FirstOf(tr.stsc, c) < FirstOf(tr.stsc, c + 1)
             /\ FirstOf(tr.stsc, c + 1) - 1 <= Stored(tr)
  <2>1. c \in 1..(n + 1) /\ c + 1 \in 1..(n + 1) /\ n + 1 \in 1..(n + 1) /\ c + 1 <= n + 1
    BY <1>1
  <2>2. FirstOf(tr.stsc, c) \in Nat \ {0} /\ FirstOf(tr.stsc, c + 1) \in Nat
    BY <1>3, <2>1, FirstTypes
  <2>3. FirstOf(tr.stsc, c + 1) >= FirstOf(tr.stsc, c) + 1
    <3>1. /\ FirstOf(tr.stsc, c + 1) = FirstOf(tr.stsc, c) + PerOf(tr.stsc)[c]
          /\ PerOf(tr.stsc)[c] \in Nat \ {0}
      BY <1>3, FirstTypes
    <3> QED
      BY <2>2, <3>1
  <2>4. FirstOf(tr.stsc, n + 1) >= FirstOf(tr.stsc, c + 1)
    <3> DEFINE a == c + 1
               b == n + 1
    <3>1. a \in 1..(n + 1) /\ b \in 1..(n + 1) /\ a <= b /\ b - a >= 0 /\ b - a \in Int
      BY <1>1, <2>1
    <3> HIDE DEF a, b
    <3>2. FirstOf(tr.stsc, b) >= FirstOf(tr.stsc, a) + (b - a)
      BY <1>3, <3>1, FirstMonotone
    <3>3. FirstOf(tr.stsc, a) \in Nat /\ FirstOf(tr.stsc, b) \in Nat
      BY <1>3, <3>1, FirstTypes
    <3>4. FirstOf(tr.stsc, b) >= FirstOf(tr.stsc, a)
      BY <3>1, <3>2, <3>3
    <3> QED
      BY <3>4 DEF a, b
  <2> QED
    BY <1>4, <1>5, <2>2, <2>3, <2>4
<1> QED
  BY <1>1, <1>2, <1>3, <1>4, <1>5, <1>6 DEF n

\* n bytes of sample id of track t, from a position on.
LiesAt(med, from, n, t, id) ==
  \A k \in 1..n : from + k <= Len(med) /\ med[from + k] = <<t, id>>

\* The tables lead to the bytes of a sample in a chunk.
LEMMA SampleFound ==
  ASSUME NEW tr, IsTrack(tr), NEW t, NEW samples \in Seq(Sample), Sized(tr, samples),
         NEW med, Len(med) \in Nat, Chunked(tr, t, samples, med),
         FirstsKnown(tr.stsc), Whole(tr, samples), NEW id \in 1..Stored(tr)
  PROVE  /\ GetSampleFileOffset(tr, id) \in Nat /\ id \in 1..Len(samples)
         /\ LiesAt(med, GetSampleFileOffset(tr, id), samples[id].bytes, t, id)
<1>1. tr.samples \in Nat
  BY DEF IsTrack
<1>2. /\ Stored(tr) \in Nat /\ Len(samples) \in Nat /\ Stored(tr) <= Len(samples)
      /\ FirstOf(tr.stsc, Len(tr.chunks) + 1) = Stored(tr) + 1
      /\ \A c \in 1..Len(tr.chunks) :
           /\ tr.chunks[c] \in Nat
           /\ FirstOf(tr.stsc, c) \in Nat \ {0} /\ FirstOf(tr.stsc, c + 1) \in Nat
           /\ FirstOf(tr.stsc, c + 1) - 1 <= Stored(tr)
  <2>1. Len(samples) \in Nat /\ Stored(tr) \in Nat /\ Stored(tr) + tr.samples <= Len(samples)
    BY <1>1, ChunkedFields, LenProperties
  <2>2. Stored(tr) <= Len(samples)
    BY <1>1, <2>1
  <2> QED
    BY <1>1, <2>1, <2>2, ChunkedFields
<1>3. id \in Nat \ {0} /\ id \in 1..Len(samples) /\ id < FirstOf(tr.stsc, Len(tr.chunks) + 1)
  BY <1>2
<1>4. IsStsc(tr.stsc, Len(tr.chunks))
  BY DEF Chunked
<1>5. PICK c \in 1..Len(tr.chunks) : id >= FirstOf(tr.stsc, c) /\ id < FirstOf(tr.stsc, c + 1)
  BY <1>3, <1>4, ChunkOfSample
<1> DEFINE x == FirstOf(tr.stsc, c)
           y == FirstOf(tr.stsc, c + 1) - 1
           b == BytesOf(samples)
           s == SumOver(b, x, id - 1)
<1>6. x \in Nat \ {0} /\ y \in Int /\ x <= id /\ id <= y /\ y <= Len(samples)
  BY <1>2, <1>3, <1>5
<1>7. GetSampleFileOffset(tr, id) = tr.chunks[c] + s
  BY <1>3, <1>4, <1>5, <1>6, OffsetInFile
<1>8. \A i \in 1..Len(samples) : b[i] = samples[i].bytes /\ b[i] \in Nat
  BY BytesTyped
<1>9. Laid(b, t, med, tr.chunks[c], x, y)
  BY DEF Chunked
<1> HIDE DEF x, y, b
<1>10. s \in Nat
  <2>1. \A i \in x..(id - 1) : b[i] \in Nat
    <3> DEFINE l == Len(samples)
    <3>1. l \in Nat /\ id <= l
      BY <1>2, <1>3
    <3> HIDE DEF l
    <3>2. \A i \in x..(id - 1) : i \in 1..l
      BY <1>3, <1>6, <3>1
    <3> QED
      BY <1>8, <3>2 DEF l
  <2>2. x \in Int /\ id - 1 \in Int
    BY <1>3, <1>6
  <2> QED
    BY <2>1, <2>2, SumNat
<1>11. ASSUME NEW k \in 1..samples[id].bytes
       PROVE  tr.chunks[c] + s + k <= Len(med) /\ med[tr.chunks[c] + s + k] = <<t, id>>
  <2>1. id \in x..y /\ k \in 1..b[id]
    BY <1>3, <1>6, <1>8
  <2> QED
    BY <1>9, <2>1 DEF Laid
<1> HIDE DEF s
<1>12. tr.chunks[c] + s \in Nat
  <2> DEFINE p == tr.chunks[c]
  <2>1. p \in Nat
    BY <1>2
  <2> HIDE DEF p
  <2>2. p + s \in Nat
    BY <1>10, <2>1
  <2> QED
    BY <2>2 DEF p
<1>13. LiesAt(med, tr.chunks[c] + s, samples[id].bytes, t, id)
  BY <1>11 DEF LiesAt
<1> QED
  BY <1>3, <1>7, <1>12, <1>13

(***************************************************************************)
(* How the operations keep the chunks.                                     *)
(***************************************************************************)

\* All of med is at the start of other.
Begins(med, other) ==
  /\ Len(med) \in Nat /\ Len(other) \in Nat /\ Len(med) <= Len(other)
  /\ \A p \in 1..Len(med) : other[p] = med[p]

\* The chunks stay when data go after them.
LEMMA LaidBefore ==
  ASSUME NEW tr, IsTrack(tr), NEW t, NEW samples \in Seq(Sample), NEW med,
         Chunked(tr, t, samples, med), NEW other, Begins(med, other), Whole(tr, samples),
         NEW c \in 1..Len(tr.chunks)
  PROVE  Laid(BytesOf(samples), t, other, tr.chunks[c],
              FirstOf(tr.stsc, c), FirstOf(tr.stsc, c + 1) - 1)
<1> DEFINE b == BytesOf(samples)
           x == FirstOf(tr.stsc, c)
           y == FirstOf(tr.stsc, c + 1) - 1
           p == tr.chunks[c]
<1>1. tr.samples \in Nat /\ Len(med) \in Nat
  BY DEF IsTrack, Begins
<1>2. p \in Nat /\ x \in Nat \ {0} /\ y \in Int /\ y <= Len(samples)
  <2>1. Len(samples) \in Nat /\ Stored(tr) \in Nat /\ Stored(tr) + tr.samples <= Len(samples)
    BY <1>1, ChunkedFields, LenProperties
  <2>2. /\ p \in Nat /\ x \in Nat \ {0} /\ FirstOf(tr.stsc, c + 1) \in Nat /\ y <= Stored(tr)
    BY <1>1, ChunkedFields
  <2> HIDE DEF p, x
  <2> QED
    BY <1>1, <2>1, <2>2
<1>3. Laid(b, t, med, p, x, y)
  BY DEF Chunked
<1>4. \A i \in 1..Len(samples) : b[i] \in Nat
  BY BytesTyped
<1>5. Len(samples) \in Nat
  BY BytesTyped
<1> HIDE DEF b, x, y, p
<1>6. \A i \in x..y : b[i] \in Nat
  BY <1>2, <1>4, <1>5
<1>7. \A j \in 1..SumOver(b, x, y) : p + j <= Len(med) =>
        p + j <= Len(other) /\ other[p + j] = med[p + j]
  <2> SUFFICES ASSUME NEW j \in 1..SumOver(b, x, y), p + j <= Len(med)
               PROVE  p + j <= Len(other) /\ other[p + j] = med[p + j]
    OBVIOUS
  <2> DEFINE q == p + j
  <2>1. q \in 1..Len(med)
    BY <1>1, <1>2
  <2> HIDE DEF q
  <2>2. q <= Len(other) /\ other[q] = med[q]
    BY <2>1 DEF Begins
  <2> QED
    BY <2>2 DEF q
<1>8. \A i \in x..y : b[i] = b[i]
  OBVIOUS
<1>9. Laid(b, t, other, p, x, y)
  BY <1>2, <1>3, <1>6, <1>7, <1>8, LaidMoved
<1> QED
  BY <1>9 DEF b, x, y, p

LEMMA ChunksMore ==
  ASSUME NEW chunks, NEW m \in Nat, NEW n \in Nat, m <= n, chunks \in Seq(0..m)
  PROVE  chunks \in Seq(0..n)
<1>1. Len(chunks) \in Nat /\ DOMAIN chunks = 1..Len(chunks)
  BY LenProperties
<1>2. \A c \in 1..Len(chunks) : chunks[c] \in 0..n
  <2> TAKE c \in 1..Len(chunks)
  <2>1. chunks[c] \in 0..m
    BY ElementOfSeq
  <2> QED
    BY <2>1
<1>3. chunks = [c \in 1..Len(chunks) |-> chunks[c]]
  BY <1>1
<1> QED
  BY <1>1, <1>2, <1>3, IsASeq

\* The tables of the chunks and the buffer are left.
LEMMA ChunkKept ==
  ASSUME NEW tr, IsTrack(tr), NEW t, NEW samples \in Seq(Sample), NEW med,
         Chunked(tr, t, samples, med), NEW other, Begins(med, other),
         NEW new, new.stsc = tr.stsc, new.chunks = tr.chunks, new.buffer = tr.buffer,
         new.samples = tr.samples,
         NEW all, BytesOf(all) = BytesOf(samples), Len(all) = Len(samples)
  PROVE  Chunked(new, t, all, other) /\ (Whole(new, all) <=> Whole(tr, samples))
<1>1. Stored(new) = Stored(tr) /\ (Whole(new, all) <=> Whole(tr, samples))
  BY DEF Stored, Whole
<1>2. tr.chunks \in Seq(0..Len(other))
  BY ChunksMore DEF Chunked, Begins
<1>3. Whole(tr, samples) =>
        \A c \in 1..Len(tr.chunks) :
          Laid(BytesOf(samples), t, other, tr.chunks[c],
               FirstOf(tr.stsc, c), FirstOf(tr.stsc, c + 1) - 1)
  BY LaidBefore
<1> QED
  BY <1>1, <1>2, <1>3 DEF Chunked

\* The fields of a track after WriteChunkBuffer.
LEMMA WrittenFields ==
  ASSUME NEW tr, IsTrack(tr), tr.buffer # <<>>, NEW pos
  PROVE  LET new == WriteChunkBuffer(tr, pos)
         IN /\ new.stsc = StscWith(tr.stsc, Len(tr.chunks), tr.samples,
                                   (tr.next - tr.samples + 1) % Span)
            /\ new.chunks = Append(tr.chunks, pos) /\ new.buffer = <<>> /\ new.samples = 0
            /\ new.next = tr.next
<1>1. tr = [tr EXCEPT !.next = tr.next]
  BY DEF IsTrack
<1> QED
  BY <1>1 DEF WriteChunkBuffer, UpdateSampleToChunk, StscWith, IsTrack

\* The buffer is written as the last chunk.
LEMMA ChunkWritten ==
  ASSUME NEW tr, IsTrack(tr), NEW t, NEW samples \in Seq(Sample), NEW med,
         Chunked(tr, t, samples, med), NEW other, Begins(med, other), tr.buffer # <<>>,
         NEW pos \in 0..Len(other),
         \A k \in 1..Len(tr.buffer) : pos + k <= Len(other) /\ other[pos + k] = tr.buffer[k]
  PROVE  LET new == WriteChunkBuffer(tr, pos)
         IN /\ Chunked(new, t, samples, other)
            /\ Stored(new) = Stored(tr) + tr.samples /\ (Whole(new, samples) <=> Whole(tr, samples))
            /\ /\ Whole(tr, samples) /\ FirstsKnown(tr.stsc) /\ tr.next = Len(samples)
               => FirstsKnown(new.stsc)
<1> DEFINE n   == Len(tr.chunks)
           f   == (tr.next - tr.samples + 1) % Span
           old == tr.stsc
           row == StscWith(tr.stsc, n, tr.samples, f)
           new == WriteChunkBuffer(tr, pos)
           b   == BytesOf(samples)
           z   == Len(samples)
           base == Stored(tr)
<1>1. /\ tr.samples \in Nat \ {0} /\ tr.next \in Nat \ {0} /\ Len(med) \in Nat
      /\ n \in Nat /\ base \in Nat /\ z \in Nat /\ base + tr.samples <= z
      /\ FirstOf(old, n + 1) = base + 1 /\ Len(tr.buffer) \in Nat
  <2>1. tr.samples \in Nat /\ tr.samples # 0 /\ tr.next \in Nat \ {0}
    BY DEF IsTrack, Chunked
  <2>2. Len(med) \in Nat /\ z \in Nat
    BY LenProperties DEF Begins
  <2> QED
    BY <2>1, <2>2, ChunkedFields
<1>2. /\ new.stsc = row /\ new.chunks = Append(tr.chunks, pos) /\ new.buffer = <<>>
      /\ new.samples = 0
  BY WrittenFields
<1>3. IsStsc(old, n) /\ f \in 0..(Span - 1)
  <2>1. tr.next - tr.samples + 1 \in Int
    BY <1>1
  <2> QED
    BY <2>1, Mp4Assumption DEF Chunked
<1> HIDE DEF f
<1>4. /\ IsStsc(row, n + 1)
      /\ \A c \in 1..(n + 1) : FirstOf(row, c) = FirstOf(old, c)
      /\ FirstOf(row, n + 2) = FirstOf(old, n + 1) + tr.samples
      /\ FirstsKnown(old) /\ f = FirstOf(old, n + 1) => FirstsKnown(row)
  <2>1. n \in Nat /\ tr.samples \in Nat \ {0}
    BY <1>1
  <2> DEFINE s == tr.samples
  <2>2. row = StscWith(old, n, s, f)
    OBVIOUS
  <2>3. IsStsc(old, n) /\ s \in Nat \ {0} /\ f \in 0..(Span - 1)
    BY <1>3, <2>1
  <2> HIDE DEF n, old, s, row
  <2>4. /\ IsStsc(row, n + 1)
        /\ \A c \in 1..(n + 1) : FirstOf(row, c) = FirstOf(old, c)
        /\ FirstOf(row, n + 2) = FirstOf(old, n + 1) + s
        /\ FirstsKnown(old) /\ f = FirstOf(old, n + 1) => FirstsKnown(row)
    BY <2>2, <2>3, StscAdded
  <2> QED
    BY <2>4 DEF s
<1>5. /\ new.chunks \in Seq(0..Len(other)) /\ Len(new.chunks) = n + 1
      /\ \A c \in 1..n : new.chunks[c] = tr.chunks[c]
      /\ new.chunks[n + 1] = pos
  <2>1. tr.chunks \in Seq(0..Len(other))
    BY ChunksMore DEF Chunked, Begins
  <2> QED
    BY <1>2, <2>1, AppendProperties, LenProperties
<1> HIDE DEF row, new
<1>6. Stored(new) = base + tr.samples
  <2>1. FirstOf(row, n + 2) = (base + 1) + tr.samples /\ n + 1 + 1 = n + 2
    BY <1>1, <1>4
  <2>2. Stored(new) = FirstOf(row, n + 2) - 1
    BY <1>2, <1>5, <2>1 DEF Stored
  <2> DEFINE u == FirstOf(row, n + 2)
             s == tr.samples
             v == Stored(new)
  <2>3. u = (base + 1) + s /\ v = u - 1 /\ base \in Nat /\ s \in Nat
    BY <1>1, <2>1, <2>2
  <2> HIDE DEF n, base, u, s, v
  <2>4. v = base + s
    BY <2>3
  <2> QED
    BY <2>4 DEF v, s
<1>7. Whole(new, samples) <=> Whole(tr, samples)
  BY <1>1, <1>2, <1>6, SMTT(30) DEF Whole
<1>8. ASSUME Whole(tr, samples)
      PROVE  /\ \A c \in 1..(n + 1) :
                  Laid(b, t, other, new.chunks[c], FirstOf(row, c), FirstOf(row, c + 1) - 1)
             /\ Laid(b, t, <<>>, 0, z + 1, z)
             /\ 0 = SumOver(b, z + 1, z)
  <2>1. ASSUME NEW c \in 1..n
        PROVE  Laid(b, t, other, new.chunks[c], FirstOf(row, c), FirstOf(row, c + 1) - 1)
    <3>1. Laid(b, t, other, tr.chunks[c], FirstOf(old, c), FirstOf(old, c + 1) - 1)
      BY <1>8, LaidBefore
    <3>2. c \in 1..(n + 1) /\ c + 1 \in 1..(n + 1)
      BY <1>1
    <3>3. FirstOf(row, c) = FirstOf(old, c) /\ FirstOf(row, c + 1) = FirstOf(old, c + 1)
      BY <1>4, <3>2
    <3> QED
      BY <1>5, <3>1, <3>3
  <2>2. Laid(b, t, other, new.chunks[n + 1], FirstOf(row, n + 1), FirstOf(row, n + 2) - 1)
    <3>1. base + tr.samples = z
      BY <1>8 DEF Whole
    <3>2. FirstOf(row, n + 1) = base + 1 /\ FirstOf(row, n + 2) - 1 = z
      <4>1. n + 1 \in 1..(n + 1)
        BY <1>1
      <4>2. FirstOf(row, n + 1) = base + 1 /\ FirstOf(row, n + 2) = (base + 1) + tr.samples
        BY <1>1, <1>4, <4>1
      <4> DEFINE u == FirstOf(row, n + 2)
                 s == tr.samples
      <4>3. u = (base + 1) + s /\ base + s = z /\ base \in Nat /\ s \in Nat /\ z \in Nat
        BY <1>1, <3>1, <4>2
      <4> HIDE DEF n, base, z, u, s
      <4>4. u - 1 = z
        BY <4>3
      <4> QED
        BY <4>2, <4>4 DEF u
    <3>3. Laid(b, t, tr.buffer, 0, base + 1, z) /\ Len(tr.buffer) = SumOver(b, base + 1, z)
      BY <1>8 DEF Chunked
    <3>4. \A i \in (base + 1)..z : b[i] \in Nat
      BY <1>1, BytesTyped
    <3>5. \A j \in 1..SumOver(b, base + 1, z) : 0 + j <= Len(tr.buffer) =>
            pos + j <= Len(other) /\ other[pos + j] = tr.buffer[0 + j]
      BY <1>1, <3>3
    <3>6. pos \in Nat /\ base + 1 \in Int /\ z \in Int /\ 0 \in Nat
      BY <1>1 DEF Begins
    <3> HIDE DEF base, z, b
    <3>7. Laid(b, t, other, pos, base + 1, z)
      <4>1. \A i \in (base + 1)..z : b[i] = b[i]
        OBVIOUS
      <4> QED
        BY <3>3, <3>4, <3>5, <3>6, <4>1, LaidMoved
    <3> QED
      BY <1>5, <3>2, <3>7
  <2>3. Laid(b, t, <<>>, 0, z + 1, z) /\ SumOver(b, z + 1, z) = 0
    <3>1. z + 1 \in Int /\ z \in Int /\ z < z + 1
      BY <1>1
    <3> HIDE DEF z, b
    <3>2. SumOver(b, z + 1, z) = 0
      BY <3>1, SumEmpty
    <3> QED
      BY <3>1, <3>2 DEF Laid
  <2> HIDE DEF b, z
  <2>4. \A c \in 1..(n + 1) : c \in 1..n \/ c = n + 1
    BY <1>1, SMTT(30)
  <2>5. n + 1 + 1 = n + 2
    BY <1>1
  <2> QED
    BY <2>1, <2>2, <2>3, <2>4, <2>5
<1>9. Chunked(new, t, samples, other)
  <2>1. <<>> \in Seq(Byte) /\ Len(<<>>) = 0
    BY EmptySeq
  <2>2. Stored(new) + new.samples <= Len(samples)
    BY <1>1, <1>2, <1>6
  <2>3. Whole(tr, samples) => Stored(new) + 1 = z + 1
    BY <1>1, <1>6 DEF Whole
  <2> HIDE DEF b, z, base, n
  <2> QED
    BY <1>2, <1>4, <1>5, <1>7, <1>8, <2>1, <2>2, <2>3 DEF Chunked, b, z
<1>10. ASSUME Whole(tr, samples), FirstsKnown(tr.stsc), tr.next = z
       PROVE  FirstsKnown(new.stsc)
  <2>1. tr.next - tr.samples + 1 = base + 1
    BY <1>1, <1>10 DEF Whole
  <2>2. base + 1 \in Nat /\ base + 1 < Span
    BY <1>1, <1>10, Mp4Assumption, SMTT(30) DEF Whole
  <2>3. f = base + 1
    BY <2>1, <2>2, Within DEF f
  <2> QED
    BY <1>1, <1>2, <1>4, <1>10, <2>3
<1> QED
  BY <1>6, <1>7, <1>9, <1>10 DEF new

\* b has the chunks and the buffer of a.
SameChunks(a, b) ==
  b.stsc = a.stsc /\ b.chunks = a.chunks /\ b.buffer = a.buffer /\ b.samples = a.samples

LEMMA UpdatesKeepChunks ==
  ASSUME NEW tr, IsTrack(tr), NEW n, NEW sync, NEW id
  PROVE  /\ SameChunks(tr, UpdateSampleSizes(tr, n))
         /\ SameChunks(tr, UpdateSampleTimes(tr, n))
         /\ SameChunks(tr, UpdateRenderingOffsets(tr, id, n))
         /\ SameChunks(tr, UpdateSyncSamples(tr, id, sync))
<1> DEFINE R == [size : Nat, sizes : Seq(Nat), count : Nat, stts : Seq(Row),
                 hasCtts : BOOLEAN, ctts : Seq(Row), hasStss : BOOLEAN, stss : Seq(Nat \ {0}),
                 stsc : {tr.stsc}, chunks : {tr.chunks}, duration : Nat,
                 next : Nat \ {0}, buffer : {tr.buffer}, samples : Nat, elapsed : Nat,
                 fixedDuration : Nat, sttsCache : {tr.sttsCache}, cttsCache : {tr.cttsCache}]
<1>1. tr \in R
  BY DEF IsTrack
<1>2. SameChunks(tr, tr)
  BY DEF SameChunks
<1>3. ASSUME NEW x, NEW y, NEW z
      PROVE  SameChunks(tr, [tr EXCEPT !.size = x, !.sizes = y, !.count = z])
  BY <1>1 DEF SameChunks
<1>4. ASSUME NEW x
      PROVE  SameChunks(tr, [tr EXCEPT !.stts = x])
  BY <1>1 DEF SameChunks
<1>5. ASSUME NEW x, NEW y
      PROVE  SameChunks(tr, [tr EXCEPT !.hasCtts = x, !.ctts = y])
  BY <1>1 DEF SameChunks
<1>6. ASSUME NEW x, NEW y
      PROVE  SameChunks(tr, [tr EXCEPT !.hasStss = x, !.stss = y])
  BY <1>1 DEF SameChunks
<1>7. ASSUME NEW y
      PROVE  SameChunks(tr, [tr EXCEPT !.stss = y])
  BY <1>1 DEF SameChunks
<1>8. SameChunks(tr, UpdateSampleSizes(tr, n))
  BY <1>3, Zenon DEF UpdateSampleSizes
<1>9. SameChunks(tr, UpdateSampleTimes(tr, n))
  BY <1>4, Zenon DEF UpdateSampleTimes
<1>10. SameChunks(tr, UpdateRenderingOffsets(tr, id, n))
  BY <1>2, <1>5, Zenon DEF UpdateRenderingOffsets
<1>11. SameChunks(tr, UpdateSyncSamples(tr, id, sync))
  BY <1>2, <1>6, <1>7, Zenon DEF UpdateSyncSamples
<1> QED
  BY <1>8, <1>9, <1>10, <1>11

\* b has the chunks of a, and a sample with these bytes more in the buffer.
Buffered(a, b, bytes) ==
  /\ b.stsc = a.stsc /\ b.chunks = a.chunks
  /\ b.buffer = a.buffer \o bytes /\ b.samples = a.samples + 1

\* The bytes of sample id of track t.
BytesAre(bytes, t, id) == bytes \in Seq(Byte) /\ \A k \in 1..Len(bytes) : bytes[k] = <<t, id>>

\* The bytes of the sample are at the end of the buffer.
LEMMA TakenFields ==
  ASSUME NEW tr, IsTrack(tr), NEW samples \in Seq(Sample), NEW stray \in BOOLEAN,
         Recorded(tr, samples, stray), NEW e \in Sample, NEW bytes, Len(bytes) = e.bytes
  PROVE  Buffered(tr, Taken(tr, bytes, e.duration, e.offset, e.sync), bytes)
<1> DEFINE buffered == [tr EXCEPT !.buffer = @ \o bytes, !.samples = @ + 1, !.elapsed = @ + e.duration]
           sized    == UpdateSampleSizes(buffered, Len(bytes))
           timed    == UpdateSampleTimes(sized, e.duration)
           shifted  == UpdateRenderingOffsets(timed, tr.next, e.offset)
           taken    == UpdateSyncSamples(shifted, tr.next, e.sync)
<1>1. /\ e.bytes \in Nat /\ e.duration \in Nat /\ e.offset \in Nat /\ e.sync \in BOOLEAN
  BY AddedSample
<1>2. /\ tr.next \in Nat \ {0} /\ tr.samples \in Nat /\ tr.elapsed \in Nat
  BY DEF IsTrack
<1>3. /\ IsTrack(buffered) /\ Sized(buffered, samples) /\ Timed(buffered, samples)
      /\ buffered.stsc = tr.stsc /\ buffered.chunks = tr.chunks
      /\ buffered.buffer = tr.buffer \o bytes /\ buffered.samples = tr.samples + 1
  <2>2. tr.samples + 1 \in Nat /\ tr.elapsed + e.duration \in Nat
    BY <1>1, <1>2
  <2>3. buffered = [tr EXCEPT !.buffer = tr.buffer \o bytes, !.samples = tr.samples + 1,
                              !.elapsed = tr.elapsed + e.duration]
    OBVIOUS
  <2> DEFINE x == tr.buffer \o bytes
             y == tr.samples + 1
             z == tr.elapsed + e.duration
             b == [tr EXCEPT !.buffer = x, !.samples = y, !.elapsed = z]
  <2>4. /\ Same(tr, buffered) /\ buffered.stsc = tr.stsc /\ buffered.chunks = tr.chunks
        /\ buffered.buffer = tr.buffer \o bytes /\ buffered.samples = tr.samples + 1
    <3>1. buffered = b /\ y \in Nat /\ z \in Nat
      BY <2>2, <2>3
    <3> HIDE DEF x, y, z, buffered
    <3>2. /\ Same(tr, b) /\ b.stsc = tr.stsc /\ b.chunks = tr.chunks /\ b.buffer = x /\ b.samples = y
      BY <3>1 DEF IsTrack, Same
    <3> HIDE DEF b
    <3> QED
      BY <3>1, <3>2 DEF x, y
  <2> HIDE DEF buffered
  <2>5. Recorded(buffered, samples, stray)
    BY <2>3, <2>4, SameRecorded
  <2> QED
    BY <2>3, <2>4, <2>5 DEF Same, Recorded
<1> HIDE DEF buffered
<1>4. SameChunks(buffered, sized) /\ IsTrack(sized) /\ sized.stts = buffered.stts
  <2>1. Len(bytes) = e.bytes
    OBVIOUS
  <2> DEFINE s == UpdateSampleSizes(buffered, e.bytes)
  <2>2. IsTrack(s) /\ s.stts = buffered.stts
    BY <1>3, UpdateSampleSizesSized
  <2> QED
    BY <1>3, <2>1, <2>2, UpdatesKeepChunks
<1> HIDE DEF sized
<1>5. SameChunks(sized, timed) /\ IsTrack(timed)
  <2>1. Timed(sized, samples)
    BY <1>3, <1>4 DEF Timed
  <2> QED
    BY <1>4, <2>1, UpdateSampleTimesTimed, UpdatesKeepChunks
<1> HIDE DEF timed
<1>6. SameChunks(timed, shifted) /\ IsTrack(shifted)
  BY <1>1, <1>2, <1>5, OffsetOthers, UpdatesKeepChunks
<1> HIDE DEF shifted
<1>7. SameChunks(shifted, taken)
  BY <1>6, UpdatesKeepChunks
<1>8. Taken(tr, bytes, e.duration, e.offset, e.sync) = taken
  BY DEF Taken, taken, shifted, timed, sized, buffered
<1> HIDE DEF taken
<1> QED
  BY <1>3, <1>4, <1>5, <1>6, <1>7, <1>8 DEF SameChunks, Buffered

\* A sample more, in the buffer.
LEMMA ChunkTaken ==
  ASSUME NEW tr, IsTrack(tr), NEW t, NEW samples \in Seq(Sample), NEW med,
         Chunked(tr, t, samples, med), Len(med) \in Nat, NEW e \in Sample, NEW bytes,
         Len(bytes) = e.bytes, BytesAre(bytes, t, Len(samples) + 1),
         NEW new, Buffered(tr, new, bytes)
  PROVE  LET all == Append(samples, e)
         IN Chunked(new, t, all, med) /\ (Whole(new, all) => Whole(tr, samples))
<1> DEFINE all  == Append(samples, e)
           b    == BytesOf(samples)
           w    == BytesOf(all)
           z    == Len(samples)
           base == Stored(tr)
<1>1. /\ all \in Seq(Sample) /\ Len(all) = z + 1 /\ z \in Nat
      /\ \A i \in 1..z : all[i] = samples[i]
      /\ all[z + 1] = e /\ e.bytes \in Nat
  BY AddedSample
<1>2. /\ tr.samples \in Nat /\ base \in Nat /\ base + tr.samples <= z
      /\ Len(tr.chunks) \in Nat
      /\ \A c \in 1..Len(tr.chunks) :
           /\ tr.chunks[c] \in Nat
           /\ FirstOf(tr.stsc, c) \in Nat \ {0} /\ FirstOf(tr.stsc, c + 1) \in Nat
           /\ FirstOf(tr.stsc, c + 1) - 1 <= base
  <2>1. tr.samples \in Nat
    BY DEF IsTrack
  <2> QED
    BY <2>1, ChunkedFields
<1> HIDE DEF all
<1>3. /\ \A i \in 1..z : w[i] = b[i] /\ b[i] \in Nat
      /\ w[z + 1] = e.bytes
      /\ \A i \in 1..(z + 1) : w[i] \in Nat
  <2>1. \A i \in 1..(z + 1) : w[i] = all[i].bytes /\ w[i] \in Nat
    BY <1>1, BytesTyped
  <2>2. \A i \in 1..z : b[i] = samples[i].bytes /\ b[i] \in Nat
    BY BytesTyped
  <2> HIDE DEF w, b, z
  <2>3. \A i \in 1..z : i \in 1..(z + 1)
    BY <1>1
  <2>4. z + 1 \in 1..(z + 1)
    BY <1>1
  <2> QED
    BY <1>1, <2>1, <2>2, <2>3, <2>4
<1>4. Stored(new) = base
  BY DEF Stored, Buffered
<1>5. Whole(new, all) => Whole(tr, samples)
  <2>1. Whole(new, all) => base + (tr.samples + 1) = z + 1 /\ z + 1 < Span
    BY <1>1, <1>4 DEF Whole, Buffered
  <2>2. Whole(tr, samples) <=> base + tr.samples = z /\ z < Span
    BY DEF Whole
  <2> DEFINE s == tr.samples
  <2>3. base \in Nat /\ z \in Nat /\ s \in Nat /\ Span \in Nat
    BY <1>1, <1>2, Mp4Assumption
  <2> HIDE DEF base, z, s
  <2>4. base + (s + 1) = z + 1 /\ z + 1 < Span => base + s = z /\ z < Span
    BY <2>3
  <2> QED
    BY <2>1, <2>2, <2>4 DEF s
<1>6. ASSUME Whole(tr, samples), NEW c \in 1..Len(tr.chunks)
      PROVE  Laid(w, t, med, tr.chunks[c], FirstOf(tr.stsc, c), FirstOf(tr.stsc, c + 1) - 1)
  <2> DEFINE x == FirstOf(tr.stsc, c)
             y == FirstOf(tr.stsc, c + 1) - 1
             p == tr.chunks[c]
  <2>1. Laid(b, t, med, p, x, y)
    BY <1>6 DEF Chunked
  <2>2. p \in Nat /\ x \in Nat \ {0} /\ y \in Int /\ y <= z
    <3>1. FirstOf(tr.stsc, c + 1) \in Nat /\ y <= base /\ base <= z /\ p \in Nat /\ x \in Nat \ {0}
      BY <1>1, <1>2
    <3>2. y \in Int /\ base \in Int /\ z \in Int
      BY <1>1, <1>2, <3>1
    <3> HIDE DEF x, y, p, base, z
    <3> QED
      BY <3>1, <3>2
  <2> HIDE DEF x, y, p, w, b, z
  <2>3. \A i \in x..y : w[i] = b[i] /\ b[i] \in Nat
    <3> TAKE i \in x..y
    <3>1. i \in 1..z
      BY <1>1, <2>2
    <3> QED
      BY <1>3, <3>1
  <2>4. \A j \in 1..SumOver(b, x, y) : p + j <= Len(med) =>
          p + j <= Len(med) /\ med[p + j] = med[p + j]
    OBVIOUS
  <2>5. Laid(w, t, med, p, x, y)
    <3>1. p \in Nat /\ x \in Int /\ y \in Int
      BY <2>2
    <3> QED
      BY <2>1, <2>3, <2>4, <3>1, LaidMoved
  <2> QED
    BY <2>5 DEF x, y, p
<1>7. ASSUME Whole(tr, samples)
      PROVE  /\ Laid(w, t, tr.buffer \o bytes, 0, base + 1, z + 1)
             /\ Len(tr.buffer \o bytes) = SumOver(w, base + 1, z + 1)
  <2>1. Laid(b, t, tr.buffer, 0, base + 1, z) /\ Len(tr.buffer) = SumOver(b, base + 1, z)
    BY <1>7 DEF Chunked
  <2>2. tr.buffer \in Seq(Byte)
    BY DEF Chunked
  <2>3. base + 1 \in Int /\ base + 1 <= z + 1 /\ z \in Int
    <3> HIDE DEF base, z
    <3> QED
      BY <1>1, <1>2
  <2> DEFINE a == base + 1
  <2>4. \A i \in a..(z + 1) : w[i] \in Nat
    <3>1. a >= 1 /\ a \in Int
      <4> HIDE DEF base
      <4> QED
        BY <1>2
    <3> HIDE DEF w, a, z
    <3> QED
      BY <1>1, <1>3, <3>1
  <2>5. \A i \in a..z : w[i] = b[i] /\ b[i] \in Nat
    <3>1. a >= 1 /\ a \in Int
      <4> HIDE DEF base
      <4> QED
        BY <1>2
    <3> HIDE DEF w, b, a, z
    <3> QED
      BY <1>1, <1>3, <3>1
  <2>6. bytes \in Seq(Byte) /\ Len(bytes) = w[z + 1] /\ \A k \in 1..Len(bytes) : bytes[k] = <<t, z + 1>>
    BY <1>3 DEF BytesAre
  <2> HIDE DEF w, b, a, z
  <2>7. SumOver(w, a, z) = SumOver(b, a, z)
    <3>1. a \in Int /\ z \in Int
      BY <2>3 DEF a
    <3> QED
      BY <2>5, <3>1, SumEqual
  <2>8. Laid(w, t, tr.buffer, 0, a, z)
    <3>1. \A j \in 1..SumOver(b, a, z) : 0 + j <= Len(tr.buffer) =>
            0 + j <= Len(tr.buffer) /\ tr.buffer[0 + j] = tr.buffer[0 + j]
      OBVIOUS
    <3>2. a \in Int /\ z \in Int /\ 0 \in Nat
      BY <2>3 DEF a
    <3>3. Laid(b, t, tr.buffer, 0, a, z)
      BY <2>1 DEF a
    <3> QED
      BY <2>5, <3>1, <3>2, <3>3, LaidMoved
  <2>9. a \in Int /\ z \in Int /\ a <= z + 1 /\ Len(tr.buffer) = SumOver(w, a, z)
    BY <2>1, <2>3, <2>7 DEF a
  <2>10. Laid(w, t, tr.buffer \o bytes, 0, a, z + 1) /\ Len(tr.buffer \o bytes) = SumOver(w, a, z + 1)
    <3> DEFINE S      == Byte
               buffer == tr.buffer
               whole  == buffer \o bytes
    <3>1. buffer \in Seq(S) /\ bytes \in Seq(S) /\ Laid(w, t, buffer, 0, a, z)
          /\ Len(buffer) = SumOver(w, a, z)
      BY <2>2, <2>6, <2>8, <2>9
    <3> HIDE DEF S, buffer
    <3>2. /\ Len(buffer) \in Nat /\ Len(whole) = Len(buffer) + Len(bytes)
          /\ \A k \in 1..Len(buffer) : whole[k] = buffer[k]
          /\ \A k \in 1..Len(bytes) : whole[Len(buffer) + k] = bytes[k]
      <4>1. Len(buffer) \in Nat /\ Len(whole) = Len(buffer) + Len(bytes)
        BY <3>1, Joined
      <4>2. \A k \in 1..Len(buffer) : whole[k] = buffer[k]
        BY <3>1, Joined
      <4>3. ASSUME NEW k \in 1..Len(bytes)
            PROVE  whole[Len(buffer) + k] = bytes[k]
        BY <3>1, Joined, SMTT(30)
      <4> QED
        BY <4>1, <4>2, <4>3
    <3> HIDE DEF whole
    <3>3. /\ Len(whole) = Len(buffer) + w[z + 1]
          /\ \A k \in 1..w[z + 1] : whole[Len(buffer) + k] = <<t, z + 1>>
      BY <2>6, <3>2
    <3>5. a \in Int /\ z \in Int /\ a <= z + 1
      BY <2>9
    <3>6. Laid(w, t, buffer, 0, a, z) /\ Len(buffer) = SumOver(w, a, z) /\ Len(buffer) \in Nat
      BY <3>1, <3>2
    <3>7. \A k \in 1..Len(buffer) : whole[k] = buffer[k]
      BY <3>2
    <3>4. Laid(w, t, whole, 0, a, z + 1)
      BY <2>4, <3>3, <3>5, <3>6, <3>7, LaidMore
    <3>8. Len(whole) = SumOver(w, a, z + 1)
      <4>1. SumOver(w, a, z + 1) = SumOver(w, a, z) + w[z + 1]
        <5>1. z + 1 \in Int /\ ~ (z + 1 < a) /\ z + 1 - 1 = z
          BY <3>5
        <5> QED
          BY <3>5, <5>1, SumStep
      <4> QED
        BY <3>3, <3>6, <4>1
    <3> QED
      BY <3>4, <3>8 DEF whole, buffer
  <2> QED
    BY <2>10 DEF a
<1>8. tr.buffer \o bytes \in Seq(Byte)
  BY ConcatProperties DEF Chunked, BytesAre
<1>9. Stored(new) + new.samples <= Len(all) /\ new.samples # 0
  <2>1. base + (tr.samples + 1) <= z + 1 /\ tr.samples + 1 # 0
    <3> HIDE DEF base, z
    <3> QED
      BY <1>1, <1>2
  <2> QED
    BY <1>1, <1>4, <2>1 DEF Buffered
<1> HIDE DEF w, z, base
<1>10. Chunked(new, t, all, med)
  <2>1. IsStsc(new.stsc, Len(new.chunks)) /\ new.chunks \in Seq(0..Len(med))
    BY DEF Chunked, Buffered
  <2>2. new.buffer \in Seq(Byte) /\ (new.samples = 0 => new.buffer = <<>>)
    BY <1>8, <1>9 DEF Buffered
  <2>3. Whole(new, all) =>
          /\ \A c \in 1..Len(new.chunks) :
               Laid(BytesOf(all), t, med, new.chunks[c],
                    FirstOf(new.stsc, c), FirstOf(new.stsc, c + 1) - 1)
          /\ Laid(BytesOf(all), t, new.buffer, 0, Stored(new) + 1, Len(all))
          /\ Len(new.buffer) = SumOver(BytesOf(all), Stored(new) + 1, Len(all))
    BY <1>1, <1>4, <1>5, <1>6, <1>7 DEF w, Buffered
  <2> QED
    BY <1>9, <2>1, <2>2, <2>3 DEF Chunked
<1> QED
  BY <1>5, <1>10 DEF all

(***************************************************************************)
(* A track that is read from the file.                                     *)
(***************************************************************************)

\* The fields of a track that is read from the file.
LEMMA LoadedFields ==
  ASSUME NEW tr, IsTrack(tr)
  PROVE  LET new == Loaded(tr)
         IN /\ new.stsc = ReadStsc(tr.stsc) /\ new.chunks = tr.chunks /\ new.buffer = <<>>
            /\ new.samples = 0
<1> DEFINE a == Fresh(tr, 0)
<1>1. a.stsc = tr.stsc /\ a.chunks = tr.chunks /\ a.buffer = <<>> /\ a.samples = 0
  BY DEF Fresh, IsTrack
<1>2. IsTrack(a)
  BY FreshSame DEF Same
<1>3. Loaded(tr) = [a EXCEPT !.stsc = ReadStsc(a.stsc)]
  BY DEF Loaded
<1> HIDE DEF a
<1>4. \A x : LET b == [a EXCEPT !.stsc = x]
             IN b.stsc = x /\ b.chunks = a.chunks /\ b.buffer = a.buffer /\ b.samples = a.samples
  BY <1>2 DEF IsTrack
<1> QED
  BY <1>1, <1>3, <1>4

\* A track whose buffer is written is read with the chunks it has, and its rows
\* learn their first samples.
LEMMA ChunkLoaded ==
  ASSUME NEW tr, IsTrack(tr), NEW t, NEW samples \in Seq(Sample), NEW med,
         Chunked(tr, t, samples, med), Len(med) \in Nat, tr.buffer = <<>>
  PROVE  LET new == Loaded(tr)
         IN /\ Chunked(new, t, samples, med) /\ new.samples = 0 /\ new.chunks = tr.chunks
            /\ Stored(new) = Stored(tr)
            /\ \A c \in 1..Len(tr.chunks) : FirstOf(new.stsc, c) = FirstOf(tr.stsc, c)
            /\ Len(samples) < Span => FirstsKnown(new.stsc)
<1> DEFINE new == Loaded(tr)
           n   == Len(tr.chunks)
<1>1. /\ new.stsc = ReadStsc(tr.stsc) /\ new.chunks = tr.chunks /\ new.buffer = <<>>
      /\ new.samples = 0
  BY LoadedFields
<1> HIDE DEF new
<1>2. /\ n \in Nat /\ Stored(tr) \in Nat /\ tr.samples \in Nat /\ Len(samples) \in Nat
      /\ Stored(tr) + tr.samples <= Len(samples)
      /\ FirstOf(tr.stsc, n + 1) = Stored(tr) + 1
  <2>1. tr.samples \in Nat
    BY DEF IsTrack
  <2> QED
    BY <2>1, ChunkedFields, LenProperties
<1>3. /\ IsStsc(new.stsc, n)
      /\ \A c \in 1..(n + 1) : FirstOf(new.stsc, c) = FirstOf(tr.stsc, c)
      /\ FirstOf(tr.stsc, n + 1) - 1 < Span => FirstsKnown(new.stsc)
  <2>1. IsStsc(tr.stsc, n)
    BY DEF Chunked
  <2> HIDE DEF n
  <2> QED
    BY <1>1, <2>1, StscRead
<1>4. Stored(new) = Stored(tr)
  <2>1. n + 1 \in 1..(n + 1)
    BY <1>2
  <2> QED
    BY <1>1, <1>3, <2>1 DEF Stored
<1>5. \A c \in 1..n : /\ FirstOf(new.stsc, c) = FirstOf(tr.stsc, c)
                      /\ FirstOf(new.stsc, c + 1) = FirstOf(tr.stsc, c + 1)
  <2>1. \A c \in 1..n : c \in 1..(n + 1) /\ c + 1 \in 1..(n + 1)
    BY <1>2
  <2> QED
    BY <1>3, <2>1
<1>6. Len(samples) < Span => FirstsKnown(new.stsc)
  <2>1. Len(samples) < Span => FirstOf(tr.stsc, n + 1) - 1 < Span
    <3> DEFINE base == Stored(tr)
               z    == Len(samples)
               s    == tr.samples
    <3>1. base \in Nat /\ z \in Nat /\ s \in Nat /\ base + s <= z /\ Span \in Nat
      BY <1>2, Mp4Assumption
    <3> HIDE DEF base, z, s
    <3>2. z < Span => (base + 1) - 1 < Span
      BY <3>1
    <3> QED
      BY <1>2, <3>2 DEF base, z
  <2> QED
    BY <1>3, <2>1
<1>7. Whole(new, samples) => Whole(tr, samples) /\ tr.samples = 0
  <2> DEFINE base == Stored(tr)
             z    == Len(samples)
             s    == tr.samples
  <2>1. base \in Nat /\ z \in Nat /\ s \in Nat /\ base + s <= z
    BY <1>2
  <2>2. Whole(new, samples) => base + 0 = z /\ z < Span
    BY <1>1, <1>4 DEF Whole
  <2>3. base + s = z /\ z < Span => Whole(tr, samples)
    BY DEF Whole
  <2> HIDE DEF base, z, s
  <2>4. base + 0 = z => s = 0 /\ base + s = z
    BY <2>1
  <2> QED
    BY <2>2, <2>3, <2>4 DEF s
<1>8. Chunked(new, t, samples, med)
  <2>1. Stored(new) + new.samples <= Len(samples)
    <3> DEFINE base == Stored(tr)
               z    == Len(samples)
               s    == tr.samples
    <3>1. base \in Nat /\ z \in Nat /\ s \in Nat /\ base + s <= z
      BY <1>2
    <3> HIDE DEF base, z, s
    <3>2. base + 0 <= z
      BY <3>1
    <3> QED
      BY <1>1, <1>4, <3>2 DEF base, z
  <2>2. Whole(new, samples) =>
          \A c \in 1..n : Laid(BytesOf(samples), t, med, new.chunks[c],
                               FirstOf(new.stsc, c), FirstOf(new.stsc, c + 1) - 1)
    BY <1>1, <1>5, <1>7 DEF Chunked
  <2> QED
    BY <1>1, <1>3, <1>4, <1>7, <2>1, <2>2 DEF Chunked
<1> QED
  BY <1>1, <1>4, <1>5, <1>6, <1>8 DEF new, n

(***************************************************************************)
(* The sequences of FlattenSeq.                                            *)
(***************************************************************************)

\* s is the function of FlattenSeq on the first k sequences.
FlattensUpto(s, f, k) == s = [i \in 1..k |-> IF i = 1 THEN f[i] ELSE s[i - 1] \o f[i]]

LEMMA FlattensExist ==
  ASSUME NEW f
  PROVE  \A k \in Nat : \E s : FlattensUpto(s, f, k)
<1> DEFINE S == {k \in Nat : \E s : FlattensUpto(s, f, k)}
<1>1. 0 \in S
  <2> DEFINE s == [i \in 1..0 |-> 0]
  <2>1. FlattensUpto(s, f, 0)
    BY DEF FlattensUpto
  <2> QED
    BY <2>1
<1>2. ASSUME NEW k \in Nat, k \in S
      PROVE  k + 1 \in S
  <2>1. PICK s : FlattensUpto(s, f, k)
    BY <1>2
  <2> DEFINE r == [i \in 1..(k + 1) |-> IF i = 1 THEN f[i] ELSE s[i - 1] \o f[i]]
  <2>2. \A i \in 1..k : s[i] = IF i = 1 THEN f[i] ELSE s[i - 1] \o f[i]
    <3> DEFINE T      == 1..k
               val(i) == IF i = 1 THEN f[i] ELSE s[i - 1] \o f[i]
    <3>1. s = [i \in T |-> val(i)]
      BY <2>1 DEF FlattensUpto
    <3> HIDE DEF T, val
    <3>2. \A i \in T : s[i] = val(i)
      BY <3>1
    <3> QED
      BY <3>2 DEF T, val
  <2>3. \A i \in 1..k : i \in 1..(k + 1) /\ r[i] = s[i]
    BY <2>2
  <2>4. \A i \in 1..(k + 1) : i # 1 => i - 1 \in 1..k
    OBVIOUS
  <2>5. \A i \in 1..(k + 1) : r[i] = IF i = 1 THEN f[i] ELSE s[i - 1] \o f[i]
    OBVIOUS
  <2>6. r = [i \in 1..(k + 1) |-> r[i]]
    OBVIOUS
  <2> HIDE DEF r
  <2>7. \A i \in 1..(k + 1) : r[i] = IF i = 1 THEN f[i] ELSE r[i - 1] \o f[i]
    BY <2>3, <2>4, <2>5
  <2>8. FlattensUpto(r, f, k + 1)
    BY <2>6, <2>7 DEF FlattensUpto
  <2> QED
    BY <2>8
<1> HIDE DEF S
<1>3. \A k \in Nat : k \in S
  BY <1>1, <1>2, SetInduction
<1> QED
  BY <1>3 DEF S

\* n sequences over S, and their lengths.
SequencesOf(f, n, S, lens) == f \in [1..n -> Seq(S)] /\ \A i \in 1..n : lens[i] = Len(f[i])

\* all has part behind its first pos elements.
HasAt(all, pos, part) == \A k \in 1..Len(part) : all[pos + k] = part[k]

\* The sequences lie one after the other.
LEMMA Flattened ==
  ASSUME NEW S, NEW n \in Nat \ {0}, NEW f, NEW lens, SequencesOf(f, n, S, lens)
  PROVE  LET all == FlattenSeq(f)
         IN /\ all \in Seq(S) /\ Len(all) = SumOver(lens, 1, n)
            /\ \A i \in 1..n : HasAt(all, SumOver(lens, 1, i - 1), f[i])
<1> DEFINE F(s)  == [i \in 1..n |-> IF i = 1 THEN f[i] ELSE s[i - 1] \o f[i]]
           s     == CHOOSE s : s = F(s)
           at(i) == SumOver(lens, 1, i)
           Good(i) == /\ s[i] \in Seq(S) /\ Len(s[i]) = at(i)
                      /\ \A j \in 1..i : \A k \in 1..Len(f[j]) : s[i][at(j - 1) + k] = f[j][k]
<1>1. Len(f) = n
  <2>1. DOMAIN f = 1..n /\ n \in Nat
    BY DEF SequencesOf
  <2> QED
    BY <2>1
<1>2. FlattenSeq(f) = s[n]
  BY <1>1 DEF FlattenSeq
<1>3. s = F(s)
  <2>1. \E r : r = F(r)
    BY FlattensExist DEF FlattensUpto
  <2> HIDE DEF F
  <2> QED
    BY <2>1
<1> HIDE DEF s
<1>4. \A i \in 1..n : /\ f[i] \in Seq(S) /\ Len(f[i]) \in Nat /\ lens[i] = Len(f[i])
                      /\ s[i] = IF i = 1 THEN f[i] ELSE s[i - 1] \o f[i]
  BY <1>3, LenProperties DEF SequencesOf
<1>5. at(0) = 0 /\ \A i \in 1..n : at(i) = at(i - 1) + lens[i] /\ at(i - 1) \in Nat
  <2>1. at(0) = 0
    BY SumEmpty
  <2>2. ASSUME NEW i \in 1..n
        PROVE  at(i) = at(i - 1) + lens[i] /\ at(i - 1) \in Nat
    <3>1. i \in Int /\ ~ (i < 1) /\ i - 1 \in Int
      OBVIOUS
    <3>2. \A j \in 1..(i - 1) : lens[j] \in Nat
      BY <1>4
    <3> QED
      BY <3>1, <3>2, SumStep, SumNat
  <2> QED
    BY <2>1, <2>2
<1> HIDE DEF at
<1>6. Good(1)
  <2>1. 1 \in 1..n /\ 1 - 1 = 0
    OBVIOUS
  <2>2. s[1] = f[1] /\ f[1] \in Seq(S) /\ at(1) = Len(f[1]) /\ Len(f[1]) \in Nat
    <3>1. s[1] = f[1] /\ f[1] \in Seq(S) /\ lens[1] = Len(f[1]) /\ Len(f[1]) \in Nat
      BY <1>4, <2>1
    <3>2. at(1) = at(0) + lens[1] /\ at(0) = 0
      BY <1>5, <2>1
    <3> QED
      BY <3>1, <3>2
  <2>3. \A j \in 1..1 : \A k \in 1..Len(f[j]) : s[1][at(j - 1) + k] = f[j][k]
    BY <1>5, <2>1, <2>2
  <2> QED
    BY <2>2, <2>3
<1>7. ASSUME NEW i \in 2..n, Good(i - 1)
      PROVE  Good(i)
  <2>1. i \in 1..n /\ i - 1 \in 1..n /\ i # 1 /\ i \in Int
    OBVIOUS
  <2> DEFINE a == s[i - 1]
             b == f[i]
             c == s[i]
  <2>2. c = a \o b /\ a \in Seq(S) /\ b \in Seq(S) /\ Len(a) = at(i - 1) /\ Len(b) = lens[i]
    BY <1>4, <1>7, <2>1
  <2>3. at(i) = at(i - 1) + lens[i]
    BY <1>5, <2>1
  <2> HIDE DEF a, b, c
  <2>4. /\ c \in Seq(S) /\ Len(c) = Len(a) + Len(b)
    BY <2>2, Joined
  <2>5. \A k \in 1..Len(a) : c[k] = a[k]
    BY <2>2, Joined
  <2>6. ASSUME NEW k \in 1..Len(b)
        PROVE  c[Len(a) + k] = b[k]
    <3>1. a \in Seq(S) /\ b \in Seq(S)
      BY <2>2
    <3>2. (a \o b)[Len(a) + k] = b[k]
      BY <3>1, Joined
    <3> QED
      BY <2>2, <3>2
  <2>7. ASSUME NEW j \in 1..i, NEW k \in 1..Len(f[j])
        PROVE  c[at(j - 1) + k] = f[j][k]
    <3>1. CASE j = i
      BY <2>2, <2>6, <3>1 DEF b
    <3>2. CASE j # i
      <4>1. j \in 1..(i - 1) /\ j \in 1..n
        BY <2>1, <3>2
      <4>2. a[at(j - 1) + k] = f[j][k]
        BY <1>7, <4>1 DEF a
      <4>3. at(j - 1) + k \in 1..Len(a)
        <5>1. at(j) <= at(i - 1)
          <6>1. i - 1 \in Int /\ j \in Int /\ j <= i - 1 /\ \A m \in 1..(i - 1) : lens[m] \in Nat
            BY <1>4, <2>1, <4>1
          <6> DEFINE h == i - 1
          <6>2. h \in Int /\ j \in Int /\ j <= h /\ \A m \in 1..h : lens[m] \in Nat
            BY <6>1
          <6> HIDE DEF h
          <6>3. at(j) <= at(h)
            BY <6>2, SumPart DEF at
          <6> QED
            BY <6>3 DEF h
        <5>2. at(j) = at(j - 1) + lens[j] /\ at(j - 1) \in Nat /\ lens[j] = Len(f[j]) /\ Len(f[j]) \in Nat
          BY <1>4, <1>5, <4>1
        <5>3. Len(a) = at(i - 1) /\ at(i - 1) \in Nat
          BY <1>5, <2>1, <2>2
        <5> QED
          BY <5>1, <5>2, <5>3
      <4> QED
        BY <2>5, <4>2, <4>3
    <3> QED
      BY <3>1, <3>2
  <2> QED
    BY <2>2, <2>3, <2>4, <2>7 DEF c
<1> DEFINE T == {k \in Nat : k + 1 <= n => Good(k + 1)}
<1>8. \A k \in Nat : k \in T
  <2>1. 0 \in T
    BY <1>6
  <2>2. ASSUME NEW k \in Nat, k \in T
        PROVE  k + 1 \in T
    <3> DEFINE i == k + 2
    <3>1. i - 1 = k + 1 /\ k + 1 + 1 = i /\ i \in Nat
      OBVIOUS
    <3>2. i <= n => i \in 2..n /\ k + 1 <= n
      OBVIOUS
    <3>3. i <= n => Good(i - 1)
      <4> HIDE DEF Good
      <4> QED
        BY <2>2, <3>1, <3>2
    <3> HIDE DEF i
    <3>4. i <= n => Good(i)
      <4> HIDE DEF Good
      <4> QED
        BY <1>7, <3>2, <3>3
    <3> HIDE DEF Good
    <3> QED
      BY <3>1, <3>4
  <2> HIDE DEF T
  <2> QED
    BY <2>1, <2>2, SetInduction
<1>9. Good(n)
  <2> HIDE DEF Good
  <2>1. n - 1 \in Nat /\ (n - 1) + 1 = n
    OBVIOUS
  <2>2. n - 1 \in T
    BY <1>8, <2>1
  <2> QED
    BY <2>1, <2>2
<1> HIDE DEF T
<1> QED
  BY <1>2, <1>9 DEF at, HasAt
=============================================================================
